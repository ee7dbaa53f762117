------------------------- MODULE AuthSessionsProofs -------------------------
(***************************************************************************)
(* Theorems about AuthSessions, for every value of its constants: what     *)
(* holds however the requests about an account overlap, and then what      *)
(* holds only when they take turns.                                        *)
(*                                                                         *)
(* Rows are never deleted and never change hands, and what a unit of work  *)
(* has read of a row's account and family stays true of it.                *)
(***************************************************************************)
EXTENDS AuthSessions, TLAPS

\* What a unit of work knows when its request is at a step.
Sound(step, w) ==
    /\ step = "insert" => w.op = "signup"
    /\ step \in {"user", "raise"} => w.op = "refresh"
    /\ w.op \in {"refresh", "logout"} => w.presented # None
    /\ w.presented # None => Stored(w.presented) /\ token[w.presented].user = w.user
    /\ \A t \in w.revokes : Stored(t) /\ token[t].user = w.user
    /\ w.op # "signup" => account[w.user] # "absent"

UnitsAreSound == \A r \in Requests : unit[r] # None => Sound(pc[r], unit[r])

\* A family is that of a row, and of one account.
FamiliesAreOwned ==
    \A t \in TokenIds : Stored(t) =>
        /\ Stored(token[t].family)
        /\ token[token[t].family].user = token[t].user

Inserted(r) == pc[r] = "exit" /\ unit[r].op = "signup"

\* An inserted address that is not committed is nobody's and no other signup's.
AddressesAreUnique ==
    /\ \A u \in Registered : account[u] # "absent"
    /\ \A r \in Requests : Inserted(r) => account[unit[r].user] = "absent"
    /\ \A q, r \in Requests :
           Inserted(q) /\ Inserted(r) /\ unit[q].user = unit[r].user => q = r

LogoutsAreOfRows == \A l \in loggedOut : Stored(l.family)

AuthInv ==
    /\ TypeOK
    /\ UnitsAreSound
    /\ FamiliesAreOwned
    /\ AddressesAreUnique
    /\ LogoutsAreOfRows
    /\ RotationIsAtomic
    /\ RevocationsAreEarned
    /\ OneSignupWins
-----------------------------------------------------------------------------
LEMMA NoneIsNothing == None \notin Token /\ None \notin Work /\ None \notin TokenIds
  BY NoneAssumption

LEMMA NewTokenType ==
    ASSUME NEW u \in Users, NEW f \in TokenIds
    PROVE  /\ NewToken(u, f) \in Token
           /\ NewToken(u, f).user = u /\ NewToken(u, f).family = f
           /\ ~NewToken(u, f).revoked /\ ~NewToken(u, f).expired
  BY DEF NewToken, Token

LEMMA DoingType ==
    ASSUME NEW op \in {"signup", "login", "refresh", "logout", "logout_all"},
           NEW u \in Users, NEW p \in TokenIds \cup {None}, NEW rows \in SUBSET TokenIds
    PROVE  /\ Doing(op, u, p, rows) \in Work
           /\ Doing(op, u, p, rows).op = op /\ Doing(op, u, p, rows).user = u
           /\ Doing(op, u, p, rows).presented = p /\ Doing(op, u, p, rows).revokes = rows
  BY DEF Doing, Work

\* Whoever is not answered yet has issued nothing.
LEMMA UnansweredIssuedNothing ==
    ASSUME AuthInv, NEW r \in Requests, pc[r] # "ok"
    PROVE  /\ r \in TokenIds /\ ~Stored(r) /\ parent[r] = None
           /\ \A t \in TokenIds : parent[t] # r /\ (Stored(t) => token[t].family # r)
<1>1. r \in TokenIds /\ ~Stored(r)
  BY DEF AuthInv, OneSignupWins, TokenIds
<1>2. parent[r] = None
  BY <1>1 DEF AuthInv, RotationIsAtomic
<1>3. ASSUME NEW t \in TokenIds PROVE parent[t] # r /\ (Stored(t) => token[t].family # r)
  BY <1>1, NoneIsNothing DEF AuthInv, RotationIsAtomic, FamiliesAreOwned
<1>. QED BY <1>1, <1>2, <1>3

LEMMA InitKeeps == Init => AuthInv
<1>. SUFFICES ASSUME Init PROVE AuthInv
  OBVIOUS
<1>1. \A d \in Devices :
         /\ NewToken(HolderOf[d], d) \in Token /\ HolderOf[d] \in Registered
         /\ NewToken(HolderOf[d], d).user = HolderOf[d]
         /\ NewToken(HolderOf[d], d).family = d /\ ~NewToken(HolderOf[d], d).revoked
  BY NewTokenType, DevicesAssumption, RegisteredAssumption DEF TokenIds
<1>2. /\ TokenIds = Devices \cup Requests
      /\ \A t \in TokenIds : Stored(t) <=> t \in Devices
      /\ \A d \in Devices : token[d] = NewToken(HolderOf[d], d)
  BY <1>1, NoneIsNothing DEF Init, Stored, TokenIds
<1>3. \A d \in Devices :
         token[d].user = HolderOf[d] /\ token[d].family = d /\ ~token[d].revoked
  BY <1>1, <1>2
<1>4. TypeOK
  BY <1>1, <1>2 DEF Init, TypeOK, Running
<1>5. UnitsAreSound /\ LogoutsAreOfRows
  BY DEF Init, UnitsAreSound, LogoutsAreOfRows
<1>6. FamiliesAreOwned
  BY <1>2, <1>3 DEF FamiliesAreOwned
<1>7. AddressesAreUnique
  BY RegisteredAssumption DEF Init, AddressesAreUnique, Inserted
<1>8. RotationIsAtomic /\ RevocationsAreEarned
  BY <1>2, <1>3 DEF Init, RotationIsAtomic, RevocationsAreEarned
<1>9. OneSignupWins
  BY <1>1, <1>2, <1>3, RegisteredAssumption, NamesAssumption DEF Init, OneSignupWins
<1>. QED BY <1>4, <1>5, <1>6, <1>7, <1>8, <1>9 DEF AuthInv
-----------------------------------------------------------------------------
\* A request is answered without a commit.
LEMMA AnswerKeeps ==
    ASSUME AuthInv, NEW r \in Requests, NEW outcome \in Finished, pc[r] # "ok",
           Answer(r, outcome), loggedOut' = loggedOut,
           reused \subseteq reused', reused' \subseteq TokenIds
    PROVE  AuthInv'
<1>1. outcome \notin Running
  BY DEF Finished, Running
<1>2. TypeOK'
  BY <1>1 DEF AuthInv, TypeOK, Answer, Tables
<1>3. UnitsAreSound'
  BY DEF AuthInv, TypeOK, UnitsAreSound, Sound, Stored, Answer, Tables
<1>4. FamiliesAreOwned' /\ LogoutsAreOfRows' /\ RotationIsAtomic'
  BY DEF AuthInv, FamiliesAreOwned, LogoutsAreOfRows, RotationIsAtomic, Stored, Answer, Tables
<1>5. AddressesAreUnique'
  <2>1. \A q \in Requests : Inserted(q)' => Inserted(q) /\ unit'[q] = unit[q]
    BY <1>1 DEF AuthInv, TypeOK, Inserted, Answer, Running
  <2>. QED BY <2>1 DEF AuthInv, AddressesAreUnique, Answer, Tables
<1>6. RevocationsAreEarned'
  BY DEF AuthInv, RevocationsAreEarned, Stored, Answer, Tables
<1>7. OneSignupWins'
  BY UnansweredIssuedNothing DEF AuthInv, TypeOK, OneSignupWins, Stored, Answer, Tables
<1>. QED BY <1>2, <1>3, <1>4, <1>5, <1>6, <1>7 DEF AuthInv

\* A request goes on, with what it has read.
LEMMA ProceedKeeps ==
    ASSUME AuthInv, NEW r \in Requests, NEW step \in Running, NEW w \in Work, pc[r] # "ok",
           Proceed(r, step, w), UNCHANGED <<loggedOut, reused>>, Sound(step, w),
           step = "exit" /\ w.op = "signup" => account[w.user] = "absent" /\
               \A q \in Requests \ {r} : Inserted(q) => unit[q].user # w.user
    PROVE  AuthInv'
<1>2. TypeOK'
  BY NoneIsNothing DEF AuthInv, TypeOK, Proceed, Tables
<1>3. UnitsAreSound'
  BY DEF AuthInv, TypeOK, UnitsAreSound, Sound, Stored, Proceed, Tables
<1>4. FamiliesAreOwned' /\ LogoutsAreOfRows' /\ RotationIsAtomic'
  BY DEF AuthInv, FamiliesAreOwned, LogoutsAreOfRows, RotationIsAtomic, Stored, Proceed, Tables
<1>5. AddressesAreUnique'
  <2>1. \A q \in Requests \ {r} : (Inserted(q)' <=> Inserted(q)) /\ unit'[q] = unit[q]
    BY DEF AuthInv, TypeOK, Inserted, Proceed
  <2>2. unit'[r] = w /\ pc'[r] = step
    BY DEF AuthInv, TypeOK, Proceed
  <2>. QED BY <2>1, <2>2 DEF AuthInv, AddressesAreUnique, Inserted, Proceed, Tables
<1>6. RevocationsAreEarned'
  BY DEF AuthInv, RevocationsAreEarned, Stored, Proceed, Tables
<1>7. OneSignupWins'
  BY UnansweredIssuedNothing DEF AuthInv, TypeOK, OneSignupWins, Stored, Proceed, Tables
<1>. QED BY <1>2, <1>3, <1>4, <1>5, <1>6, <1>7 DEF AuthInv
-----------------------------------------------------------------------------
(***************************************************************************)
(* What a commit, an expiry or a disabled account does to the tables.      *)
(***************************************************************************)
Grows ==
    /\ \A t \in TokenIds : Stored(t) =>
           /\ token'[t] \in Token /\ token'[t].user = token[t].user
           /\ token'[t].family = token[t].family /\ (token[t].revoked => token'[t].revoked)
    /\ \A u \in Users : account[u] # "absent" => account'[u] # "absent"

LEMMA GrowingKeepsRows ==
    ASSUME Grows, NEW t \in TokenIds, Stored(t)
    PROVE  Stored(t)'
  BY NoneIsNothing DEF Grows, Stored

LEMMA GrowingKeepsSound ==
    ASSUME Grows, NEW step, NEW w \in Work, Sound(step, w)
    PROVE  Sound(step, w)'
<1>1. w.user \in Users /\ w.revokes \subseteq TokenIds /\ w.presented \in TokenIds \cup {None}
  BY DEF Work
<1>. QED BY <1>1, GrowingKeepsRows DEF Grows, Sound

\* A request that was answered has no unit of work; the others keep theirs.
LEMMA GrowingKeepsUnits ==
    ASSUME AuthInv, Grows,
           \A q \in Requests :
               unit'[q] = None \/ (unit'[q] = unit[q] /\ pc'[q] = pc[q])
    PROVE  UnitsAreSound'
<1>1. ASSUME NEW q \in Requests, unit'[q] # None PROVE Sound(pc[q], unit[q])'
  <2>1. /\ unit'[q] = unit[q] /\ pc'[q] = pc[q] /\ unit[q] \in Work /\ pc[q] \in Running
        /\ Sound(pc[q], unit[q])
    BY <1>1 DEF AuthInv, TypeOK, UnitsAreSound
  <2>2. PICK step \in Running, w \in Work : step = pc[q] /\ w = unit[q] /\ Sound(step, w)
    BY <2>1
  <2>3. Sound(step, w)'
    BY <2>2, GrowingKeepsSound
  <2>. QED BY <2>1, <2>2, <2>3 DEF Sound
<1>. QED BY <1>1 DEF UnitsAreSound

LEMMA GrowingKeepsLogouts ==
    ASSUME AuthInv, Grows, loggedOut' = loggedOut
    PROVE  LogoutsAreOfRows'
<1>1. \A l \in loggedOut : l.family \in TokenIds /\ Stored(l.family)
  BY DEF AuthInv, TypeOK, LogoutsAreOfRows
<1>. QED BY <1>1, GrowingKeepsRows DEF LogoutsAreOfRows

LEMMA ExpireKeeps ==
    ASSUME AuthInv, NEW t \in TokenIds, Expire(t)
    PROVE  AuthInv'
<1>1. /\ token[t] \in Token /\ token' = [token EXCEPT ![t] = token'[t]]
      /\ token'[t] = [token[t] EXCEPT !.expired = TRUE]
  BY DEF AuthInv, TypeOK, Expire, Stored
<1>2. /\ token'[t] \in Token /\ token'[t].user = token[t].user
      /\ token'[t].family = token[t].family /\ token'[t].revoked = token[t].revoked
  BY <1>1 DEF Token
<1>3. /\ \A s \in TokenIds : Stored(s)' <=> Stored(s)
      /\ \A s \in TokenIds : Stored(s) =>
             /\ token'[s].user = token[s].user /\ token'[s].family = token[s].family
             /\ token'[s].revoked <=> token[s].revoked
  BY <1>1, <1>2, NoneIsNothing DEF AuthInv, TypeOK, Expire, Stored
<1>4. Grows
  BY <1>1, <1>2, <1>3 DEF AuthInv, TypeOK, Grows, Expire, Stored
<1>5. TypeOK'
  BY <1>1, <1>2 DEF AuthInv, TypeOK, Expire
<1>6. UnitsAreSound'
  BY <1>4, GrowingKeepsUnits DEF Expire
<1>7. FamiliesAreOwned' /\ LogoutsAreOfRows'
  BY <1>3, <1>5 DEF AuthInv, TypeOK, FamiliesAreOwned, LogoutsAreOfRows, Expire, Token, Stored
<1>8. AddressesAreUnique'
  BY DEF AuthInv, AddressesAreUnique, Inserted, Expire
<1>9. RotationIsAtomic' /\ RevocationsAreEarned'
  BY <1>3 DEF AuthInv, TypeOK, RotationIsAtomic, RevocationsAreEarned, Expire
<1>10. OneSignupWins'
  BY <1>3 DEF AuthInv, OneSignupWins, Expire
<1>. QED BY <1>5, <1>6, <1>7, <1>8, <1>9, <1>10 DEF AuthInv

LEMMA DisableKeeps ==
    ASSUME AuthInv, NEW u \in Users, Disable(u)
    PROVE  AuthInv'
<1>1. \A v \in Users : account'[v] = "absent" <=> account[v] = "absent"
  BY DEF AuthInv, TypeOK, Disable
<1>2. Grows
  BY <1>1 DEF AuthInv, TypeOK, Grows, Disable, Stored
<1>3. TypeOK'
  BY DEF AuthInv, TypeOK, Disable
<1>4. UnitsAreSound'
  BY <1>2, GrowingKeepsUnits DEF Disable
<1>5. FamiliesAreOwned' /\ LogoutsAreOfRows' /\ RotationIsAtomic' /\ RevocationsAreEarned'
  BY DEF AuthInv, FamiliesAreOwned, LogoutsAreOfRows, RotationIsAtomic, RevocationsAreEarned,
         Disable, Stored
<1>6. AddressesAreUnique'
  <2>1. \A r \in Requests : Inserted(r) => unit[r].user \in Users
    BY DEF AuthInv, TypeOK, Inserted, Running, Work
  <2>. QED BY <1>1, <2>1, RegisteredAssumption
           DEF AuthInv, AddressesAreUnique, Inserted, Disable
<1>7. OneSignupWins'
  <2>1. \A t \in TokenIds : Stored(t) => token[t].user \in Users
    BY DEF AuthInv, TypeOK, Stored, Token
  <2>. QED BY <1>1, <2>1 DEF AuthInv, OneSignupWins, Disable, Stored
<1>. QED BY <1>3, <1>4, <1>5, <1>6, <1>7 DEF AuthInv
-----------------------------------------------------------------------------
\* What a commit does to the requests: r is answered ok.
Commits(r) ==
    /\ pc[r] = "exit" /\ pc' = [pc EXCEPT ![r] = "ok"]
    /\ unit' = [unit EXCEPT ![r] = None] /\ reused' = reused

LEMMA CommitKeepsUnits ==
    ASSUME AuthInv, Grows, NEW r \in Requests, Commits(r)
    PROVE  /\ UnitsAreSound'
           /\ pc' \in [Requests -> {"idle"} \cup Running \cup Finished]
           /\ unit' \in [Requests -> Work \cup {None}]
           /\ reused' \subseteq TokenIds
           /\ \A q \in Requests : pc'[q] \in Running <=> unit'[q] # None
           /\ \A q \in Requests :
                  Inserted(q)' => q # r /\ Inserted(q) /\ unit'[q] = unit[q]
           /\ \A q \in Requests : pc'[q] = "ok" <=> q = r \/ pc[q] = "ok"
<1>1. \A q \in Requests : unit'[q] = None \/ (unit'[q] = unit[q] /\ pc'[q] = pc[q])
  BY DEF AuthInv, TypeOK, Commits
<1>2. UnitsAreSound'
  BY <1>1, GrowingKeepsUnits
<1>3. \A q \in Requests :
         Inserted(q)' => q # r /\ Inserted(q) /\ unit'[q] = unit[q]
  BY DEF AuthInv, TypeOK, Commits, Inserted
<1>. QED BY <1>2, <1>3 DEF AuthInv, TypeOK, Commits, Running, Finished

\* What r knows when it commits.
LEMMA AtTheCommit ==
    ASSUME AuthInv, NEW r \in Requests, pc[r] = "exit"
    PROVE  /\ unit[r] \in Work /\ Sound("exit", unit[r])
           /\ unit[r].user \in Users /\ unit[r].revokes \subseteq TokenIds
           /\ unit[r].presented \in TokenIds \cup {None}
           /\ r \in TokenIds /\ ~Stored(r) /\ parent[r] = None
<1>1. unit[r] \in Work /\ Sound("exit", unit[r])
  BY DEF AuthInv, TypeOK, Running, UnitsAreSound, Sound
<1>. QED BY <1>1, UnansweredIssuedNothing DEF Work

\* A new row r, and nothing else in the tables of tokens and accounts but what
\* the caller says.
LEMMA CommitFirstKeeps ==
    ASSUME AuthInv, NEW r \in Requests, Commits(r), CommitFirst(r, unit[r])
    PROVE  AuthInv' /\ Grows
<1>. DEFINE u == unit[r].user
            signs == unit[r].op = "signup"
<1>0. /\ pc[r] = "exit" /\ u \in Users /\ r \in TokenIds /\ ~Stored(r) /\ parent[r] = None
      /\ Sound("exit", unit[r]) /\ unit[r].op \in {"signup", "login"}
  BY AtTheCommit DEF Commits, CommitFirst
<1>1. /\ token'[r] \in Token /\ token'[r].user = u /\ token'[r].family = r
      /\ ~token'[r].revoked /\ token' = [token EXCEPT ![r] = token'[r]]
  BY <1>0, NewTokenType DEF AuthInv, TypeOK, CommitFirst
<1>2. /\ \A t \in TokenIds \ {r} : token'[t] = token[t]
      /\ Stored(r)' /\ \A t \in TokenIds \ {r} : Stored(t)' <=> Stored(t)
  BY <1>1, NoneIsNothing DEF AuthInv, TypeOK, Stored
<1>3. /\ account' \in [Users -> {"absent", "active", "disabled"}]
      /\ account'[u] # "absent"
      /\ \A v \in Users : v # u \/ ~signs => account'[v] = account[v]
      /\ signs => account[u] = "absent"
  <2>1. signs => account[u] = "absent"
    BY <1>0 DEF AuthInv, AddressesAreUnique, Inserted
  <2>2. ~signs => account[u] # "absent"
    BY <1>0 DEF Sound
  <2>. QED BY <1>0, <2>1, <2>2 DEF AuthInv, TypeOK, CommitFirst
<1>4. Grows
  BY <1>0, <1>2, <1>3 DEF AuthInv, TypeOK, Grows, Stored
<1>5. founders' \in [Users -> SUBSET Requests]
  BY <1>0 DEF AuthInv, TypeOK, CommitFirst
<1>6. TypeOK'
  BY <1>0, <1>1, <1>3, <1>4, <1>5, CommitKeepsUnits DEF AuthInv, TypeOK, CommitFirst
<1>7. FamiliesAreOwned' /\ LogoutsAreOfRows'
  <2>1. FamiliesAreOwned'
    <3>1. ASSUME NEW t \in TokenIds, t # r, Stored(t)
          PROVE  token[t].family \in TokenIds /\ token[t].family # r
      BY <1>0, <3>1, UnansweredIssuedNothing DEF AuthInv, TypeOK, Stored, Token
    <3>. QED BY <1>0, <1>1, <1>2, <3>1 DEF AuthInv, FamiliesAreOwned
  <2>. QED BY <1>4, <2>1, GrowingKeepsLogouts DEF CommitFirst
<1>8. AddressesAreUnique'
  <2>1. \A q \in Requests : Inserted(q)' => unit[q].user # u /\ unit[q].user \in Users
    BY <1>0, <1>3, <1>4, CommitKeepsUnits, AtTheCommit
       DEF AuthInv, AddressesAreUnique, Inserted
  <2>. QED BY <1>3, <1>4, <2>1, CommitKeepsUnits, RegisteredAssumption
           DEF AuthInv, AddressesAreUnique, Grows
<1>9. RotationIsAtomic'
  BY <1>0, <1>2, UnansweredIssuedNothing
     DEF AuthInv, TypeOK, RotationIsAtomic, CommitFirst, Commits
<1>10. RevocationsAreEarned'
  BY <1>1, <1>2 DEF AuthInv, RevocationsAreEarned, CommitFirst, Commits
<1>11. OneSignupWins'
  <2>1. \A v \in Users : founders'[v] = IF signs /\ v = u THEN founders[v] \cup {r} ELSE founders[v]
    BY <1>0 DEF AuthInv, TypeOK, CommitFirst
  <2>2. signs => founders[u] = {} /\ u \notin Registered
    BY <1>0, <1>3 DEF AuthInv, OneSignupWins, AddressesAreUnique
  <2>3. ASSUME NEW v \in Users
        PROVE  /\ \A q, s \in founders'[v] : q = s
               /\ founders'[v] = {} <=> v \in Registered \/ account'[v] = "absent"
    <3>1. CASE signs /\ v = u
      BY <1>3, <2>1, <2>2, <3>1
    <3>2. CASE ~(signs /\ v = u)
      <4>1. founders'[v] = founders[v] /\ account'[v] = account[v]
        BY <1>3, <2>1, <3>2
      <4>. QED BY <4>1 DEF AuthInv, OneSignupWins
    <3>. QED BY <3>1, <3>2
  <2>4. ASSUME NEW t \in TokenIds, Stored(t)'
        PROVE  account'[token'[t].user] # "absent" /\ (t \in Requests => pc'[t] = "ok")
    <3>1. CASE t = r
      BY <1>1, <1>3, <1>4, <3>1, CommitKeepsUnits
    <3>2. CASE t # r
      <4>1. Stored(t) /\ token'[t] = token[t] /\ token[t].user \in Users
        BY <1>2, <2>4, <3>2 DEF AuthInv, TypeOK, Stored, Token
      <4>. QED BY <1>4, <4>1, CommitKeepsUnits DEF AuthInv, OneSignupWins, Grows
    <3>. QED BY <3>1, <3>2
  <2>. QED BY <2>3, <2>4 DEF OneSignupWins
<1>. QED BY <1>4, <1>6, <1>7, <1>8, <1>9, <1>10, <1>11, CommitKeepsUnits DEF AuthInv

LEMMA CommitRotationKeeps ==
    ASSUME AuthInv, NEW r \in Requests, Commits(r), CommitRotation(r, unit[r])
    PROVE  AuthInv' /\ Grows
<1>. DEFINE u == unit[r].user
            p == unit[r].presented
<1>0. /\ pc[r] = "exit" /\ u \in Users /\ r \in TokenIds /\ ~Stored(r) /\ parent[r] = None
      /\ p \in TokenIds /\ Stored(p) /\ p # r
      /\ token[p] \in Token /\ token[p].user = u /\ token[p].family \in TokenIds
      /\ account[u] # "absent"
  <2>1. p # None
    BY AtTheCommit DEF Commits, CommitRotation, Sound
  <2>. QED BY <2>1, AtTheCommit DEF Commits, CommitRotation, Sound, AuthInv, TypeOK, Stored, Token
<1>1. /\ token'[r] \in Token /\ token'[r].user = u
      /\ token'[r].family = token[p].family /\ ~token'[r].revoked
  BY <1>0, NewTokenType DEF AuthInv, TypeOK, CommitRotation
<1>2. /\ token'[p] \in Token /\ token'[p].user = u
      /\ token'[p].family = token[p].family /\ token'[p].revoked
  BY <1>0 DEF AuthInv, TypeOK, CommitRotation, Token
<1>3. \A t \in TokenIds \ {p, r} : token'[t] = token[t]
  BY <1>0 DEF AuthInv, TypeOK, CommitRotation
<1>4. token' \in [TokenIds -> Token \cup {None}]
  <2>1. token' = [t \in TokenIds |-> token'[t]]
    BY DEF AuthInv, TypeOK, CommitRotation
  <2>2. \A t \in TokenIds : token'[t] \in Token \cup {None}
    BY <1>1, <1>2, <1>3 DEF AuthInv, TypeOK
  <2>. QED BY <2>1, <2>2
<1>5. Grows
  BY <1>0, <1>2, <1>3 DEF AuthInv, TypeOK, Grows, Stored, CommitRotation
<1>6. \A t \in TokenIds :
         /\ Stored(t)' => t = r \/ Stored(t)
         /\ Stored(t) => /\ Stored(t)' /\ t # r /\ token'[t].user = token[t].user
                         /\ token'[t].family = token[t].family
  BY <1>0, <1>2, <1>3, <1>5, GrowingKeepsRows DEF Grows, Stored
<1>7. /\ parent' \in [TokenIds -> TokenIds \cup {None}] /\ parent'[r] = p
      /\ \A t \in TokenIds \ {r} : parent'[t] = parent[t]
  BY <1>0 DEF AuthInv, TypeOK, CommitRotation
<1>8. TypeOK'
  BY <1>4, <1>5, <1>7, CommitKeepsUnits DEF AuthInv, TypeOK, CommitRotation
<1>9. FamiliesAreOwned'
  <2>1. /\ Stored(r)' /\ Stored(token[p].family) /\ token[p].family \in TokenIds
        /\ token[token[p].family].user = u
    BY <1>0, <1>1, NoneIsNothing DEF AuthInv, FamiliesAreOwned, Stored
  <2>2. ASSUME NEW t \in TokenIds, Stored(t)
        PROVE  token[t].family \in TokenIds
    BY <2>2 DEF AuthInv, TypeOK, Stored, Token
  <2>. QED BY <1>1, <1>6, <2>1, <2>2 DEF AuthInv, FamiliesAreOwned
<1>10. AddressesAreUnique'
  BY <1>5, CommitKeepsUnits DEF AuthInv, AddressesAreUnique, CommitRotation
<1>11. RotationIsAtomic'
  <2>1. ASSUME NEW t \in TokenIds, parent'[t] # None
        PROVE  /\ token'[t] # None /\ token'[parent'[t]] # None
               /\ token'[parent'[t]].revoked
               /\ token'[parent'[t]].family = token'[t].family
               /\ token'[parent'[t]].user = token'[t].user
    <3>1. CASE t = r
      BY <1>1, <1>2, <1>7, <3>1, NoneIsNothing
    <3>2. CASE t # r
      <4>. DEFINE q == parent[t]
      <4>1. /\ parent'[t] = q /\ q \in TokenIds
            /\ Stored(t) /\ Stored(q) /\ token[q].revoked
            /\ token[q].family = token[t].family /\ token[q].user = token[t].user
        BY <1>7, <2>1, <3>2 DEF AuthInv, TypeOK, RotationIsAtomic
      <4>. HIDE DEF q
      <4>2. /\ token'[t] # None /\ token'[t].family = token[t].family
            /\ token'[t].user = token[t].user
        BY <1>6, <4>1 DEF Stored
      <4>3. /\ token'[q] # None /\ token'[q].family = token[q].family
            /\ token'[q].user = token[q].user /\ token'[q].revoked
        BY <1>5, <1>6, <4>1 DEF Grows, Stored
      <4>. QED BY <4>1, <4>2, <4>3
    <3>. QED BY <3>1, <3>2
  <2>. QED BY <2>1 DEF RotationIsAtomic, Stored
<1>12. RevocationsAreEarned'
  <2>1. ASSUME NEW t \in TokenIds, Stored(t)', token'[t].revoked
        PROVE  \/ \E s \in TokenIds : parent'[s] = t
               \/ token'[t].family \in reused' \cup {l.family : l \in loggedOut'}
    <3>1. CASE t = p
      BY <1>0, <1>7, <3>1
    <3>2. CASE t # p
      <4>1. t # r /\ token'[t] = token[t] /\ Stored(t)
        BY <1>1, <1>3, <2>1, <3>2 DEF Stored
      <4>2. \A s \in TokenIds : parent[s] = t => parent'[s] = t
        BY <1>0, <1>7, NoneIsNothing
      <4>. QED BY <2>1, <4>1, <4>2 DEF AuthInv, RevocationsAreEarned, CommitRotation, Commits
    <3>. QED BY <3>1, <3>2
  <2>. QED BY <2>1 DEF RevocationsAreEarned
<1>13. OneSignupWins'
  <2>1. ASSUME NEW t \in TokenIds, Stored(t)'
        PROVE  account'[token'[t].user] # "absent" /\ (t \in Requests => pc'[t] = "ok")
    <3>1. \A q \in Requests : pc'[q] = "ok" <=> q = r \/ pc[q] = "ok"
      BY <1>5, CommitKeepsUnits
    <3>2. account' = account
      BY DEF CommitRotation
    <3>3. CASE t = r
      BY <1>0, <1>1, <3>1, <3>2, <3>3
    <3>4. CASE t # r
      BY <1>6, <2>1, <3>1, <3>2, <3>4 DEF AuthInv, OneSignupWins
    <3>. QED BY <3>3, <3>4
  <2>. QED BY <2>1 DEF AuthInv, OneSignupWins, CommitRotation
<1>14. LogoutsAreOfRows'
  BY <1>5, GrowingKeepsLogouts DEF CommitRotation
<1>. QED BY <1>5, <1>8, <1>9, <1>10, <1>11, <1>12, <1>13, <1>14, CommitKeepsUnits DEF AuthInv

LEMMA CommitRevocationKeeps ==
    ASSUME AuthInv, NEW r \in Requests, Commits(r), CommitRevocation(r, unit[r])
    PROVE  AuthInv' /\ Grows
<1>. DEFINE rows == unit[r].revokes
            ended == unit[r].revokes \cup ({unit[r].presented} \ {None})
<1>0. /\ pc[r] = "exit" /\ rows \subseteq ended /\ ended \subseteq TokenIds
      /\ \A t \in ended : Stored(t) /\ token[t] \in Token
      /\ unit[r].op \in {"logout", "logout_all"}
  <2>1. unit[r].op \in {"logout", "logout_all"} /\ pc[r] = "exit"
    BY DEF Commits, CommitRevocation
  <2>2. /\ rows \subseteq ended /\ ended \subseteq TokenIds
        /\ \A t \in ended : Stored(t)
    BY <2>1, AtTheCommit DEF Sound
  <2>. QED BY <2>1, <2>2 DEF AuthInv, TypeOK, Stored
<1>1. ASSUME NEW t \in TokenIds, Stored(t)
      PROVE  /\ token'[t] \in Token /\ token'[t].user = token[t].user
             /\ token'[t].family = token[t].family
             /\ token'[t].revoked <=> token[t].revoked \/ t \in rows
  <2>1. token[t] \in Token
    BY <1>1 DEF AuthInv, TypeOK, Stored
  <2>2. CASE t \in rows
    BY <2>1, <2>2 DEF CommitRevocation, Token
  <2>3. CASE t \notin rows
    BY <2>1, <2>3 DEF CommitRevocation
  <2>. QED BY <2>2, <2>3
<1>2. \A t \in TokenIds : ~Stored(t) => token'[t] = None
  BY <1>0 DEF CommitRevocation, Stored
<1>3. Grows
  BY <1>1 DEF Grows, CommitRevocation
<1>4. \A t \in TokenIds : Stored(t)' <=> Stored(t)
  BY <1>1, <1>2, NoneIsNothing DEF Stored
<1>5. loggedOut' \subseteq [op : {"logout", "logout_all"}, family : TokenIds]
  <2>1. FamiliesEnded(unit[r]) \subseteq [op : {"logout", "logout_all"}, family : TokenIds]
    BY <1>0 DEF FamiliesEnded, Token
  <2>. QED BY <2>1 DEF AuthInv, TypeOK, CommitRevocation
<1>6. TypeOK'
  <2>1. token' \in [TokenIds -> Token \cup {None}]
    <3>1. token' = [t \in TokenIds |-> token'[t]]
      BY DEF CommitRevocation
    <3>2. \A t \in TokenIds : token'[t] \in Token \cup {None}
      BY <1>1, <1>2
    <3>. QED BY <3>1, <3>2
  <2>. QED BY <1>3, <1>5, <2>1, CommitKeepsUnits DEF AuthInv, TypeOK, CommitRevocation
<1>7. FamiliesAreOwned'
  <2>1. \A t \in TokenIds : Stored(t) => token[t].family \in TokenIds
    BY DEF AuthInv, TypeOK, Stored, Token
  <2>. QED BY <1>1, <1>4, <2>1 DEF AuthInv, FamiliesAreOwned
<1>8. AddressesAreUnique'
  BY <1>3, CommitKeepsUnits DEF AuthInv, AddressesAreUnique, CommitRevocation
<1>9. LogoutsAreOfRows'
  <2>1. ASSUME NEW l \in loggedOut' PROVE l.family \in TokenIds /\ Stored(l.family)
    <3>1. CASE l \in loggedOut
      BY <3>1 DEF AuthInv, TypeOK, LogoutsAreOfRows
    <3>2. CASE l \in FamiliesEnded(unit[r])
      <4>1. PICK t \in ended : l = [op |-> unit[r].op, family |-> token[t].family]
        BY <3>2 DEF FamiliesEnded
      <4>. QED BY <1>0, <4>1 DEF AuthInv, FamiliesAreOwned, Token
    <3>. QED BY <2>1, <3>1, <3>2 DEF CommitRevocation
  <2>. QED BY <1>4, <2>1 DEF LogoutsAreOfRows
<1>10. RotationIsAtomic'
  <2>1. ASSUME NEW t \in TokenIds, parent[t] # None
        PROVE  /\ parent[t] \in TokenIds /\ Stored(t)' /\ Stored(parent[t])
               /\ token'[parent[t]] # None /\ token'[parent[t]].revoked
               /\ token'[parent[t]].family = token'[t].family
               /\ token'[parent[t]].user = token'[t].user
    <3>1. /\ parent[t] \in TokenIds /\ Stored(t) /\ Stored(parent[t])
          /\ token[parent[t]].revoked /\ token[parent[t]].family = token[t].family
          /\ token[parent[t]].user = token[t].user
      BY <2>1 DEF AuthInv, TypeOK, RotationIsAtomic
    <3>. QED BY <1>1, <1>4, <3>1 DEF Stored
  <2>. QED BY <2>1 DEF RotationIsAtomic, Stored, CommitRevocation
<1>11. RevocationsAreEarned'
  <2>1. ASSUME NEW t \in TokenIds, Stored(t)', token'[t].revoked
        PROVE  \/ \E s \in TokenIds : parent'[s] = t
               \/ token'[t].family \in reused' \cup {l.family : l \in loggedOut'}
    <3>1. Stored(t) /\ token'[t].family = token[t].family
      BY <1>1, <1>4, <2>1
    <3>2. CASE t \in rows
      <4>. DEFINE l == [op |-> unit[r].op, family |-> token[t].family]
      <4>1. l \in loggedOut' /\ l.family = token[t].family
        BY <1>0, <3>2 DEF CommitRevocation, FamiliesEnded
      <4>. QED BY <3>1, <4>1
    <3>3. CASE t \notin rows
      BY <1>1, <2>1, <3>1, <3>3 DEF AuthInv, RevocationsAreEarned, CommitRevocation, Commits
    <3>. QED BY <3>2, <3>3
  <2>. QED BY <2>1 DEF RevocationsAreEarned
<1>12. OneSignupWins'
  <2>1. \A q \in Requests : pc[q] = "ok" => pc'[q] = "ok"
    BY <1>3, CommitKeepsUnits
  <2>2. account' = account /\ founders' = founders
    BY DEF CommitRevocation
  <2>3. \A t \in TokenIds : Stored(t)' => Stored(t) /\ token'[t].user = token[t].user
    BY <1>1, <1>4
  <2>. QED BY <2>1, <2>2, <2>3 DEF AuthInv, OneSignupWins
<1>. QED BY <1>3, <1>6, <1>7, <1>8, <1>9, <1>10, <1>11, <1>12, CommitKeepsUnits DEF AuthInv
-----------------------------------------------------------------------------
(***************************************************************************)
(* The handlers.                                                           *)
(***************************************************************************)
LEMMA OutcomesAndSteps ==
    /\ {"ok", "refused", "denied", "conflict", "reuse", "error", "lost"} \subseteq Finished
    /\ {"insert", "user", "raise", "exit"} \subseteq Running
  BY DEF Finished, Running

LEMMA SignupKeeps ==
    ASSUME AuthInv, NEW r \in Requests, NEW u \in Users, Signup(r, u) PROVE AuthInv'
<1>1. CASE account[u] = "absent"
  <2>. DEFINE w == Doing("signup", u, None, {})
  <2>1. /\ w \in Work /\ w.op = "signup" /\ w.presented = None
        /\ w.revokes = {}
    BY DoingType
  <2>. HIDE DEF w
  <2>2. Sound("insert", w)
    BY <2>1 DEF Sound
  <2>3. Proceed(r, "insert", w)
    BY <1>1 DEF Signup, w
  <2>. QED BY <2>1, <2>2, <2>3, ProceedKeeps, OutcomesAndSteps DEF Signup
<1>2. CASE account[u] # "absent"
  BY <1>2, AnswerKeeps, OutcomesAndSteps DEF Signup, AuthInv, TypeOK
<1>. QED BY <1>1, <1>2

LEMMA LoginKeeps ==
    ASSUME AuthInv, NEW r \in Requests, NEW u \in Users, Login(r, u) PROVE AuthInv'
<1>1. CASE Answer(r, "denied")
  BY <1>1, AnswerKeeps, OutcomesAndSteps DEF Login, AuthInv, TypeOK
<1>2. CASE account[u] = "active" /\ Proceed(r, "exit", Doing("login", u, None, {}))
  <2>. DEFINE w == Doing("login", u, None, {})
  <2>1. /\ w \in Work /\ w.op = "login" /\ w.user = u /\ w.presented = None
        /\ w.revokes = {}
    BY DoingType
  <2>. HIDE DEF w
  <2>2. Sound("exit", w)
    BY <1>2, <2>1 DEF Sound
  <2>3. Proceed(r, "exit", w)
    BY <1>2 DEF w
  <2>. QED BY <2>1, <2>2, <2>3, ProceedKeeps, OutcomesAndSteps DEF Login
<1>. QED BY <1>1, <1>2 DEF Login

LEMMA LogoutAllKeeps ==
    ASSUME AuthInv, NEW r \in Requests, NEW u \in Users, LogoutAll(r, u) PROVE AuthInv'
<1>1. CASE Answer(r, "refused")
  BY <1>1, AnswerKeeps, OutcomesAndSteps DEF LogoutAll, AuthInv, TypeOK
<1>2. CASE /\ account[u] = "active"
           /\ Proceed(r, "exit", Doing("logout_all", u, None, LiveTokens(u)))
  <2>. DEFINE w == Doing("logout_all", u, None, LiveTokens(u))
  <2>1. /\ w \in Work /\ w.op = "logout_all" /\ w.user = u /\ w.presented = None
        /\ w.revokes = LiveTokens(u)
    BY DoingType DEF LiveTokens
  <2>. HIDE DEF w
  <2>2. Sound("exit", w)
    BY <1>2, <2>1 DEF Sound, LiveTokens, Live
  <2>3. Proceed(r, "exit", w)
    BY <1>2 DEF w
  <2>. QED BY <2>1, <2>2, <2>3, ProceedKeeps, OutcomesAndSteps DEF LogoutAll
<1>. QED BY <1>1, <1>2 DEF LogoutAll

\* What refresh and logout know of the row of the token they were sent.
LEMMA TokenWork ==
    ASSUME AuthInv, NEW t \in TokenIds, Stored(t), NEW op \in {"refresh", "logout"},
           NEW rows \in SUBSET LiveFamily(token[t].family), NEW step \in Running \ {"insert"},
           step # "exit" => op = "refresh"
    PROVE  /\ Doing(op, token[t].user, t, rows) \in Work
           /\ Doing(op, token[t].user, t, rows).op = op
           /\ Sound(step, Doing(op, token[t].user, t, rows))
<1>. DEFINE u == token[t].user
            w == Doing(op, u, t, rows)
<1>1. u \in Users /\ rows \subseteq TokenIds
  BY DEF AuthInv, TypeOK, Stored, Token, LiveFamily
<1>2. w \in Work /\ w.op = op /\ w.user = u /\ w.presented = t /\ w.revokes = rows
  BY <1>1, DoingType
<1>3. \A s \in rows : Stored(s) /\ token[s].user = u
  BY <1>1 DEF AuthInv, FamiliesAreOwned, LiveFamily, Live
<1>4. account[u] # "absent" /\ t # None
  BY NoneIsNothing DEF AuthInv, OneSignupWins
<1>. HIDE DEF w, u
<1>5. Sound(step, w)
  BY <1>2, <1>3, <1>4 DEF Sound, u, Running
<1>. QED BY <1>2, <1>5 DEF w, u

LEMMA RefreshKeeps ==
    ASSUME AuthInv, NEW r \in Requests, NEW t \in TokenIds, Refresh(r, t) PROVE AuthInv'
<1>1. CASE Answer(r, "denied")
  BY <1>1, AnswerKeeps, OutcomesAndSteps DEF Refresh, AuthInv, TypeOK
<1>2. ASSUME NEW rows \in SUBSET LiveFamily(token[t].family), NEW step \in {"raise", "user"},
             Stored(t), Proceed(r, step, Doing("refresh", token[t].user, t, rows))
      PROVE  AuthInv'
  <2>. DEFINE w == Doing("refresh", token[t].user, t, rows)
  <2>1. w \in Work /\ w.op = "refresh" /\ Sound(step, w) /\ step \in Running
    BY <1>2, TokenWork, OutcomesAndSteps
  <2>. HIDE DEF w
  <2>2. Proceed(r, step, w)
    BY <1>2 DEF w
  <2>. QED BY <2>1, <2>2, ProceedKeeps DEF Refresh
<1>. QED BY <1>1, <1>2 DEF Refresh, Live

LEMMA LogoutKeeps ==
    ASSUME AuthInv, NEW r \in Requests, NEW t \in TokenIds, Logout(r, t) PROVE AuthInv'
<1>1. CASE Answer(r, "ok")
  BY <1>1, AnswerKeeps, OutcomesAndSteps DEF Logout, AuthInv, TypeOK
<1>2. ASSUME NEW rows \in SUBSET LiveFamily(token[t].family),
             Stored(t), Proceed(r, "exit", Doing("logout", token[t].user, t, rows))
      PROVE  AuthInv'
  <2>. DEFINE w == Doing("logout", token[t].user, t, rows)
  <2>1. w \in Work /\ w.op = "logout" /\ Sound("exit", w)
    BY <1>2, TokenWork, OutcomesAndSteps
  <2>. HIDE DEF w
  <2>2. Proceed(r, "exit", w)
    BY <1>2 DEF w
  <2>. QED BY <2>1, <2>2, ProceedKeeps, OutcomesAndSteps DEF Logout
<1>. QED BY <1>1, <1>2 DEF Logout

LEMMA RunningWork ==
    ASSUME AuthInv, NEW r \in Requests, pc[r] \in Running
    PROVE  unit[r] \in Work /\ Sound(pc[r], unit[r]) /\ pc[r] # "ok" /\ unit[r].user \in Users
<1>1. unit[r] # None /\ unit[r] \in Work
  BY DEF AuthInv, TypeOK
<1>2. Sound(pc[r], unit[r])
  BY <1>1 DEF AuthInv, UnitsAreSound
<1>. QED BY <1>1, <1>2 DEF Work, Running

\* A request goes on with the unit of work it has.
LEMMA GoesOnKeeps ==
    ASSUME AuthInv, NEW r \in Requests, pc[r] \in {"insert", "user"},
           Proceed(r, "exit", unit[r]), UNCHANGED <<loggedOut, reused>>,
           pc[r] = "insert" => account[unit[r].user] = "absent" /\ ~AddressPending(r)
    PROVE  AuthInv'
<1>1. PICK w \in Work : w = unit[r] /\ Sound(pc[r], w) /\ pc[r] # "ok"
  BY RunningWork, OutcomesAndSteps
<1>2. Sound("exit", w)
  BY <1>1 DEF Sound
<1>3. w.op = "signup" => pc[r] = "insert"
  BY <1>1 DEF Sound
<1>4. pc[r] = "insert" => \A q \in Requests \ {r} : Inserted(q) => unit[q].user # w.user
  BY <1>1 DEF AddressPending, Inserted
<1>. QED BY <1>1, <1>2, <1>3, <1>4, ProceedKeeps, OutcomesAndSteps

LEMMA ServeKeeps ==
    ASSUME AuthInv, NEW r \in Requests, Serve(r) PROVE AuthInv'
<1>1. CASE InsertUser(r)
  <2>1. CASE account[unit[r].user] = "absent"
    BY <1>1, <2>1, GoesOnKeeps DEF InsertUser
  <2>2. CASE account[unit[r].user] # "absent"
    BY <1>1, <2>2, AnswerKeeps, OutcomesAndSteps DEF InsertUser, AuthInv, TypeOK
  <2>. QED BY <2>1, <2>2
<1>2. CASE CheckUser(r)
  <2>1. CASE account[unit[r].user] = "active"
    BY <1>2, <2>1, GoesOnKeeps DEF CheckUser
  <2>2. CASE account[unit[r].user] # "active"
    BY <1>2, <2>2, AnswerKeeps, OutcomesAndSteps DEF CheckUser, AuthInv, TypeOK
  <2>. QED BY <2>1, <2>2
<1>3. CASE Raise(r)
  <2>1. token[unit[r].presented].family \in TokenIds
    <3>1. /\ unit[r] \in Work /\ unit[r].presented # None /\ Stored(unit[r].presented)
      BY <1>3, RunningWork, OutcomesAndSteps DEF Raise, Sound
    <3>2. unit[r].presented \in TokenIds
      BY <3>1 DEF Work
    <3>. QED BY <3>1, <3>2 DEF AuthInv, TypeOK, Stored, Token
  <2>2. reused \subseteq reused' /\ reused' \subseteq TokenIds
    BY <1>3, <2>1 DEF Raise, AuthInv, TypeOK
  <2>. QED BY <1>3, <2>2, AnswerKeeps, OutcomesAndSteps DEF Raise
<1>4. CASE Commit(r)
  <2>1. Commits(r)
    BY <1>4 DEF Commit, Commits
  <2>. QED BY <1>4, <2>1, CommitFirstKeeps, CommitRotationKeeps, CommitRevocationKeeps DEF Commit
<1>. QED BY <1>1, <1>2, <1>3, <1>4 DEF Serve

LEMMA BeginKeeps ==
    ASSUME AuthInv, NEW r \in Requests, Begin(r) PROVE AuthInv'
<1>1. CASE TurnedAway(r)
  BY <1>1, AnswerKeeps, OutcomesAndSteps DEF TurnedAway, AuthInv, TypeOK
<1>. QED BY <1>1, SignupKeeps, LoginKeeps, LogoutAllKeeps, RefreshKeeps, LogoutKeeps DEF Begin

LEMMA CrashKeeps ==
    ASSUME AuthInv, NEW r \in Requests, Crash(r) PROVE AuthInv'
<1>1. pc[r] # "ok"
  BY DEF Crash, Running
<1>. QED BY <1>1, AnswerKeeps, OutcomesAndSteps DEF Crash, AuthInv, TypeOK

LEMMA StutterKeeps ==
    ASSUME AuthInv, UNCHANGED vars PROVE AuthInv'
<1>. USE DEF vars
<1>1. TypeOK' /\ UnitsAreSound' /\ FamiliesAreOwned'
  BY DEF AuthInv, TypeOK, UnitsAreSound, Sound, FamiliesAreOwned, Stored
<1>2. AddressesAreUnique' /\ LogoutsAreOfRows' /\ RotationIsAtomic' /\ RevocationsAreEarned'
  BY DEF AuthInv, AddressesAreUnique, Inserted, LogoutsAreOfRows, RotationIsAtomic,
         RevocationsAreEarned, Stored
<1>3. OneSignupWins'
  BY DEF AuthInv, OneSignupWins, Stored
<1>. QED BY <1>1, <1>2, <1>3 DEF AuthInv

LEMMA NextKeeps == AuthInv /\ [Next]_vars => AuthInv'
  BY BeginKeeps, ServeKeeps, CrashKeeps, ExpireKeeps, DisableKeeps, StutterKeeps DEF Next

LEMMA AuthInvAlways == Spec => []AuthInv
  BY InitKeeps, NextKeeps, PTL DEF Spec
-----------------------------------------------------------------------------
(***************************************************************************)
(* Rows, units of work and histories keep their types: in particular the   *)
(* rows that a commit updates are rows, however late it comes.             *)
(***************************************************************************)
THEOREM TypeCorrect == Spec => []TypeOK
<1>1. AuthInv => TypeOK
  BY DEF AuthInv
<1>. QED BY <1>1, AuthInvAlways, PTL

(***************************************************************************)
(* A token and its successor are of one family and one account, and the    *)
(* first is revoked when the second is there (auth_service.py, refresh).   *)
(***************************************************************************)
THEOREM RotationsAreAtomic == Spec => []RotationIsAtomic
<1>1. AuthInv => RotationIsAtomic
  BY DEF AuthInv
<1>. QED BY <1>1, AuthInvAlways, PTL

(***************************************************************************)
(* No refresh that failed, and no crash, has revoked the client's token.   *)
(***************************************************************************)
THEOREM NothingIsRevokedForNothing == Spec => []RevocationsAreEarned
<1>1. AuthInv => RevocationsAreEarned
  BY DEF AuthInv
<1>. QED BY <1>1, AuthInvAlways, PTL

(***************************************************************************)
(* Of overlapping signups for an address one is answered ok, and whoever   *)
(* is issued a token has an account (auth_service.py, signup).             *)
(***************************************************************************)
THEOREM AddressesAreSignedUpOnce == Spec => []OneSignupWins
<1>1. AuthInv => OneSignupWins
  BY DEF AuthInv
<1>. QED BY <1>1, AuthInvAlways, PTL
-----------------------------------------------------------------------------
(***************************************************************************)
(* What rotation and logout are for does not survive every overlap, and    *)
(* the overlaps that break it are few.  Two refreshes of one token leave   *)
(* two live tokens in a family; a refresh that ends after the logout of    *)
(* its session has read the rows leaves one live.  Nothing else does: the  *)
(* theorems below assume that just these pairs are never under way         *)
(* together, which a lock on the presented row would see to, and requests  *)
(* that take turns by account are a special case of it.                    *)
(***************************************************************************)

\* The requests about an account take turns.
TheyTakeTurns ==
    \A q, r \in Requests :
        pc[q] \in Running /\ pc[r] \in Running /\ unit[q].user = unit[r].user => q = r

\* What is live in a session that is being extended is the token presented for it.
RotationsAgree ==
    /\ \A r \in Requests : Rotating(r) =>
           \A t \in TokenIds :
               Live(t) /\ token[t].family = SessionOf(r) => t = unit[r].presented
    /\ \A q, r \in Requests :
           Rotating(q) /\ Rotating(r) /\ SessionOf(q) = SessionOf(r)
               => unit[q].presented = unit[r].presented

OneLiveInv == OneLiveTokenPerFamily /\ RotationsAgree

\* Every row that is live in a session w reports as ended is one that w revokes.
Covers(w) ==
    \A t \in TokenIds : Live(t) /\ Ends(w, token[t].family) => t \in w.revokes

LogoutsCover == \A r \in Requests : LoggingOut(r) => Covers(unit[r])

EndedSessionsAreDead ==
    \A l \in loggedOut :
        /\ \A t \in TokenIds : Live(t) => token[t].family # l.family
        /\ \A r \in Requests : Rotating(r) => SessionOf(r) # l.family

EndedInv == LogoutsCover /\ EndedSessionsAreDead
-----------------------------------------------------------------------------
(***************************************************************************)
(* What a step that writes no table does to the units of work.             *)
(***************************************************************************)

\* r is answered, goes on with its unit of work, or begins with one that is
\* true of the tables.
ServedStep(r) ==
    /\ UNCHANGED <<token, loggedOut>>
    /\ \A q \in Requests \ {r} : pc'[q] = pc[q] /\ unit'[q] = unit[q]
    /\ pc'[r] \in Running =>
           \/ /\ pc[r] \in Running /\ unit'[r] = unit[r]
              /\ Rotating(r)' => Rotating(r)
              /\ ~LoggingOut(r)'
           \/ /\ Quiet(unit'[r].user)
              /\ Rotating(r)' => unit'[r].presented \in TokenIds /\ Live(unit'[r].presented)
              /\ LoggingOut(r)' => Covers(unit'[r])

\* What a request that trades its token knows of it.
LEMMA RotatingWork ==
    ASSUME AuthInv, NEW r \in Requests, Rotating(r)
    PROVE  /\ unit[r].presented \in TokenIds /\ Stored(unit[r].presented)
           /\ token[unit[r].presented].user = unit[r].user
           /\ pc[r] \in Running
<1>1. pc[r] \in Running
  BY OutcomesAndSteps DEF Rotating
<1>2. unit[r] \in Work /\ Sound(pc[r], unit[r])
  BY <1>1, RunningWork
<1>. QED BY <1>1, <1>2 DEF Rotating, Sound, Work

\* What a logout knows of the rows whose sessions it reports as ended.
LEMMA LoggingOutWork ==
    ASSUME AuthInv, NEW r \in Requests, LoggingOut(r)
    PROVE  /\ pc[r] \in Running /\ unit[r].revokes \subseteq TokenIds
           /\ \A t \in unit[r].revokes \cup ({unit[r].presented} \ {None}) :
                  t \in TokenIds /\ Stored(t) /\ token[t].user = unit[r].user
<1>1. pc[r] \in Running
  BY OutcomesAndSteps DEF LoggingOut
<1>2. unit[r] \in Work /\ Sound(pc[r], unit[r])
  BY <1>1, RunningWork
<1>. QED BY <1>1, <1>2 DEF Sound, Work

LEMMA AnswerServes ==
    ASSUME AuthInv, NEW r \in Requests, NEW outcome \in Finished,
           Answer(r, outcome), loggedOut' = loggedOut
    PROVE  ServedStep(r)
  BY DEF AuthInv, TypeOK, Answer, Tables, Finished, Running, ServedStep

LEMMA ProceedServes ==
    ASSUME AuthInv, NEW r \in Requests, NEW step \in Running, NEW w \in Work,
           Proceed(r, step, w), loggedOut' = loggedOut, Quiet(w.user),
           step \in {"user", "exit"} /\ w.op = "refresh"
               => w.presented \in TokenIds /\ Live(w.presented),
           step = "exit" /\ w.op \in {"logout", "logout_all"} => Covers(w)
    PROVE  ServedStep(r)
<1>1. pc'[r] = step /\ unit'[r] = w
  BY DEF AuthInv, TypeOK, Proceed
<1>2. /\ UNCHANGED <<token, loggedOut>>
      /\ \A q \in Requests \ {r} : pc'[q] = pc[q] /\ unit'[q] = unit[q]
  BY DEF AuthInv, TypeOK, Proceed, Tables
<1>3. /\ Quiet(unit'[r].user)
      /\ Rotating(r)' => unit'[r].presented \in TokenIds /\ Live(unit'[r].presented)
      /\ LoggingOut(r)' => Covers(unit'[r])
  BY <1>1 DEF Rotating, LoggingOut
<1>. QED BY <1>2, <1>3 DEF ServedStep

\* A request that goes on keeps its unit of work.
LEMMA GoesOnServes ==
    ASSUME AuthInv, NEW r \in Requests, pc[r] \in {"insert", "user"},
           Proceed(r, "exit", unit[r]), loggedOut' = loggedOut
    PROVE  ServedStep(r)
<1>1. pc[r] \in Running /\ unit[r] \in Work /\ Sound(pc[r], unit[r])
  BY RunningWork, OutcomesAndSteps
<1>2. pc'[r] = "exit" /\ unit'[r] = unit[r]
  BY DEF AuthInv, TypeOK, Proceed
<1>3. /\ UNCHANGED <<token, loggedOut>>
      /\ \A q \in Requests \ {r} : pc'[q] = pc[q] /\ unit'[q] = unit[q]
  BY DEF AuthInv, TypeOK, Proceed, Tables
<1>4. (Rotating(r)' => Rotating(r)) /\ ~LoggingOut(r)'
  BY <1>1, <1>2 DEF Sound, Rotating, LoggingOut
<1>. QED BY <1>1, <1>2, <1>3, <1>4 DEF ServedStep

\* A family is of one account.
LEMMA FamiliesShareTheAccount ==
    ASSUME AuthInv, NEW s \in TokenIds, NEW t \in TokenIds, Stored(s), Stored(t),
           token[s].family = token[t].family
    PROVE  token[s].user = token[t].user
  BY DEF AuthInv, FamiliesAreOwned

LEMMA SignupOrLoginServes ==
    ASSUME AuthInv, NEW r \in Requests, NEW u \in Users, Signup(r, u) \/ Login(r, u)
    PROVE  ServedStep(r)
<1>1. CASE \E outcome \in {"conflict", "denied"} : Answer(r, outcome)
  BY <1>1, AnswerServes, OutcomesAndSteps DEF Signup, Login
<1>2. ASSUME NEW op \in {"signup", "login"}, NEW step \in {"insert", "exit"},
             Proceed(r, step, Doing(op, u, None, {}))
      PROVE  ServedStep(r)
  <2>. DEFINE w == Doing(op, u, None, {})
  <2>1. w \in Work /\ w.op = op /\ w.user = u
    BY DoingType
  <2>. HIDE DEF w
  <2>2. Proceed(r, step, w)
    BY <1>2 DEF w
  <2>. QED BY <2>1, <2>2, ProceedServes, OutcomesAndSteps DEF Signup, Login
<1>. QED BY <1>1, <1>2 DEF Signup, Login

LEMMA LogoutAllServes ==
    ASSUME AuthInv, NEW r \in Requests, NEW u \in Users, LogoutAll(r, u)
    PROVE  ServedStep(r)
<1>1. CASE Answer(r, "refused")
  BY <1>1, AnswerServes, OutcomesAndSteps DEF LogoutAll
<1>2. CASE Proceed(r, "exit", Doing("logout_all", u, None, LiveTokens(u)))
  <2>. DEFINE w == Doing("logout_all", u, None, LiveTokens(u))
  <2>1. /\ w \in Work /\ w.op = "logout_all" /\ w.user = u /\ w.presented = None
        /\ w.revokes = LiveTokens(u)
    BY DoingType DEF LiveTokens
  <2>. HIDE DEF w
  <2>2. ASSUME NEW t \in TokenIds, Live(t), Ends(w, token[t].family) PROVE t \in w.revokes
    <3>1. PICK e \in LiveTokens(u) : token[e].family = token[t].family
      BY <2>1, <2>2 DEF Ends
    <3>2. token[t].user = u
      BY <2>2, <3>1, FamiliesShareTheAccount DEF LiveTokens, Live
    <3>. QED BY <2>1, <2>2, <3>2 DEF LiveTokens
  <2>3. Proceed(r, "exit", w)
    BY <1>2 DEF w
  <2>. QED BY <2>1, <2>2, <2>3, ProceedServes, OutcomesAndSteps DEF Covers, LogoutAll
<1>. QED BY <1>1, <1>2 DEF LogoutAll

\* What refresh and logout are sent is live, or its family is revoked.
LEMMA TokenServes ==
    ASSUME AuthInv, NEW r \in Requests, NEW t \in TokenIds, Stored(t), Quiet(token[t].user),
           NEW op \in {"refresh", "logout"}, NEW step \in {"user", "raise", "exit"},
           NEW rows \in SUBSET LiveFamily(token[t].family),
           op = "refresh" => step = "raise" \/ Live(t),
           op = "logout" => rows = LiveFamily(token[t].family),
           Proceed(r, step, Doing(op, token[t].user, t, rows)), loggedOut' = loggedOut
    PROVE  ServedStep(r)
<1>. DEFINE u == token[t].user
            w == Doing(op, u, t, rows)
<1>1. u \in Users /\ rows \subseteq TokenIds
  BY DEF AuthInv, TypeOK, Stored, Token, LiveFamily
<1>2. w \in Work /\ w.op = op /\ w.user = u /\ w.presented = t /\ w.revokes = rows
  BY <1>1, DoingType
<1>. HIDE DEF w
<1>3. op = "logout" => Covers(w)
  BY <1>1, <1>2 DEF Covers, Ends, LiveFamily
<1>4. Proceed(r, step, w)
  BY DEF w
<1>. QED BY <1>2, <1>3, <1>4, ProceedServes, OutcomesAndSteps

LEMMA RefreshOrLogoutServes ==
    ASSUME AuthInv, NEW r \in Requests, NEW t \in TokenIds, Refresh(r, t) \/ Logout(r, t)
    PROVE  ServedStep(r)
<1>1. CASE \E outcome \in {"denied", "ok"} : Answer(r, outcome)
  BY <1>1, AnswerServes, OutcomesAndSteps DEF Refresh, Logout
<1>2. CASE ~\E outcome \in {"denied", "ok"} : Answer(r, outcome)
  <2>1. Stored(t) /\ loggedOut' = loggedOut /\ Quiet(token[t].user)
    BY <1>2 DEF Refresh, Logout, Live
  <2>2. PICK op \in {"refresh", "logout"}, step \in {"user", "raise", "exit"},
             rows \in SUBSET LiveFamily(token[t].family) :
           /\ op = "refresh" => step = "raise" \/ Live(t)
           /\ op = "logout" => rows = LiveFamily(token[t].family)
           /\ Proceed(r, step, Doing(op, token[t].user, t, rows))
    BY <1>2 DEF Refresh, Logout
  <2>. QED BY <2>1, <2>2, TokenServes
<1>. QED BY <1>1, <1>2

\* Every step of a request but its commit.
LEMMA RequestsAreServed ==
    ASSUME AuthInv, NEW r \in Requests,
           Begin(r) \/ InsertUser(r) \/ CheckUser(r) \/ Raise(r) \/ Crash(r)
    PROVE  ServedStep(r)
<1>1. CASE Begin(r)
  <2>1. CASE TurnedAway(r)
    BY <2>1, AnswerServes, OutcomesAndSteps DEF TurnedAway
  <2>. QED BY <1>1, <2>1, SignupOrLoginServes, LogoutAllServes, RefreshOrLogoutServes DEF Begin
<1>2. CASE InsertUser(r) \/ CheckUser(r) \/ Raise(r) \/ Crash(r)
  <2>1. CASE \E outcome \in {"error", "denied", "reuse", "lost"} : Answer(r, outcome)
    BY <1>2, <2>1, AnswerServes, OutcomesAndSteps DEF InsertUser, CheckUser, Raise, Crash
  <2>2. CASE ~\E outcome \in {"error", "denied", "reuse", "lost"} : Answer(r, outcome)
    BY <1>2, <2>2, GoesOnServes DEF InsertUser, CheckUser, Raise, Crash
  <2>. QED BY <2>1, <2>2
<1>. QED BY <1>1, <1>2
-----------------------------------------------------------------------------
(***************************************************************************)
(* What the other steps do to what is live, being traded or being ended.   *)
(***************************************************************************)

\* Rows keep their families; no row comes to life, and no request that trades
\* a token or ends a session is new or has changed its mind.
NothingNew ==
    /\ \A t \in TokenIds : Stored(t) => Stored(t)' /\ token'[t].family = token[t].family
    /\ \A t \in TokenIds : Live(t)' => Live(t)
    /\ \A q \in Requests : Rotating(q)' => Rotating(q) /\ unit'[q] = unit[q]
    /\ \A q \in Requests : LoggingOut(q)' => LoggingOut(q) /\ unit'[q] = unit[q]

LEMMA SilenceBringsNothingNew ==
    ASSUME UNCHANGED <<token, pc, unit>>
    PROVE  NothingNew
  BY DEF NothingNew, Stored, Live, Rotating, LoggingOut

LEMMA ExpiryBringsNothingNew ==
    ASSUME AuthInv, NEW s \in TokenIds, Expire(s)
    PROVE  NothingNew
<1>1. token[s] \in Token /\ token' = [token EXCEPT ![s] = [token[s] EXCEPT !.expired = TRUE]]
  BY DEF AuthInv, TypeOK, Expire, Stored
<1>2. \A t \in TokenIds :
         /\ Live(t)' <=> Live(t)
         /\ Stored(t) => Stored(t)' /\ token'[t].family = token[t].family
  BY <1>1, NoneIsNothing DEF AuthInv, TypeOK, Live, Stored, Token
<1>. QED BY <1>2 DEF NothingNew, Rotating, LoggingOut, Expire

\* A commit ends one request and leaves the others as they are.
LEMMA CommitLeavesTheOthers ==
    ASSUME AuthInv, Grows, NEW r \in Requests, Commits(r)
    PROVE  /\ \A t \in TokenIds :
                  Stored(t) => Stored(t)' /\ token'[t].family = token[t].family
           /\ \A q \in Requests :
                  pc'[q] \in Running => q # r /\ pc[q] \in Running /\ unit'[q] = unit[q]
           /\ \A q \in Requests : Rotating(q)' => q # r /\ Rotating(q) /\ unit'[q] = unit[q]
           /\ \A q \in Requests : LoggingOut(q)' => q # r /\ LoggingOut(q) /\ unit'[q] = unit[q]
<1>1. \A q \in Requests :
         pc'[q] \in Running => q # r /\ pc'[q] = pc[q] /\ unit'[q] = unit[q]
  BY DEF AuthInv, TypeOK, Commits, Running
<1>. QED BY <1>1, GrowingKeepsRows, OutcomesAndSteps DEF Grows, Rotating, LoggingOut

\* The row of a new family.
LEMMA CommitFirstRow ==
    ASSUME AuthInv, NEW r \in Requests, Commits(r), CommitFirst(r, unit[r])
    PROVE  /\ r \in TokenIds /\ ~Stored(r) /\ token'[r].family = r
           /\ \A t \in TokenIds : Live(t)' => t = r \/ Live(t)
           /\ \A t \in TokenIds : Stored(t) => token[t].family # r
           /\ loggedOut' = loggedOut
<1>1. unit[r].user \in Users /\ r \in TokenIds /\ ~Stored(r)
  BY AtTheCommit DEF Commits
<1>2. token' = [token EXCEPT ![r] = NewToken(unit[r].user, r)] /\ loggedOut' = loggedOut
  BY DEF CommitFirst
<1>3. token'[r].family = r /\ \A t \in TokenIds \ {r} : token'[t] = token[t]
  BY <1>1, <1>2, NewTokenType DEF AuthInv, TypeOK
<1>. QED BY <1>1, <1>2, <1>3, UnansweredIssuedNothing DEF Commits, Live, Stored

\* The row of the successor takes the place of the token presented.
LEMMA CommitRotationRow ==
    ASSUME AuthInv, NEW r \in Requests, Commits(r), CommitRotation(r, unit[r])
    PROVE  /\ Rotating(r) /\ r \in TokenIds /\ ~Stored(r)
           /\ token'[r].family = SessionOf(r)
           /\ token'[unit[r].presented].revoked
           /\ \A t \in TokenIds : Live(t)' => t = r \/ Live(t)
           /\ loggedOut' = loggedOut
<1>. DEFINE u == unit[r].user
            p == unit[r].presented
            f == token[p].family
<1>1. /\ Rotating(r) /\ u \in Users /\ r \in TokenIds /\ ~Stored(r)
      /\ p \in TokenIds /\ Stored(p) /\ token[p] \in Token /\ f \in TokenIds /\ p # r
  <2>1. Rotating(r)
    BY DEF Commits, CommitRotation, Rotating
  <2>. QED BY <2>1, RotatingWork, AtTheCommit DEF Commits, AuthInv, TypeOK, Stored, Token
<1>2. /\ token' = [token EXCEPT ![p].revoked = TRUE, ![r] = NewToken(u, f)]
      /\ loggedOut' = loggedOut
  BY DEF CommitRotation
<1>3. token'[r] = NewToken(u, f) /\ token'[p] = [token[p] EXCEPT !.revoked = TRUE]
  BY <1>1, <1>2 DEF AuthInv, TypeOK
<1>4. token'[r].family = f
  BY <1>1, <1>3, NewTokenType
<1>5. token'[p].revoked
  BY <1>1, <1>3 DEF Token
<1>6. \A t \in TokenIds \ {p, r} : token'[t] = token[t]
  BY <1>2 DEF AuthInv, TypeOK
<1>. QED BY <1>1, <1>2, <1>4, <1>5, <1>6 DEF SessionOf, Live, Stored

\* The rows a logout revokes are dead from then on.
LEMMA CommitRevocationRows ==
    ASSUME AuthInv, NEW r \in Requests, Commits(r), CommitRevocation(r, unit[r])
    PROVE  /\ LoggingOut(r)
           /\ \A t \in TokenIds : Live(t)' => Live(t) /\ t \notin unit[r].revokes
           /\ \A l \in loggedOut' : l \in loggedOut \/ Ends(unit[r], l.family)
<1>. DEFINE rows == unit[r].revokes
<1>1. LoggingOut(r)
  BY DEF Commits, CommitRevocation, LoggingOut
<1>2. ASSUME NEW t \in rows PROVE ~Live(t)'
  <2>1. t \in TokenIds /\ token[t] \in Token
    BY <1>1, LoggingOutWork DEF AuthInv, TypeOK, Stored
  <2>2. token'[t] = [token[t] EXCEPT !.revoked = TRUE]
    BY <2>1 DEF CommitRevocation
  <2>3. token'[t].revoked
    BY <2>1, <2>2 DEF Token
  <2>. QED BY <2>3 DEF Live
<1>3. \A t \in TokenIds \ rows : token'[t] = token[t]
  BY DEF CommitRevocation
<1>4. \A l \in FamiliesEnded(unit[r]) : Ends(unit[r], l.family)
  BY DEF FamiliesEnded, Ends
<1>. QED BY <1>1, <1>2, <1>3, <1>4 DEF CommitRevocation, Live, Stored

\* Steps that bring nothing new, whosever they are.
LEMMA QuietSteps ==
    ASSUME AuthInv, UNCHANGED vars \/ (\E t \in TokenIds : Expire(t)) \/ (\E u \in Users : Disable(u))
    PROVE  NothingNew /\ loggedOut' = loggedOut /\ pc' = pc /\ unit' = unit
<1>1. CASE UNCHANGED vars \/ \E u \in Users : Disable(u)
  BY <1>1, SilenceBringsNothingNew DEF vars, Disable
<1>2. ASSUME NEW t \in TokenIds, Expire(t) PROVE NothingNew
  BY <1>2, ExpiryBringsNothingNew
<1>. QED BY <1>1, <1>2 DEF Expire

\* What Next consists of.
LEMMA StepsOfNext ==
    ASSUME AuthInv, [Next]_vars
    PROVE  \/ \E r \in Requests : ServedStep(r)
           \/ \E r \in Requests :
                 /\ Commits(r) /\ AuthInv' /\ Grows
                 /\ \/ CommitFirst(r, unit[r])
                    \/ CommitRotation(r, unit[r])
                    \/ CommitRevocation(r, unit[r])
           \/ NothingNew /\ loggedOut' = loggedOut /\ pc' = pc /\ unit' = unit
<1>1. ASSUME NEW r \in Requests, Commit(r)
      PROVE  /\ Commits(r) /\ AuthInv' /\ Grows
             /\ \/ CommitFirst(r, unit[r])
                \/ CommitRotation(r, unit[r])
                \/ CommitRevocation(r, unit[r])
  <2>1. Commits(r)
    BY <1>1 DEF Commit, Commits
  <2>. QED BY <1>1, <2>1, CommitFirstKeeps, CommitRotationKeeps, CommitRevocationKeeps DEF Commit
<1>. QED BY <1>1, QuietSteps, RequestsAreServed DEF Next, Serve
-----------------------------------------------------------------------------
(***************************************************************************)
(* One live token in each family.                                          *)
(***************************************************************************)
LEMMA InitHasOneLive == Init => OneLiveInv
<1>. SUFFICES ASSUME Init PROVE OneLiveInv
  OBVIOUS
<1>1. \A r \in Requests : ~Rotating(r)
  BY DEF Init, Rotating
<1>2. \A t \in TokenIds : Live(t) => token[t].family = t
  BY DEF Init, Live, Stored, NewToken
<1>. QED BY <1>1, <1>2 DEF OneLiveInv, OneLiveTokenPerFamily, RotationsAgree

LEMMA NothingNewKeepsOneLive ==
    ASSUME AuthInv, OneLiveInv, NothingNew
    PROVE  OneLiveInv'
<1>1. \A t \in TokenIds : Live(t)' => Live(t) /\ Stored(t) /\ token'[t].family = token[t].family
  BY DEF NothingNew, Live
<1>2. OneLiveTokenPerFamily'
  BY <1>1 DEF OneLiveInv, OneLiveTokenPerFamily
<1>3. \A q \in Requests : Rotating(q)' =>
         Rotating(q) /\ unit'[q] = unit[q] /\ SessionOf(q)' = SessionOf(q)
  BY RotatingWork DEF NothingNew, SessionOf
<1>4. RotationsAgree'
  BY <1>1, <1>3 DEF OneLiveInv, RotationsAgree
<1>. QED BY <1>2, <1>4 DEF OneLiveInv


\* Whoever trades a token after a step that writes no table did so before it, or
\* has found its token live.
LEMMA ServedRotations ==
    ASSUME AuthInv, NEW r \in Requests, ServedStep(r), NEW q \in Requests, Rotating(q)'
    PROVE  /\ unit'[q].presented \in TokenIds
           /\ \/ Rotating(q) /\ unit'[q] = unit[q]
              \/ Live(unit'[q].presented)
<1>1. pc'[q] \in Running
  BY OutcomesAndSteps DEF Rotating
<1>2. CASE Rotating(q) /\ unit'[q] = unit[q]
  BY <1>2, RotatingWork
<1>3. CASE ~(Rotating(q) /\ unit'[q] = unit[q])
  BY <1>1, <1>3 DEF ServedStep, Rotating
<1>. QED BY <1>2, <1>3

LEMMA ServedKeepsOneLive ==
    ASSUME AuthInv, OneLiveInv, NEW r \in Requests, ServedStep(r)
    PROVE  OneLiveInv'
<1>1. token' = token
  BY DEF ServedStep
<1>2. \A t \in TokenIds : Live(t)' <=> Live(t)
  BY <1>1 DEF Live, Stored
<1>3. OneLiveTokenPerFamily'
  BY <1>1, <1>2 DEF OneLiveInv, OneLiveTokenPerFamily
<1>4. ASSUME NEW q \in Requests, Rotating(q)', NEW t \in TokenIds, Live(t),
             token[t].family = token[unit'[q].presented].family
      PROVE  t = unit'[q].presented
  BY <1>4, ServedRotations DEF OneLiveInv, OneLiveTokenPerFamily, RotationsAgree, SessionOf
<1>5. ASSUME NEW q \in Requests, NEW s \in Requests, Rotating(q)', Rotating(s)',
             token[unit'[q].presented].family = token[unit'[s].presented].family
      PROVE  unit'[q].presented = unit'[s].presented
  <2>1. CASE Live(unit'[q].presented) \/ Live(unit'[s].presented)
    BY <1>4, <1>5, <2>1, ServedRotations
  <2>2. CASE ~(Live(unit'[q].presented) \/ Live(unit'[s].presented))
    BY <1>5, <2>2, ServedRotations DEF OneLiveInv, RotationsAgree, SessionOf
  <2>. QED BY <2>1, <2>2
<1>6. RotationsAgree'
  BY <1>1, <1>2, <1>4, <1>5 DEF RotationsAgree, SessionOf
<1>. QED BY <1>3, <1>6 DEF OneLiveInv

LEMMA CommitKeepsOneLive ==
    ASSUME AuthInv, OneLiveInv, RotationsTakeTurns, Grows, NEW r \in Requests, Commits(r),
           \/ CommitFirst(r, unit[r])
           \/ CommitRotation(r, unit[r])
           \/ CommitRevocation(r, unit[r])
    PROVE  OneLiveInv'
<1>1. CASE CommitRevocation(r, unit[r])
  <2>1. NothingNew
    BY <1>1, CommitRevocationRows, CommitLeavesTheOthers DEF NothingNew
  <2>. QED BY <2>1, NothingNewKeepsOneLive
<1>2. CASE CommitFirst(r, unit[r]) \/ CommitRotation(r, unit[r])
  <2>. DEFINE f == token'[r].family
  <2>1. /\ r \in TokenIds /\ ~Stored(r)
        /\ \A t \in TokenIds : Live(t)' => t = r \/ (Live(t) /\ token'[t].family = token[t].family)
    BY <1>2, CommitFirstRow, CommitRotationRow, CommitLeavesTheOthers DEF Live
  <2>2. \A q \in Requests : Rotating(q)' =>
           /\ Rotating(q) /\ unit'[q] = unit[q]
           /\ SessionOf(q)' = SessionOf(q)
    BY RotatingWork, CommitLeavesTheOthers DEF SessionOf
  <2>3. ASSUME NEW t \in TokenIds, t # r, Live(t)' PROVE token[t].family # f
    <3>1. CASE CommitFirst(r, unit[r])
      BY <2>1, <2>3, <3>1, CommitFirstRow DEF Live
    <3>2. CASE CommitRotation(r, unit[r])
      <4>1. Rotating(r) /\ f = SessionOf(r) /\ t # unit[r].presented
        BY <2>3, <3>2, CommitRotationRow DEF Live
      <4>. QED BY <2>1, <2>3, <4>1 DEF OneLiveInv, RotationsAgree
    <3>. QED BY <1>2, <3>1, <3>2
  <2>4. ASSUME NEW q \in Requests, Rotating(q)' PROVE SessionOf(q) # f
    <3>1. CASE CommitFirst(r, unit[r])
      BY <2>2, <2>4, <3>1, RotatingWork, CommitFirstRow DEF SessionOf
    <3>2. CASE CommitRotation(r, unit[r])
      <4>1. Rotating(r) /\ f = SessionOf(r) /\ Rotating(q) /\ q # r
        BY <2>4, <3>2, CommitRotationRow, CommitLeavesTheOthers
      <4>. QED BY <4>1 DEF OneLiveInv, RotationsAgree, RotationsTakeTurns
    <3>. QED BY <1>2, <3>1, <3>2
  <2>5. OneLiveTokenPerFamily'
    BY <2>1, <2>3 DEF OneLiveInv, OneLiveTokenPerFamily
  <2>6. RotationsAgree'
    BY <2>1, <2>2, <2>4 DEF OneLiveInv, RotationsAgree
  <2>. QED BY <2>5, <2>6 DEF OneLiveInv
<1>. QED BY <1>1, <1>2

LEMMA NextKeepsOneLive ==
    AuthInv /\ OneLiveInv /\ RotationsTakeTurns /\ [Next]_vars => OneLiveInv'
  BY StepsOfNext, ServedKeepsOneLive, CommitKeepsOneLive, NothingNewKeepsOneLive

(***************************************************************************)
(* At most one token of a family can be used, as long as no token is being *)
(* traded twice at the same time: whatever else overlaps, rotation leaves  *)
(* the client one way to go on.                                            *)
(***************************************************************************)
THEOREM RotationsKeepOneLiveToken == Spec => OneLiveTokenIfRotationsTakeTurns
<1>1. OneLiveInv => OneLiveTokenPerFamily
  BY DEF OneLiveInv
<1>. QED BY <1>1, InitHasOneLive, NextKeepsOneLive, AuthInvAlways, PTL
        DEF Spec, OneLiveTokenIfRotationsTakeTurns
-----------------------------------------------------------------------------
(***************************************************************************)
(* No live token in a family that was logged out.                          *)
(***************************************************************************)
LEMMA InitHasEndedNothing == Init => EndedInv
  BY DEF Init, EndedInv, LogoutsCover, LoggingOut, EndedSessionsAreDead

\* The sessions that a logout ends are the same after a step that keeps rows.
LEMMA EndsAsBefore ==
    ASSUME AuthInv, NEW r \in Requests, LoggingOut(r), unit'[r] = unit[r],
           \A t \in TokenIds : Stored(t) => token'[t].family = token[t].family
    PROVE  \A t \in TokenIds : Ends(unit[r], token[t].family)' => Ends(unit[r], token'[t].family)
  BY LoggingOutWork DEF Ends

LEMMA NothingNewKeepsEnded ==
    ASSUME AuthInv, EndedInv, NothingNew, loggedOut' = loggedOut
    PROVE  EndedInv'
<1>1. \A t \in TokenIds : Live(t)' => Live(t) /\ Stored(t) /\ token'[t].family = token[t].family
  BY DEF NothingNew, Live
<1>2. \A q \in Requests : Rotating(q)' =>
         Rotating(q) /\ unit'[q] = unit[q] /\ SessionOf(q)' = SessionOf(q)
  BY RotatingWork DEF NothingNew, SessionOf
<1>3. ASSUME NEW q \in Requests, LoggingOut(q)' PROVE Covers(unit[q])'
  <2>1. LoggingOut(q) /\ unit'[q] = unit[q]
    BY <1>3 DEF NothingNew
  <2>2. ASSUME NEW t \in TokenIds, Live(t)', Ends(unit[q], token[t].family)'
        PROVE  t \in unit'[q].revokes
    <3>1. Ends(unit[q], token[t].family) /\ Live(t)
      BY <1>1, <2>1, <2>2, EndsAsBefore DEF NothingNew
    <3>. QED BY <2>1, <3>1 DEF EndedInv, LogoutsCover, Covers
  <2>. QED BY <2>2 DEF Covers
<1>4. EndedSessionsAreDead'
  BY <1>1, <1>2 DEF EndedInv, EndedSessionsAreDead
<1>. QED BY <1>3, <1>4 DEF EndedInv, LogoutsCover

LEMMA ServedKeepsEnded ==
    ASSUME AuthInv, EndedInv, NEW r \in Requests, ServedStep(r)
    PROVE  EndedInv'
<1>1. token' = token /\ loggedOut' = loggedOut
  BY DEF ServedStep
<1>2. \A t \in TokenIds : Live(t)' <=> Live(t)
  BY <1>1 DEF Live, Stored
<1>3. ASSUME NEW q \in Requests, LoggingOut(q)' PROVE Covers(unit[q])'
  <2>1. pc'[q] \in Running
    BY <1>3, OutcomesAndSteps DEF LoggingOut
  <2>2. Covers(unit'[q])
    <3>1. CASE q = r
      BY <1>3, <2>1, <3>1 DEF ServedStep
    <3>2. CASE q # r
      <4>1. LoggingOut(q) /\ unit'[q] = unit[q]
        BY <1>3, <3>2 DEF ServedStep, LoggingOut
      <4>. QED BY <4>1 DEF EndedInv, LogoutsCover
    <3>. QED BY <3>1, <3>2
  <2>. QED BY <1>1, <2>2 DEF Covers, Ends, Live, Stored
<1>4. EndedSessionsAreDead'
  <2>1. ASSUME NEW l \in loggedOut, NEW q \in Requests, Rotating(q)'
        PROVE  token[unit'[q].presented].family # l.family
    BY <2>1, ServedRotations DEF EndedInv, EndedSessionsAreDead, SessionOf
  <2>. QED BY <1>1, <1>2, <2>1 DEF EndedInv, EndedSessionsAreDead, SessionOf
<1>. QED BY <1>3, <1>4 DEF EndedInv, LogoutsCover

\* A new row is of no session that was logged out or is about to be.
LEMMA NewRowKeepsEnded ==
    ASSUME AuthInv, EndedInv, LogoutsMeetNoRotation, Grows, NEW r \in Requests, Commits(r),
           CommitFirst(r, unit[r]) \/ CommitRotation(r, unit[r])
    PROVE  EndedInv'
<1>. DEFINE f == token'[r].family
<1>1. /\ r \in TokenIds /\ ~Stored(r) /\ loggedOut' = loggedOut
      /\ \A t \in TokenIds : Live(t)' => t = r \/ (Live(t) /\ token'[t].family = token[t].family)
  BY CommitFirstRow, CommitRotationRow, CommitLeavesTheOthers DEF Live
<1>2. \A q \in Requests : Rotating(q)' =>
         Rotating(q) /\ unit'[q] = unit[q] /\ SessionOf(q)' = SessionOf(q)
  BY RotatingWork, CommitLeavesTheOthers DEF SessionOf
<1>3. ASSUME NEW q \in Requests, LoggingOut(q) PROVE ~Ends(unit[q], f)
  <2>1. CASE CommitFirst(r, unit[r])
    BY <1>3, <2>1, CommitFirstRow, LoggingOutWork DEF Ends
  <2>2. CASE CommitRotation(r, unit[r])
    <3>1. Rotating(r) /\ f = SessionOf(r)
      BY <2>2, CommitRotationRow
    <3>. QED BY <1>3, <3>1 DEF LogoutsMeetNoRotation
  <2>. QED BY <2>1, <2>2
<1>4. ASSUME NEW l \in loggedOut PROVE l.family # f
  <2>1. CASE CommitFirst(r, unit[r])
    BY <1>1, <1>4, <2>1, CommitFirstRow DEF AuthInv, LogoutsAreOfRows
  <2>2. CASE CommitRotation(r, unit[r])
    <3>1. Rotating(r) /\ f = SessionOf(r)
      BY <2>2, CommitRotationRow
    <3>. QED BY <1>4, <3>1 DEF EndedInv, EndedSessionsAreDead
  <2>. QED BY <2>1, <2>2
<1>5. ASSUME NEW q \in Requests, LoggingOut(q)' PROVE Covers(unit[q])'
  <2>1. LoggingOut(q) /\ unit'[q] = unit[q]
    BY <1>5, CommitLeavesTheOthers
  <2>2. ASSUME NEW t \in TokenIds, Live(t)', Ends(unit[q], token[t].family)'
        PROVE  t \in unit'[q].revokes
    <3>1. Ends(unit[q], token'[t].family)
      BY <2>1, <2>2, EndsAsBefore, CommitLeavesTheOthers
    <3>2. t # r /\ Live(t) /\ token'[t].family = token[t].family
      BY <1>1, <1>3, <2>1, <2>2, <3>1
    <3>. QED BY <2>1, <3>1, <3>2 DEF EndedInv, LogoutsCover, Covers
  <2>. QED BY <2>2 DEF Covers
<1>6. EndedSessionsAreDead'
  BY <1>1, <1>2, <1>4 DEF EndedInv, EndedSessionsAreDead
<1>. QED BY <1>5, <1>6 DEF EndedInv, LogoutsCover

\* The sessions a logout reports as ended are dead when it has revoked its rows.
LEMMA RevocationKeepsEnded ==
    ASSUME AuthInv, EndedInv, LogoutsMeetNoRotation, Grows, NEW r \in Requests, Commits(r),
           CommitRevocation(r, unit[r])
    PROVE  EndedInv'
<1>1. LoggingOut(r)
  BY CommitRevocationRows
<1>2. NothingNew
  BY CommitRevocationRows, CommitLeavesTheOthers DEF NothingNew
<1>3. \A t \in TokenIds : Live(t)' =>
         Live(t) /\ t \notin unit[r].revokes /\ token'[t].family = token[t].family
  BY <1>2, CommitRevocationRows DEF NothingNew, Live
<1>4. \A q \in Requests : Rotating(q)' =>
         Rotating(q) /\ unit'[q] = unit[q] /\ SessionOf(q)' = SessionOf(q)
  BY <1>2, RotatingWork DEF NothingNew, SessionOf
<1>5. ASSUME NEW q \in Requests, LoggingOut(q)' PROVE Covers(unit[q])'
  <2>1. LoggingOut(q) /\ unit'[q] = unit[q]
    BY <1>2, <1>5 DEF NothingNew
  <2>2. ASSUME NEW t \in TokenIds, Live(t)', Ends(unit[q], token[t].family)'
        PROVE  t \in unit'[q].revokes
    <3>1. Ends(unit[q], token[t].family) /\ Live(t)
      BY <1>2, <1>3, <2>1, <2>2, EndsAsBefore DEF NothingNew
    <3>. QED BY <2>1, <3>1 DEF EndedInv, LogoutsCover, Covers
  <2>. QED BY <2>2 DEF Covers
<1>6. ASSUME NEW l \in loggedOut'
      PROVE  /\ \A t \in TokenIds : Live(t)' => token'[t].family # l.family
             /\ \A q \in Requests : Rotating(q)' => SessionOf(q)' # l.family
  <2>1. CASE l \in loggedOut
    BY <1>3, <1>4, <2>1 DEF EndedInv, EndedSessionsAreDead
  <2>2. CASE Ends(unit[r], l.family)
    <3>1. \A t \in TokenIds : Live(t)' => token'[t].family # l.family
      BY <1>1, <1>3, <2>2 DEF EndedInv, LogoutsCover, Covers
    <3>2. \A q \in Requests : Rotating(q)' => SessionOf(q)' # l.family
      BY <1>1, <1>4, <2>2 DEF LogoutsMeetNoRotation
    <3>. QED BY <3>1, <3>2
  <2>. QED BY <1>6, <2>1, <2>2, CommitRevocationRows
<1>7. EndedSessionsAreDead'
  BY <1>6 DEF EndedSessionsAreDead
<1>. QED BY <1>5, <1>7 DEF EndedInv, LogoutsCover

LEMMA NextKeepsEnded ==
    AuthInv /\ EndedInv /\ LogoutsMeetNoRotation /\ [Next]_vars => EndedInv'
  BY StepsOfNext, ServedKeepsEnded, NewRowKeepsEnded, RevocationKeepsEnded, NothingNewKeepsEnded

(***************************************************************************)
(* No token of a family that a logout was answered for can be used again,  *)
(* as long as no session is being extended while it is being ended.        *)
(***************************************************************************)
THEOREM LogoutsAreFinalWithoutRotations == Spec => LogoutEndsSessionsThatRest
<1>1. EndedInv => LogoutEndsSessions
  BY DEF EndedInv, EndedSessionsAreDead, LogoutEndsSessions, LiveFamily
<1>. QED BY <1>1, InitHasEndedNothing, NextKeepsEnded, AuthInvAlways, PTL
        DEF Spec, LogoutEndsSessionsThatRest
-----------------------------------------------------------------------------
(***************************************************************************)
(* Requests that take turns by account take turns by token and by session. *)
(***************************************************************************)
LEMMA NextTakesTurns ==
    ASSUME ~Overlap
    PROVE  AuthInv /\ TheyTakeTurns /\ [Next]_vars => TheyTakeTurns'
<1>. SUFFICES ASSUME AuthInv, TheyTakeTurns, [Next]_vars PROVE TheyTakeTurns'
  OBVIOUS
<1>1. ASSUME NEW r \in Requests, ServedStep(r) PROVE TheyTakeTurns'
  <2>1. pc'[r] \in Running =>
           \/ pc[r] \in Running /\ unit'[r] = unit[r]
           \/ \A q \in Requests : pc[q] \in Running => unit[q].user # unit'[r].user
    BY <1>1 DEF ServedStep, Quiet
  <2>2. \A q \in Requests \ {r} : pc'[q] = pc[q] /\ unit'[q] = unit[q]
    BY <1>1 DEF ServedStep
  <2>. QED BY <2>1, <2>2 DEF TheyTakeTurns
<1>2. ASSUME NEW r \in Requests, Commits(r), Grows PROVE TheyTakeTurns'
  BY <1>2, CommitLeavesTheOthers DEF TheyTakeTurns
<1>3. CASE pc' = pc /\ unit' = unit
  BY <1>3 DEF TheyTakeTurns
<1>. QED BY <1>1, <1>2, <1>3, StepsOfNext

LEMMA TurnsByTokenAndSession ==
    ASSUME AuthInv, TheyTakeTurns
    PROVE  RotationsTakeTurns /\ LogoutsMeetNoRotation
<1>1. RotationsTakeTurns
  BY RotatingWork DEF RotationsTakeTurns, TheyTakeTurns
<1>2. ASSUME NEW q \in Requests, NEW r \in Requests, Rotating(q), LoggingOut(r),
             Ends(unit[r], SessionOf(q))
      PROVE  FALSE
  <2>1. PICK e \in unit[r].revokes \cup ({unit[r].presented} \ {None}) :
           token[e].family = SessionOf(q)
    BY <1>2 DEF Ends
  <2>2. e \in TokenIds /\ Stored(e) /\ token[e].user = unit[r].user
    BY <1>2, <2>1, LoggingOutWork
  <2>3. unit[q].user = unit[r].user
    BY <1>2, <2>1, <2>2, RotatingWork, FamiliesShareTheAccount DEF SessionOf
  <2>4. q = r
    BY <1>2, <2>3, RotatingWork, LoggingOutWork DEF TheyTakeTurns
  <2>. QED BY <1>2, <2>4 DEF Rotating, LoggingOut
<1>. QED BY <1>1, <1>2 DEF LogoutsMeetNoRotation

LEMMA TurnsAlways ==
    ASSUME ~Overlap
    PROVE  Spec => []RotationsTakeTurns /\ []LogoutsMeetNoRotation
<1>1. Init => TheyTakeTurns
  BY DEF Init, TheyTakeTurns, Running
<1>. QED BY <1>1, NextTakesTurns, TurnsByTokenAndSession, AuthInvAlways, PTL DEF Spec

(***************************************************************************)
(* When the requests about an account take turns, at most one token of a   *)
(* family can be used.                                                     *)
(***************************************************************************)
THEOREM FamiliesHaveOneLiveToken ==
    ASSUME ~Overlap
    PROVE  Spec => []OneLiveTokenPerFamily
  BY TurnsAlways, RotationsKeepOneLiveToken, PTL DEF OneLiveTokenIfRotationsTakeTurns

(***************************************************************************)
(* When the requests about an account take turns, no token of a family     *)
(* that a logout was answered for can be used again.                       *)
(***************************************************************************)
THEOREM LogoutsAreFinal ==
    ASSUME ~Overlap
    PROVE  Spec => []LogoutEndsSessions
  BY TurnsAlways, LogoutsAreFinalWithoutRotations, PTL DEF LogoutEndsSessionsThatRest
=============================================================================
