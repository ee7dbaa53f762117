------------------------- MODULE RateLimiterProofs -------------------------
(***************************************************************************)
(* For any number of calls, any limit and any window: what the limiter     *)
(* keeps, whom it lets in, whom it turns away, and when it tells them to   *)
(* come back.                                                              *)
(*                                                                         *)
(* Members of the set and calls are weighed against each other by the      *)
(* readings of the clock they carry.  No more entries are younger than a   *)
(* given time than calls that were let in, died or are being turned away   *)
(* (EntriesAreOwned); and every call let in since then has an entry, but   *)
(* for one call that was turned away for each that has none (Balanced).    *)
(* The first bounds what a full window is made of, the second how many it  *)
(* lets in.                                                                *)
(***************************************************************************)
EXTENDS RateLimiter, FiniteSetTheorems, TLAPS

\* The calls whose transaction has run.
Counted == {c \in Calls : pc[c] \notin {"idle", "read"}}

TypeInv ==
    /\ clock \in Nat /\ expiry \in Nat
    /\ members \subseteq Calls
    /\ now \in [Calls -> Int] /\ retry \in [Calls -> Int] /\ letIn \in [Calls -> Int]
    /\ pc \in [Calls -> {"idle", "read", "over", "pop", "allowed", "denied", "lost"}]
    /\ beside \in [Calls -> SUBSET Calls]

\* How readings of the clock, the clock and the key's expiry relate.
ClockInv ==
    /\ IsFiniteSet(Counted)
    /\ members \subseteq Counted
    /\ \A c \in Calls : pc[c] # "idle" => now[c] <= clock
    /\ \A c \in Calls : pc[c] \in InFlight => clock - now[c] <= MaxLag
    /\ \A c \in Counted : now[c] + Window + TicksPerSecond <= expiry
    /\ \A c \in Allowed : /\ now[c] <= letIn[c] /\ letIn[c] <= clock
                          /\ letIn[c] <= now[c] + MaxLag
    /\ \A c \in Calls : beside[c] \subseteq Counted
    /\ \A c \in Calls \ Counted : beside[c] = {}

Inv == TypeInv /\ ClockInv

\* The entries whose reading of the clock is later than t, and the calls that
\* were let in, died or are being turned away with such a reading.
EntriesAfter(t) == {m \in Stored : now[m] > t}

OwnersAfter(t) == {d \in Allowed \cup Lost \cup Pending : now[d] > t}

EntriesAreOwned(t) == Cardinality(EntriesAfter(t)) <= Cardinality(OwnersAfter(t))

\* What filled the window of a call that was turned away.
Filling(c) ==
    {d \in Allowed \cup Lost \cup beside[c] :
        now[c] - Window < now[d] /\ now[d] <= now[c] + MaxLag}

TurnedAway(c) == pc[c] \in {"over", "pop", "denied"}

FullInv ==
    /\ \A t \in Int : EntriesAreOwned(t)
    /\ \A c \in Calls : TurnedAway(c) => Cardinality(Filling(c)) >= Limit

LetInAfter(t) == {d \in Allowed : letIn[d] > t}

PendingAfter(t) == {d \in Pending : now[d] > t}

MembersAfter(t) == {m \in members : now[m] > t}

\* The calls that may have displaced a younger one.
Displacing(t) == {d \in Denied : t - 2 * MaxLag < now[d] /\ now[d] <= t - MaxLag}

\* Every call let in after t has an entry that old, but for the displaced.
Balanced(t) ==
    Cardinality(LetInAfter(t)) + Cardinality(PendingAfter(t - MaxLag))
        <= Cardinality(MembersAfter(t - MaxLag)) + Cardinality(Displacing(t))

\* The calls let in within the window that ends as c is let in, and those that
\* were being turned away as it began.
LetInBefore(c) ==
    {d \in Allowed : letIn[c] - (Window - MaxLag) < letIn[d] /\ letIn[d] <= letIn[c]}

DisplacedBefore(c) ==
    {d \in Denied : letIn[c] - Window - MaxLag < now[d] /\ now[d] <= letIn[c] - Window}

WindowInv ==
    /\ \A t \in Int : clock - Window + MaxLag <= t => Balanced(t)
    /\ \A c \in Allowed :
          Cardinality(LetInBefore(c)) <= Limit + Cardinality(DisplacedBefore(c))

Alone(c) == \A d \in Calls : c \notin beside[d]

\* What c is about to read, if no later call came between.
OldestInv(c) ==
    pc[c] = "over" /\ Alone(c) =>
        /\ \A m \in members \ {c} : \E d \in Filling(c) : now[m] <= now[d]
        /\ c \in members => \/ members \ {c} # {}
                            \/ \E d \in Filling(c) : now[c] <= now[d]
        /\ Pending \ {c} \subseteq beside[c]
        /\ Limit + 1 <= Cardinality(members) + Cardinality(beside[c] \cap Denied)

RetryIsRight(c) ==
    /\ retry[c] \in 1 .. (Window + MaxLag) \div TicksPerSecond
    /\ retry[c] > 1 /\ Alone(c) /\ Cardinality(beside[c]) <= Limit =>
           \E d \in Filling(c) : now[c] + retry[c] * TicksPerSecond <= now[d] + Window

RetryInv ==
    /\ \A c \in Calls : OldestInv(c)
    /\ \A c \in Calls : pc[c] \in {"pop", "denied"} => RetryIsRight(c)
-----------------------------------------------------------------------------
LEMMA WindowType == Window \in Nat /\ Window >= WindowSeconds
  BY TimeAssumption DEF Window

LEMMA PartsCount ==
    ASSUME NEW T, IsFiniteSet(T), NEW S \in SUBSET T
    PROVE  /\ IsFiniteSet(S)
           /\ Cardinality(S) \in Nat /\ Cardinality(T) \in Nat
           /\ Cardinality(S) <= Cardinality(T)
  BY FS_Subset, FS_CardinalityType

LEMMA OneMore ==
    ASSUME NEW S, IsFiniteSet(S), NEW x
    PROVE  /\ IsFiniteSet(S \cup {x}) /\ Cardinality(S \cup {x}) \in Nat
           /\ Cardinality(S) \in Nat
           /\ x \notin S => Cardinality(S \cup {x}) = Cardinality(S) + 1
           /\ Cardinality(S \cup {x}) <= Cardinality(S) + 1
  BY FS_AddElement, FS_CardinalityType

LEMMA OneLess ==
    ASSUME NEW S, IsFiniteSet(S), NEW x
    PROVE  /\ IsFiniteSet(S \ {x}) /\ Cardinality(S \ {x}) \in Nat
           /\ Cardinality(S) \in Nat
           /\ x \in S => Cardinality(S \ {x}) = Cardinality(S) - 1
           /\ Cardinality(S \ {x}) >= Cardinality(S) - 1
<1>1. IsFiniteSet(S \ {x})
      /\ Cardinality(S \ {x}) = IF x \in S THEN Cardinality(S) - 1 ELSE Cardinality(S)
  BY FS_RemoveElement
<1>2. Cardinality(S \ {x}) \in Nat /\ Cardinality(S) \in Nat
  BY <1>1, FS_CardinalityType
<1>. QED
  BY <1>1, <1>2

\* Everything that is counted is finite.
LEMMA CountsAreFinite ==
    ASSUME Inv
    PROVE  \A S \in SUBSET Counted : IsFiniteSet(S) /\ Cardinality(S) \in Nat
  BY PartsCount DEF Inv, ClockInv

LEMMA WhoIsCounted ==
    /\ Allowed \subseteq Counted /\ Denied \subseteq Counted
    /\ Lost \subseteq Counted /\ Pending \subseteq Counted
    /\ Counted \subseteq Calls
  BY DEF Allowed, Denied, Lost, Pending, Counted
-----------------------------------------------------------------------------
LEMMA InitInv == Init => Inv
<1>. SUFFICES ASSUME Init PROVE Inv
  OBVIOUS
<1>. USE DEF Init
<1>1. TypeInv
  BY EarlierAssumption, TimeAssumption, WindowType DEF TypeInv, Unread
<1>2. Counted = Earlier /\ Allowed = Earlier
  BY EarlierAssumption DEF Counted, Allowed
<1>3. ClockInv
  BY <1>2, EarlierAssumption, TimeAssumption, WindowType DEF ClockInv, InFlight, Unread
<1>. QED
  BY <1>1, <1>3 DEF Inv

LEMMA StepTypeInv == Inv /\ [Next]_vars => TypeInv'
<1>. SUFFICES ASSUME Inv, [Next]_vars PROVE TypeInv'
  OBVIOUS
<1>. USE DEF Inv, TypeInv, ClockInv
<1>1. ASSUME NEW c \in Calls, ReadClock(c) PROVE TypeInv'
  BY <1>1 DEF ReadClock
<1>2. ASSUME NEW c \in Calls, Pipeline(c) PROVE TypeInv'
  <2>1. KeyExpiry \in Nat
    BY WindowType, TimeAssumption DEF KeyExpiry
  <2>. QED
    BY <1>2, <2>1 DEF Pipeline, Recent, Stored, Pending
<1>3. ASSUME NEW c \in Calls, ReadOldest(c) PROVE TypeInv'
  <2>1. \A m \in Stored : RetryAfter(c, m) \in Int
    BY WindowType, TimeAssumption DEF RetryAfter, AtLeastOne, Stored
  <2>2. retry' \in [Calls -> Int]
    BY <1>3, <2>1, TimeAssumption DEF ReadOldest
  <2>. QED
    BY <1>3, <2>2 DEF ReadOldest
<1>4. ASSUME NEW c \in Calls, PopNewest(c) PROVE TypeInv'
  BY <1>4 DEF PopNewest
<1>5. ASSUME NEW c \in Calls, Crash(c) PROVE TypeInv'
  BY <1>5 DEF Crash
<1>6. CASE Tick
  BY <1>6 DEF Tick
<1>7. CASE UNCHANGED vars
  BY <1>7 DEF vars
<1>. QED
  BY <1>1, <1>2, <1>3, <1>4, <1>5, <1>6, <1>7 DEF Next

\* What a step leaves as it was, of a call whose transaction has run.
LEMMA CountedStays ==
    ASSUME Inv, [Next]_vars
    PROVE  /\ Counted \subseteq Counted'
           /\ \A c \in Counted : /\ now'[c] = now[c] /\ beside'[c] = beside[c]
                                 /\ letIn'[c] = letIn[c]
           /\ Allowed \subseteq Allowed' /\ Denied \subseteq Denied' /\ Lost \subseteq Lost'
           /\ clock <= clock'
<1>. USE DEF Inv, TypeInv, ClockInv, Counted, Allowed, Denied, Lost, Pending
<1>1. ASSUME NEW c \in Calls, ReadClock(c) \/ ReadOldest(c) \/ PopNewest(c) \/ Crash(c)
      PROVE  pc[c] \notin {"allowed", "denied", "lost"} /\ UNCHANGED <<clock, letIn, beside>>
             /\ (pc[c] # "idle" => UNCHANGED now)
             /\ (pc[c] = "idle" => now' = [now EXCEPT ![c] = clock])
             /\ \E p \in {"read", "pop", "denied", "lost"} :
                   pc' = [pc EXCEPT ![c] = p] /\ (p = "read" <=> pc[c] = "idle")
                   /\ (p = "pop" => pc[c] = "over")
  BY <1>1 DEF ReadClock, ReadOldest, PopNewest, Crash
<1>2. ASSUME NEW c \in Calls, Pipeline(c)
      PROVE  pc[c] = "read" /\ UNCHANGED <<clock, now>>
             /\ (\E p \in {"over", "allowed"} : pc' = [pc EXCEPT ![c] = p])
             /\ (\A d \in Calls : d # c => letIn'[d] = letIn[d] /\ beside'[d] = beside[d])
  BY <1>2 DEF Pipeline
<1>3. CASE Tick
  BY <1>3 DEF Tick
<1>4. CASE UNCHANGED vars
  BY <1>4 DEF vars
<1>. QED
  BY <1>1, <1>2, <1>3, <1>4 DEF Next

\* Only its own transaction adds a call to those whose transaction has run.
LEMMA NewlyCounted ==
    ASSUME Inv, NEW c \in Calls, Pipeline(c)
    PROVE  Counted' = Counted \cup {c} /\ c \notin Counted
  BY DEF Inv, TypeInv, Counted, Pipeline

LEMMA Reading ==
    ASSUME Inv, NEW c \in Calls, ReadClock(c)
    PROVE  /\ c \notin Counted /\ Counted' = Counted
           /\ Allowed' = Allowed /\ Denied' = Denied /\ Lost' = Lost /\ Pending' = Pending
           /\ UNCHANGED <<clock, members, expiry, retry, letIn, beside>>
           /\ \A d \in Calls : d # c => now'[d] = now[d] /\ pc'[d] = pc[d]
           /\ now'[c] = clock /\ pc'[c] = "read"
<1>1. pc[c] = "idle" /\ pc' = [pc EXCEPT ![c] = "read"] /\ now' = [now EXCEPT ![c] = clock]
      /\ UNCHANGED <<clock, members, expiry, retry, letIn, beside>>
  BY DEF ReadClock
<1>. QED
  BY <1>1 DEF Inv, TypeInv, Counted, Allowed, Denied, Lost, Pending

\* The steps of a call that is being turned away.
LEMMA Settling ==
    ASSUME Inv, NEW c \in Calls, ReadOldest(c) \/ PopNewest(c) \/ Crash(c)
    PROVE  /\ c \in Pending /\ c \in Counted
           /\ Counted' = Counted /\ Allowed' = Allowed /\ members' \subseteq members
           /\ UNCHANGED <<clock, expiry, now, letIn, beside>>
           /\ \A d \in Calls : d # c => pc'[d] = pc[d]
           /\ pc'[c] \in {"pop", "denied", "lost"}
<1>1. /\ pc[c] \in {"over", "pop"} /\ members' \subseteq members
      /\ UNCHANGED <<clock, expiry, now, letIn, beside>>
      /\ \E p \in {"pop", "denied", "lost"} : pc' = [pc EXCEPT ![c] = p]
  BY DEF ReadOldest, PopNewest, Crash
<1>. QED
  BY <1>1 DEF Inv, TypeInv, Counted, Allowed, Pending

LEMMA Ticking ==
    Tick => /\ Counted' = Counted /\ Allowed' = Allowed /\ Denied' = Denied
            /\ Lost' = Lost /\ Pending' = Pending
  BY DEF Tick, Counted, Allowed, Denied, Lost, Pending

LEMMA StepClockInv == Inv /\ [Next]_vars => ClockInv'
<1>. SUFFICES ASSUME Inv, [Next]_vars PROVE ClockInv'
  OBVIOUS
<1>. USE WindowType, TimeAssumption
<1>t. TypeInv /\ TypeInv' /\ ClockInv
  BY StepTypeInv DEF Inv
<1>1. ASSUME NEW c \in Calls, ReadClock(c) PROVE ClockInv'
  <2>1. \A d \in Counted \cup Allowed : d # c
    BY <1>1, <1>t, Reading, WhoIsCounted
  <2>. QED
    BY <1>1, <1>t, <2>1, Reading, WhoIsCounted DEF TypeInv, ClockInv, InFlight
<1>2. ASSUME NEW c \in Calls, Pipeline(c) PROVE ClockInv'
  <2>1. Counted' = Counted \cup {c}
    BY <1>2, NewlyCounted
  <2>2. pc[c] = "read" /\ now[c] <= clock /\ clock - now[c] <= MaxLag
    BY <1>2, <1>t DEF Pipeline, ClockInv, InFlight
  <2>3. IsFiniteSet(Counted)' /\ (members \subseteq Counted)'
    BY <1>2, <1>t, <2>1, OneMore DEF ClockInv, Pipeline, Recent, Stored
  <2>4. (\A d \in Calls : pc[d] # "idle" => now[d] <= clock)'
        /\ (\A d \in Calls : pc[d] \in InFlight => clock - now[d] <= MaxLag)'
    BY <1>2, <1>t, <2>2 DEF ClockInv, TypeInv, Pipeline, InFlight
  <2>5. (\A d \in Counted : now[d] + Window + TicksPerSecond <= expiry)'
    <3>1. ASSUME NEW d \in Counted \cup {c} PROVE now[d] <= clock
      BY <1>t, <2>2 DEF ClockInv, Counted
    <3>2. \A d \in Counted \cup {c} : now[d] \in Int
      BY <1>t DEF TypeInv, Counted
    <3>. QED
      BY <1>2, <1>t, <2>1, <3>1, <3>2 DEF TypeInv, Pipeline, KeyExpiry
  <2>6. (\A d \in Allowed : /\ now[d] <= letIn[d] /\ letIn[d] <= clock
                            /\ letIn[d] <= now[d] + MaxLag)'
    BY <1>2, <1>t, <2>2 DEF ClockInv, TypeInv, Pipeline, Allowed
  <2>7. (\A d \in Calls : beside[d] \subseteq Counted)'
        /\ (\A d \in Calls \ Counted : beside[d] = {})'
    BY <1>2, <1>t, <2>1, WhoIsCounted DEF ClockInv, TypeInv, Pipeline
  <2>. QED
    BY <2>3, <2>4, <2>5, <2>6, <2>7 DEF ClockInv
<1>3. ASSUME NEW c \in Calls, ReadOldest(c) \/ PopNewest(c) \/ Crash(c) PROVE ClockInv'
  <2>1. \A d \in Calls : /\ pc'[d] # "idle" => pc[d] # "idle"
                         /\ pc'[d] \in InFlight => pc[d] \in InFlight
    BY <1>3, Settling DEF Pending, InFlight
  <2>. QED
    BY <1>3, <1>t, <2>1, Settling DEF ClockInv
<1>4. CASE Tick
  BY <1>4, <1>t, Ticking DEF Tick, TypeInv, ClockInv, InFlight, Allowed
<1>5. CASE UNCHANGED vars
  BY <1>5, <1>t DEF vars, TypeInv, ClockInv, Counted, Allowed
<1>. QED
  BY <1>1, <1>2, <1>3, <1>4, <1>5 DEF Next

LEMMA StepInv == Inv /\ [Next]_vars => Inv'
  BY StepTypeInv, StepClockInv DEF Inv

LEMMA AlwaysInv == Spec => []Inv
  BY InitInv, StepInv, PTL DEF Spec
-----------------------------------------------------------------------------
LEMMA StoredIsMembers == Stored \subseteq members /\ (Stored # {} => Stored = members)
  BY DEF Stored

LEMMA KeyStep == Inv /\ KeyStaysSmall /\ [Next]_vars => KeyStaysSmall'
<1>. SUFFICES ASSUME Inv, KeyStaysSmall, [Next]_vars PROVE KeyStaysSmall'
  OBVIOUS
<1>. DEFINE Owed == Pending \cup Lost
<1>t. TypeInv /\ ClockInv /\ Inv'
  BY StepInv DEF Inv
<1>f. /\ IsFiniteSet(Stored) /\ IsFiniteSet(Owed) /\ Limit \in Nat
      /\ Cardinality(Stored) \in Nat /\ Cardinality(Owed) \in Nat
      /\ Cardinality(Stored) <= Limit + Cardinality(Owed)
  BY CountsAreFinite, WhoIsCounted, StoredIsMembers, LimitAssumption
     DEF KeyStaysSmall, Inv, ClockInv
<1>1. ASSUME NEW c \in Calls, ReadClock(c) PROVE KeyStaysSmall'
  <2>1. Stored' = Stored
    BY <1>1, Reading DEF Stored
  <2>. QED
    BY <1>1, <2>1, Reading DEF KeyStaysSmall
<1>2. ASSUME NEW c \in Calls, Pipeline(c) PROVE KeyStaysSmall'
  <2>1. Stored' \subseteq Recent(c) \cup {c}
    BY <1>2 DEF Pipeline, Stored
  <2>2. /\ IsFiniteSet(Recent(c)) /\ Cardinality(Recent(c)) \in Nat
        /\ Cardinality(Recent(c)) <= Cardinality(Stored)
    BY <1>f, PartsCount DEF Recent
  <2>3. Cardinality(Stored)' \in Nat /\ Cardinality(Stored)' <= Cardinality(Recent(c)) + 1
    <3>1. IsFiniteSet(Recent(c) \cup {c}) /\ Cardinality(Recent(c) \cup {c}) \in Nat
          /\ Cardinality(Recent(c) \cup {c}) <= Cardinality(Recent(c)) + 1
      BY <2>2, OneMore
    <3>2. Cardinality(Stored)' \in Nat
          /\ Cardinality(Stored)' <= Cardinality(Recent(c) \cup {c})
      BY <3>1, <2>1, PartsCount
    <3>. QED
      BY <3>1, <3>2, <2>2
  <2>4. CASE Over(c)
    <3>1. Owed' = Owed \cup {c} /\ c \notin Owed
      BY <1>2, <1>t, <2>4 DEF Pipeline, Pending, Lost, TypeInv
    <3>2. Cardinality(Owed)' = Cardinality(Owed) + 1
      BY <3>1, <1>f, OneMore
    <3>. QED
      BY <1>f, <2>2, <2>3, <3>2 DEF KeyStaysSmall
  <2>5. CASE ~Over(c)
    <3>1. Cardinality(Recent(c)) + 1 <= Limit
      BY <2>2, <2>5, <1>f DEF Over
    <3>2. Owed' = Owed
      BY <1>2, <1>t, <2>5 DEF Pipeline, Pending, Lost, TypeInv
    <3>. QED
      BY <1>f, <2>2, <2>3, <3>1, <3>2 DEF KeyStaysSmall
  <2>. QED
    BY <2>4, <2>5
<1>3. ASSUME NEW c \in Calls, ReadOldest(c) PROVE KeyStaysSmall'
  <2>1. Stored' = Stored /\ Owed' = Owed
    BY <1>3, <1>t DEF ReadOldest, Stored, Pending, Lost, TypeInv
  <2>. QED
    BY <2>1 DEF KeyStaysSmall
<1>4. ASSUME NEW c \in Calls, PopNewest(c) PROVE KeyStaysSmall'
  <2>1. c \in Owed /\ Owed' = Owed \ {c}
    BY <1>4, <1>t DEF PopNewest, Pending, Lost, TypeInv
  <2>2. Cardinality(Owed)' = Cardinality(Owed) - 1 /\ Cardinality(Owed)' \in Nat
    BY <2>1, <1>f, OneLess
  <2>3. CASE Stored = {}
    <3>1. Stored' = {}
      BY <1>4, <2>3 DEF PopNewest, Stored
    <3>. QED
      BY <3>1, <2>2, <1>f, FS_EmptySet DEF KeyStaysSmall
  <2>4. CASE Stored # {}
    <3>1. PICK m \in Stored : Stored' = Stored \ {m}
      BY <1>4, <2>4 DEF PopNewest, Stored
    <3>2. Cardinality(Stored)' = Cardinality(Stored) - 1
      BY <3>1, <1>f, OneLess
    <3>. QED
      BY <3>2, <2>2, <1>f DEF KeyStaysSmall
  <2>. QED
    BY <2>3, <2>4
<1>5. ASSUME NEW c \in Calls, Crash(c) PROVE KeyStaysSmall'
  <2>1. Stored' = Stored /\ Owed' = Owed
    BY <1>5, <1>t DEF Crash, Stored, Pending, Lost, TypeInv
  <2>. QED
    BY <2>1 DEF KeyStaysSmall
<1>6. CASE Tick
  <2>1. Stored' \subseteq Stored /\ Owed' = Owed
    BY <1>6, <1>t, Ticking DEF Tick, Stored, TypeInv
  <2>2. Cardinality(Stored)' \in Nat /\ Cardinality(Stored)' <= Cardinality(Stored)
        /\ Cardinality(Owed)' = Cardinality(Owed)
    BY <2>1, <1>f, PartsCount
  <2>. QED
    BY <2>1, <2>2, <1>f DEF KeyStaysSmall
<1>7. CASE UNCHANGED vars
  BY <1>7 DEF vars, KeyStaysSmall, Stored, Pending, Lost
<1>. QED
  BY <1>1, <1>2, <1>3, <1>4, <1>5, <1>6, <1>7 DEF Next

\* A caller who hammers the endpoint cannot make the key grow: the set holds at
\* most as many calls as the limit, and those being turned away or that died.
THEOREM KeysStaySmall == Spec => []KeyStaysSmall
<1>1. Init => KeyStaysSmall
  <2>. SUFFICES ASSUME Init PROVE KeyStaysSmall
    OBVIOUS
  <2>1. Inv /\ Stored \subseteq Earlier
    BY InitInv, StoredIsMembers DEF Init
  <2>2. Cardinality(Stored) \in Nat /\ Cardinality(Stored) <= Limit
    BY <2>1, EarlierAssumption, LimitAssumption, PartsCount
  <2>3. Cardinality(Pending \cup Lost) \in Nat
    BY <2>1, CountsAreFinite, WhoIsCounted
  <2>. QED
    BY <2>2, <2>3, LimitAssumption DEF KeyStaysSmall
<1>. QED
  BY <1>1, AlwaysInv, KeyStep, PTL DEF Spec
-----------------------------------------------------------------------------
LEMMA StepOwned ==
    ASSUME Inv, [Next]_vars, NEW t \in Int, EntriesAreOwned(t)
    PROVE  EntriesAreOwned(t)'
<1>. DEFINE E == EntriesAfter(t)  O == OwnersAfter(t)
<1>t. TypeInv /\ ClockInv
  BY DEF Inv
<1>o. E \subseteq Counted /\ O \subseteq Counted /\ Stored \subseteq Counted
  BY WhoIsCounted, StoredIsMembers, <1>t DEF EntriesAfter, OwnersAfter, ClockInv
<1>f. /\ IsFiniteSet(E) /\ IsFiniteSet(O)
      /\ Cardinality(E) \in Nat /\ Cardinality(O) \in Nat /\ Cardinality(E) <= Cardinality(O)
  BY <1>o, CountsAreFinite DEF EntriesAreOwned
<1>1. ASSUME E' \subseteq E, O' = O PROVE EntriesAreOwned(t)'
  <2>1. Cardinality(E') \in Nat /\ Cardinality(E') <= Cardinality(E)
    BY <1>1, <1>f, PartsCount
  <2>2. Cardinality(O') = Cardinality(O)
    BY <1>1
  <2>. QED
    BY <2>1, <2>2, <1>f DEF EntriesAreOwned
<1>2. ASSUME NEW c \in Calls, ReadClock(c) PROVE EntriesAreOwned(t)'
  <2>1. \A d \in Counted : d \in Calls /\ now'[d] = now[d]
    BY <1>2, Reading DEF Counted
  <2>2. Stored' = Stored /\ Allowed' = Allowed /\ Lost' = Lost /\ Pending' = Pending
    BY <1>2, Reading DEF Stored
  <2>3. E' = E /\ O' = O
    BY <2>1, <2>2, <1>o, WhoIsCounted DEF EntriesAfter, OwnersAfter
  <2>. QED
    BY <2>3, <1>1
<1>3. ASSUME NEW c \in Calls, Pipeline(c) PROVE EntriesAreOwned(t)'
  <2>1. /\ Stored' \subseteq Stored \cup {c} /\ now' = now
        /\ (Allowed \cup Lost \cup Pending)' = (Allowed \cup Lost \cup Pending) \cup {c}
    BY <1>3, <1>t DEF Pipeline, Stored, Recent, Allowed, Lost, Pending, TypeInv
  <2>2. c \notin O
    BY <1>3, <1>o, NewlyCounted, <1>t DEF Inv
  <2>3. CASE now[c] > t
    <3>1. E' \subseteq E \cup {c} /\ O' = O \cup {c}
      BY <2>1, <2>3 DEF EntriesAfter, OwnersAfter
    <3>2. /\ IsFiniteSet(E \cup {c}) /\ Cardinality(E \cup {c}) \in Nat
          /\ Cardinality(E \cup {c}) <= Cardinality(E) + 1
      BY <1>f, OneMore
    <3>3. Cardinality(E') \in Nat /\ Cardinality(E') <= Cardinality(E \cup {c})
      BY <3>1, <3>2, PartsCount
    <3>4. Cardinality(O') = Cardinality(O) + 1
      BY <3>1, <2>2, <1>f, OneMore
    <3>. QED
      BY <3>2, <3>3, <3>4, <1>f DEF EntriesAreOwned
  <2>4. CASE ~(now[c] > t)
    <3>1. E' \subseteq E /\ O' = O
      BY <2>1, <2>4 DEF EntriesAfter, OwnersAfter
    <3>. QED
      BY <3>1, <1>1
  <2>. QED
    BY <2>3, <2>4
<1>4. ASSUME NEW c \in Calls, ReadOldest(c) PROVE EntriesAreOwned(t)'
  <2>1. /\ Stored' = Stored /\ now' = now
        /\ Allowed' = Allowed /\ Lost' = Lost /\ Pending' = Pending
    BY <1>4, <1>t DEF ReadOldest, Stored, Allowed, Lost, Pending, TypeInv
  <2>2. E' = E /\ O' = O
    BY <2>1 DEF EntriesAfter, OwnersAfter
  <2>. QED
    BY <2>2, <1>1
<1>5. ASSUME NEW c \in Calls, PopNewest(c) PROVE EntriesAreOwned(t)'
  <2>1. /\ now' = now
        /\ (Allowed \cup Lost \cup Pending)' = (Allowed \cup Lost \cup Pending) \ {c}
    BY <1>5, <1>t DEF PopNewest, Allowed, Lost, Pending, TypeInv
  <2>2. O' = O \ {c}
    BY <2>1 DEF OwnersAfter
  <2>3. /\ IsFiniteSet(O') /\ Cardinality(O') \in Nat
        /\ Cardinality(O') >= Cardinality(O) - 1
    BY <2>2, <1>f, OneLess
  <2>4. CASE E = {}
    <3>1. Stored' \subseteq Stored
      BY <1>5 DEF PopNewest, Stored
    <3>2. E' = {}
      BY <3>1, <2>1, <2>4 DEF EntriesAfter
    <3>. QED
      BY <3>2, <2>3, FS_EmptySet DEF EntriesAreOwned
  <2>5. CASE E # {}
    <3>1. PICK m \in Stored : /\ \A n \in Stored : now[n] <= now[m]
                              /\ Stored' = Stored \ {m}
      BY <1>5, <2>5 DEF PopNewest, Stored, EntriesAfter
    <3>2. \A n \in Stored : now[n] \in Int
      BY <1>t, StoredIsMembers DEF TypeInv
    <3>3. m \in E /\ E' = E \ {m}
      BY <3>1, <3>2, <2>1, <2>5 DEF EntriesAfter
    <3>4. Cardinality(E') = Cardinality(E) - 1
      BY <3>3, <1>f, OneLess
    <3>. QED
      BY <3>4, <2>3, <1>f DEF EntriesAreOwned
  <2>. QED
    BY <2>4, <2>5
<1>6. ASSUME NEW c \in Calls, Crash(c) PROVE EntriesAreOwned(t)'
  <2>1. /\ Stored' = Stored /\ now' = now
        /\ (Allowed \cup Lost \cup Pending)' = Allowed \cup Lost \cup Pending
    BY <1>6, <1>t DEF Crash, Stored, Allowed, Lost, Pending, TypeInv
  <2>2. E' = E /\ O' = O
    BY <2>1 DEF EntriesAfter, OwnersAfter
  <2>. QED
    BY <2>2, <1>1
<1>7. CASE Tick
  <2>1. Stored' \subseteq Stored /\ now' = now
    BY <1>7, <1>t DEF Tick, Stored, TypeInv
  <2>2. E' \subseteq E /\ O' = O
    BY <2>1, <1>7, Ticking DEF EntriesAfter, OwnersAfter
  <2>. QED
    BY <2>2, <1>1
<1>8. CASE UNCHANGED vars
  BY <1>8 DEF vars, EntriesAreOwned, EntriesAfter, OwnersAfter, Stored, Allowed, Lost, Pending
<1>. QED
  BY <1>2, <1>3, <1>4, <1>5, <1>6, <1>7, <1>8 DEF Next

LEMMA FillingGrows ==
    ASSUME Inv, [Next]_vars, NEW c \in Counted
    PROVE  /\ Filling(c) \subseteq Filling(c)'
           /\ IsFiniteSet(Filling(c)') /\ Cardinality(Filling(c)) \in Nat
           /\ Cardinality(Filling(c))' \in Nat
           /\ Cardinality(Filling(c)) <= Cardinality(Filling(c))'
<1>1. Filling(c) \subseteq Counted
  BY WhoIsCounted DEF Filling, Inv, ClockInv, Counted
<1>2. Filling(c) \subseteq Filling(c)'
  BY <1>1, CountedStays DEF Filling
<1>3. (Filling(c) \subseteq Counted /\ IsFiniteSet(Counted))'
  <2>1. (beside[c] \subseteq Counted /\ IsFiniteSet(Counted))'
    BY StepInv, WhoIsCounted DEF Inv, ClockInv
  <2>2. (Allowed \cup Lost \subseteq Counted)'
    BY DEF Allowed, Lost, Counted
  <2>. QED
    BY <2>1, <2>2 DEF Filling
<1>. QED
  BY <1>2, <1>3, PartsCount

LEMMA FullStep == Inv /\ FullInv /\ [Next]_vars => FullInv'
<1>. SUFFICES ASSUME Inv, FullInv, [Next]_vars PROVE FullInv'
  OBVIOUS
<1>t. TypeInv /\ ClockInv
  BY DEF Inv
<1>1. (\A t \in Int : EntriesAreOwned(t))'
  BY StepOwned DEF FullInv
<1>2. ASSUME NEW c \in Calls, TurnedAway(c)' PROVE Cardinality(Filling(c))' >= Limit
  <2>1. CASE TurnedAway(c)
    <3>1. c \in Counted
      BY <2>1 DEF TurnedAway, Counted
    <3>2. Cardinality(Filling(c)) >= Limit
      BY <2>1 DEF FullInv
    <3>. QED
      BY <3>1, <3>2, FillingGrows, LimitAssumption
  <2>2. CASE ~TurnedAway(c)
    <3>1. Pipeline(c) /\ Over(c)
      BY <1>2, <2>2, <1>t DEF Next, vars, TurnedAway, TypeInv, ReadClock, Pipeline,
                              ReadOldest, PopNewest, Crash, Tick
    <3>2. /\ pc[c] = "read" /\ now' = now /\ beside'[c] = Pending
          /\ Allowed \subseteq Allowed' /\ Lost \subseteq Lost'
      BY <3>1, <1>t, CountedStays DEF Pipeline, TypeInv
    <3>3. clock <= now[c] + MaxLag /\ now[c] - Window \in Int
      BY <3>2, <1>t, WindowType, TimeAssumption DEF ClockInv, TypeInv, InFlight
    <3>4. OwnersAfter(now[c] - Window) \subseteq Filling(c)'
      <4>1. \A d \in Allowed \cup Lost \cup Pending : now[d] \in Int /\ now[d] <= clock
        BY <1>t DEF ClockInv, TypeInv, Allowed, Lost, Pending
      <4>. QED
        BY <3>2, <3>3, <4>1, <1>t, TimeAssumption DEF OwnersAfter, Filling, TypeInv
    <3>5. /\ Cardinality(EntriesAfter(now[c] - Window)) >= Limit
          /\ Cardinality(EntriesAfter(now[c] - Window))
                <= Cardinality(OwnersAfter(now[c] - Window))
      <4>1. Recent(c) = EntriesAfter(now[c] - Window)
        BY DEF Recent, EntriesAfter
      <4>. QED
        BY <3>1, <3>3, <4>1 DEF FullInv, EntriesAreOwned, Over
    <3>6. /\ OwnersAfter(now[c] - Window) \subseteq Counted
          /\ EntriesAfter(now[c] - Window) \subseteq Counted
      BY WhoIsCounted, StoredIsMembers, <1>t DEF OwnersAfter, EntriesAfter, ClockInv
    <3>7. IsFiniteSet(Filling(c)')
      <4>1. (Filling(c) \subseteq Counted)'
        BY StepInv, <1>2 DEF Filling, Inv, ClockInv, Allowed, Lost, Counted
      <4>. QED
        BY <4>1, StepInv, PartsCount DEF Inv, ClockInv
    <3>8. /\ Cardinality(OwnersAfter(now[c] - Window)) \in Nat
          /\ Cardinality(EntriesAfter(now[c] - Window)) \in Nat
          /\ Cardinality(Filling(c)') \in Nat
          /\ Cardinality(OwnersAfter(now[c] - Window)) <= Cardinality(Filling(c)')
      BY <3>4, <3>6, <3>7, CountsAreFinite, PartsCount
    <3>. QED
      BY <3>5, <3>8, LimitAssumption
  <2>. QED
    BY <2>1, <2>2
<1>. QED
  BY <1>1, <1>2 DEF FullInv

LEMMA InitFull == Init => FullInv
<1>. SUFFICES ASSUME Init PROVE FullInv
  OBVIOUS
<1>1. \A c \in Calls : ~TurnedAway(c)
  BY EarlierAssumption DEF Init, TurnedAway
<1>2. ASSUME NEW t \in Int PROVE EntriesAreOwned(t)
  <2>1. Allowed = Earlier /\ Stored \subseteq Earlier
    BY EarlierAssumption DEF Init, Allowed, Stored
  <2>2. EntriesAfter(t) \subseteq OwnersAfter(t)
    BY <2>1 DEF EntriesAfter, OwnersAfter
  <2>3. OwnersAfter(t) \subseteq Counted
    BY WhoIsCounted DEF OwnersAfter
  <2>. QED
    BY <2>2, <2>3, InitInv, CountsAreFinite, PartsCount DEF EntriesAreOwned
<1>. QED
  BY <1>1, <1>2 DEF FullInv

\* A call is turned away only where Limit calls that were let in, died half way
\* or were being turned away had a reading of the clock in its window.
THEOREM TurnedAwayWhenFull == Spec => []DeniedOnlyWhenFull
<1>1. FullInv => DeniedOnlyWhenFull
  BY DEF FullInv, DeniedOnlyWhenFull, Filling, CountedBy, TurnedAway, Denied
<1>. QED
  BY <1>1, InitFull, FullStep, AlwaysInv, PTL DEF Spec
-----------------------------------------------------------------------------
\* Entries younger than the window are still there, and every call sees them.
LEMMA YoungEntriesStay ==
    ASSUME Inv, NEW u \in Int, clock - Window <= u
    PROVE  /\ MembersAfter(u) \subseteq Stored
           /\ \A c \in Calls : pc[c] = "read" => MembersAfter(u) \subseteq Recent(c)
<1>t. TypeInv /\ ClockInv
  BY DEF Inv
<1>1. \A m \in MembersAfter(u) : m \in members /\ m \in Counted /\ now[m] \in Int /\ now[m] > u
  BY <1>t DEF MembersAfter, TypeInv, ClockInv
<1>2. \A m \in MembersAfter(u) : m \in Stored
  BY <1>1, <1>t, WindowType, TimeAssumption DEF TypeInv, ClockInv, Stored
<1>3. ASSUME NEW c \in Calls, pc[c] = "read" PROVE MembersAfter(u) \subseteq Recent(c)
  <2>1. now[c] <= clock /\ now[c] \in Int
    BY <1>3, <1>t DEF TypeInv, ClockInv
  <2>. QED
    BY <2>1, <1>1, <1>2, <1>t, WindowType DEF TypeInv, Recent
<1>. QED
  BY <1>2, <1>3

LEMMA StepBalanced ==
    ASSUME Inv, [Next]_vars, NEW t \in Int, clock - Window + MaxLag <= t, Balanced(t)
    PROVE  Balanced(t)'
<1>. DEFINE A == LetInAfter(t)  P == PendingAfter(t - MaxLag)
            M == MembersAfter(t - MaxLag)  D == Displacing(t)
<1>t. TypeInv /\ ClockInv /\ t - MaxLag \in Int /\ clock - Window <= t - MaxLag
  BY WindowType, TimeAssumption DEF Inv, TypeInv
<1>o. /\ A \subseteq Counted /\ P \subseteq Counted /\ M \subseteq Counted /\ D \subseteq Counted
      /\ M \subseteq Stored
  BY <1>t, WhoIsCounted, YoungEntriesStay
     DEF LetInAfter, PendingAfter, MembersAfter, Displacing, ClockInv
<1>f. /\ IsFiniteSet(A) /\ IsFiniteSet(P) /\ IsFiniteSet(M) /\ IsFiniteSet(D)
      /\ Cardinality(A) \in Nat /\ Cardinality(P) \in Nat
      /\ Cardinality(M) \in Nat /\ Cardinality(D) \in Nat
      /\ Cardinality(A) + Cardinality(P) <= Cardinality(M) + Cardinality(D)
  BY <1>o, CountsAreFinite DEF Balanced
<1>g. /\ IsFiniteSet(M') /\ Cardinality(M') \in Nat
      /\ IsFiniteSet(D') /\ Cardinality(D') \in Nat
      /\ IsFiniteSet(A') /\ Cardinality(A') \in Nat
      /\ IsFiniteSet(P') /\ Cardinality(P') \in Nat
  <2>1. (M \subseteq Counted /\ D \subseteq Counted /\ IsFiniteSet(Counted))'
    BY StepInv DEF Inv, ClockInv, MembersAfter, Displacing, Denied, Counted
  <2>2. (A \subseteq Counted /\ P \subseteq Counted)'
    BY DEF LetInAfter, PendingAfter, Allowed, Pending, Counted
  <2>. QED
    BY <2>1, <2>2, PartsCount
<1>. HIDE DEF A, P, M, D
<1>q. Balanced(t)' <=> Cardinality(A') + Cardinality(P') <= Cardinality(M') + Cardinality(D')
  BY DEF Balanced, A, P, M, D
<1>1. ASSUME A' \subseteq A, P' \subseteq P, M \subseteq M', D \subseteq D'
      PROVE  Balanced(t)'
  <2>1. /\ Cardinality(A') <= Cardinality(A) /\ Cardinality(P') <= Cardinality(P)
        /\ Cardinality(M) <= Cardinality(M') /\ Cardinality(D) <= Cardinality(D')
    BY <1>1, <1>f, <1>g, PartsCount
  <2>. QED
    BY <2>1, <1>f, <1>g, <1>q
<1>2. ASSUME NEW c \in Calls, ReadClock(c) PROVE Balanced(t)'
  <2>1. \A d \in Counted : d \in Calls /\ now'[d] = now[d]
    BY <1>2, Reading DEF Counted
  <2>2. A' = A /\ P' = P /\ M' = M /\ D' = D
    BY <1>2, <2>1, <1>t, Reading, WhoIsCounted
       DEF A, P, M, D, LetInAfter, PendingAfter, MembersAfter, Displacing, ClockInv
  <2>. QED
    BY <2>2, <1>1
<1>3. ASSUME NEW c \in Calls, Pipeline(c) PROVE Balanced(t)'
  <2>1. /\ pc[c] = "read" /\ now' = now /\ clock' = clock /\ members' = Recent(c) \cup {c}
        /\ now[c] \in Int /\ clock <= now[c] + MaxLag /\ M \subseteq Recent(c)
    BY <1>3, <1>t, YoungEntriesStay, TimeAssumption
       DEF Pipeline, TypeInv, ClockInv, InFlight, M
  <2>2. c \notin A /\ c \notin P /\ c \notin M
    BY <1>3, <1>o, NewlyCounted
  <2>3. D' = D
    BY <1>3, <1>t DEF Pipeline, TypeInv, D, Displacing, Denied
  <2>4. Recent(c) \subseteq members
    BY StoredIsMembers DEF Recent
  <2>5. CASE now[c] > t - MaxLag
    <3>1. M' = M \cup {c}
      BY <2>1, <2>4, <2>5 DEF M, MembersAfter
    <3>2. Cardinality(M') = Cardinality(M) + 1
      BY <3>1, <2>2, <1>f, OneMore
    <3>3. CASE Over(c)
      <4>1. A' = A /\ P' = P \cup {c}
        BY <1>3, <1>t, <2>1, <2>5, <3>3
           DEF Pipeline, TypeInv, A, P, LetInAfter, PendingAfter, Allowed, Pending
      <4>2. Cardinality(P') = Cardinality(P) + 1 /\ Cardinality(A') = Cardinality(A)
        BY <4>1, <2>2, <1>f, OneMore
      <4>3. Cardinality(D') = Cardinality(D)
        BY <2>3
      <4>. QED
        BY <3>2, <4>2, <4>3, <1>f, <1>g, <1>q
    <3>4. CASE ~Over(c)
      <4>1. A' \subseteq A \cup {c} /\ P' = P
        BY <1>3, <1>t, <2>1, <3>4
           DEF Pipeline, TypeInv, A, P, LetInAfter, PendingAfter, Allowed, Pending
      <4>2. IsFiniteSet(A \cup {c}) /\ Cardinality(A \cup {c}) = Cardinality(A) + 1
        BY <2>2, <1>f, OneMore
      <4>3. Cardinality(A') <= Cardinality(A \cup {c}) /\ Cardinality(P') = Cardinality(P)
        BY <4>1, <4>2, PartsCount
      <4>4. Cardinality(D') = Cardinality(D)
        BY <2>3
      <4>. QED
        BY <3>2, <4>2, <4>3, <4>4, <1>f, <1>g, <1>q
    <3>. QED
      BY <3>3, <3>4
  <2>6. CASE ~(now[c] > t - MaxLag)
    <3>1. M \subseteq M'
      BY <2>1 DEF M, MembersAfter
    <3>2. P' = P
      BY <1>3, <1>t, <2>1, <2>6 DEF Pipeline, TypeInv, P, PendingAfter, Pending
    <3>3. clock <= t
      BY <2>1, <2>6, <1>t, TimeAssumption DEF TypeInv
    <3>4. A' \subseteq A
      BY <1>3, <1>t, <3>3 DEF Pipeline, TypeInv, A, LetInAfter, Allowed
    <3>. QED
      BY <3>1, <3>2, <3>4, <2>3, <1>1
  <2>. QED
    BY <2>5, <2>6
<1>4. ASSUME NEW c \in Calls, ReadOldest(c) PROVE Balanced(t)'
  <2>1. /\ members' = members /\ now' = now /\ letIn' = letIn
        /\ Allowed' = Allowed /\ Pending' = Pending /\ Denied' = Denied
    BY <1>4, <1>t DEF ReadOldest, Allowed, Pending, Denied, TypeInv
  <2>2. A' = A /\ P' = P /\ M' = M /\ D' = D
    BY <2>1 DEF A, P, M, D, LetInAfter, PendingAfter, MembersAfter, Displacing
  <2>. QED
    BY <2>2, <1>1
<1>5. ASSUME NEW c \in Calls, PopNewest(c) PROVE Balanced(t)'
  <2>1. /\ pc[c] = "pop" /\ now' = now /\ letIn' = letIn /\ members' \subseteq members
        /\ Allowed' = Allowed /\ Pending' = Pending \ {c} /\ Denied' = Denied \cup {c}
    BY <1>5, <1>t DEF PopNewest, Allowed, Pending, Denied, TypeInv
  <2>2. A' = A /\ P' = P \ {c} /\ D \subseteq D' /\ M' \subseteq M
    BY <2>1 DEF A, P, M, D, LetInAfter, PendingAfter, MembersAfter, Displacing
  <2>3. CASE M = {}
    BY <2>2, <2>3, <1>1
  <2>4. CASE M # {}
    <3>1. PICK m \in Stored : /\ \A n \in Stored : now[n] <= now[m]
                              /\ members' = members \ {m}
      BY <1>5, <2>4, <1>o DEF PopNewest
    <3>2. \A n \in Stored : n \in members /\ now[n] \in Int /\ now[n] <= clock
      BY <1>t, StoredIsMembers DEF TypeInv, ClockInv, Counted
    <3>3. m \in M
      <4>1. PICK n \in M : TRUE
        BY <2>4
      <4>2. now[n] > t - MaxLag /\ n \in Stored
        BY <4>1, <1>o DEF M, MembersAfter
      <4>. QED
        BY <4>2, <3>1, <3>2, <1>t DEF M, MembersAfter
    <3>4. M' = M \ {m}
      BY <3>1, <2>1 DEF M, MembersAfter
    <3>5. Cardinality(M') = Cardinality(M) - 1 /\ Cardinality(A') = Cardinality(A)
      BY <3>3, <3>4, <2>2, <1>f, OneLess
    <3>6. CASE c \in P
      <4>1. Cardinality(P') = Cardinality(P) - 1
        BY <3>6, <2>2, <1>f, OneLess
      <4>2. Cardinality(D) <= Cardinality(D')
        BY <2>2, <1>g, PartsCount
      <4>. QED
        BY <3>5, <4>1, <4>2, <1>f, <1>g, <1>q
    <3>7. CASE c \notin P
      <4>1. now[c] \in Int /\ clock - now[c] <= MaxLag /\ now[c] <= t - MaxLag
        BY <2>1, <3>7, <1>t DEF TypeInv, ClockInv, InFlight, P, PendingAfter, Pending
      <4>2. t - MaxLag < now[m] /\ now[m] <= clock /\ now[m] \in Int
        BY <3>2, <3>3 DEF M, MembersAfter
      <4>3. t - 2 * MaxLag < now[c]
        BY <4>1, <4>2, <1>t, TimeAssumption DEF TypeInv
      <4>4. D' = D \cup {c} /\ c \notin D
        BY <4>1, <4>3, <2>1 DEF D, Displacing, Denied
      <4>5. Cardinality(D') = Cardinality(D) + 1
        BY <4>4, <1>f, OneMore
      <4>6. P' = P
        BY <3>7, <2>2
      <4>7. Cardinality(P') = Cardinality(P)
        BY <4>6
      <4>. QED
        BY <3>5, <4>5, <4>7, <1>f, <1>g, <1>q
    <3>. QED
      BY <3>6, <3>7
  <2>. QED
    BY <2>3, <2>4
<1>6. ASSUME NEW c \in Calls, Crash(c) PROVE Balanced(t)'
  <2>1. /\ members' = members /\ now' = now /\ letIn' = letIn
        /\ Allowed' = Allowed /\ Pending' \subseteq Pending /\ Denied' = Denied
    BY <1>6, <1>t DEF Crash, Allowed, Pending, Denied, TypeInv
  <2>2. A' = A /\ P' \subseteq P /\ M' = M /\ D' = D
    BY <2>1 DEF A, P, M, D, LetInAfter, PendingAfter, MembersAfter, Displacing
  <2>. QED
    BY <2>2, <1>1
<1>7. CASE Tick
  <2>1. /\ members' = members /\ now' = now /\ letIn' = letIn
    BY <1>7 DEF Tick
  <2>2. A' = A /\ P' = P /\ M' = M /\ D' = D
    BY <1>7, <2>1, Ticking DEF A, P, M, D, LetInAfter, PendingAfter, MembersAfter, Displacing
  <2>. QED
    BY <2>2, <1>1
<1>8. CASE UNCHANGED vars
  <2>1. A' = A /\ P' = P /\ M' = M /\ D' = D
    BY <1>8 DEF vars, A, P, M, D, LetInAfter, PendingAfter, MembersAfter, Displacing,
                Allowed, Pending, Denied
  <2>. QED
    BY <2>1, <1>1
<1>. QED
  BY <1>2, <1>3, <1>4, <1>5, <1>6, <1>7, <1>8 DEF Next
-----------------------------------------------------------------------------
LEMMA LetInFinite ==
    ASSUME Inv, NEW c \in Calls
    PROVE  /\ IsFiniteSet(LetInBefore(c)) /\ Cardinality(LetInBefore(c)) \in Nat
           /\ IsFiniteSet(DisplacedBefore(c)) /\ Cardinality(DisplacedBefore(c)) \in Nat
<1>1. LetInBefore(c) \subseteq Counted /\ DisplacedBefore(c) \subseteq Counted
  BY WhoIsCounted DEF LetInBefore, DisplacedBefore
<1>. QED
  BY <1>1, CountsAreFinite

LEMMA WindowStep == Inv /\ WindowInv /\ [Next]_vars => WindowInv'
<1>. SUFFICES ASSUME Inv, WindowInv, [Next]_vars PROVE WindowInv'
  OBVIOUS
<1>t. TypeInv /\ ClockInv /\ Inv' /\ Window \in Nat /\ Limit \in Nat /\ MaxLag \in Nat
  BY StepInv, WindowType, LimitAssumption, TimeAssumption DEF Inv
<1>1. (\A t \in Int : clock - Window + MaxLag <= t => Balanced(t))'
  <2>. SUFFICES ASSUME NEW t \in Int, clock' - Window + MaxLag <= t PROVE Balanced(t)'
    BY DEF Window
  <2>1. clock \in Nat /\ clock' \in Nat /\ clock <= clock'
    BY <1>t, CountedStays DEF Inv, TypeInv
  <2>2. \A a \in Nat, b \in Nat, w \in Nat, l \in Nat :
            a <= b /\ b - w + l <= t => a - w + l <= t
    OBVIOUS
  <2>3. clock - Window + MaxLag <= t
    BY <2>1, <2>2, <1>t
  <2>. QED
    BY <2>3, StepBalanced DEF WindowInv
<1>2. ASSUME NEW c \in Calls, c \in Allowed'
      PROVE  Cardinality(LetInBefore(c)') <= Limit + Cardinality(DisplacedBefore(c)')
  <2>f. /\ IsFiniteSet(LetInBefore(c)') /\ Cardinality(LetInBefore(c)') \in Nat
        /\ IsFiniteSet(DisplacedBefore(c)') /\ Cardinality(DisplacedBefore(c)') \in Nat
    <3>1. Inv' => (LetInBefore(c) \subseteq Counted)' /\ (DisplacedBefore(c) \subseteq Counted)'
                  /\ IsFiniteSet(Counted)'
      BY DEF LetInBefore, DisplacedBefore, Allowed, Denied, Counted, Inv, ClockInv
    <3>. QED
      BY <3>1, <1>t, PartsCount
  <2>1. ASSUME c \in Allowed, LetInBefore(c)' = LetInBefore(c)
        PROVE  Cardinality(LetInBefore(c)') <= Limit + Cardinality(DisplacedBefore(c)')
    <3>1. c \in Counted /\ letIn'[c] = letIn[c]
      BY <2>1, CountedStays, WhoIsCounted
    <3>2. DisplacedBefore(c) \subseteq DisplacedBefore(c)'
      BY <3>1, CountedStays, WhoIsCounted DEF DisplacedBefore, Window
    <3>3. Cardinality(DisplacedBefore(c)) <= Cardinality(DisplacedBefore(c)')
          /\ Cardinality(DisplacedBefore(c)) \in Nat /\ Cardinality(LetInBefore(c)) \in Nat
      BY <3>2, <2>f, PartsCount, LetInFinite
    <3>4. Cardinality(LetInBefore(c)') = Cardinality(LetInBefore(c))
      BY <2>1
    <3>5. Cardinality(LetInBefore(c)) <= Limit + Cardinality(DisplacedBefore(c))
      BY <2>1 DEF WindowInv
    <3>. QED
      BY <3>3, <3>4, <3>5, <2>f, <1>t
  <2>2. CASE Allowed' = Allowed
    <3>1. \A d \in Allowed : letIn'[d] = letIn[d]
      BY CountedStays, WhoIsCounted
    <3>2. c \in Allowed /\ LetInBefore(c)' = LetInBefore(c)
      BY <1>2, <2>2, <3>1 DEF LetInBefore, Window
    <3>. QED
      BY <3>2, <2>1
  <2>3. CASE Allowed' # Allowed
    <3>1. PICK e \in Calls : Pipeline(e) /\ ~Over(e)
      <4>1. ASSUME NEW e \in Calls, Pipeline(e), Over(e) PROVE Allowed' = Allowed
        BY <4>1, <1>t DEF Pipeline, Allowed, TypeInv
      <4>2. UNCHANGED vars => Allowed' = Allowed
        BY DEF vars, Allowed
      <4>. QED
        BY <4>1, <4>2, <2>3, Reading, Settling, Ticking DEF Next
    <3>2. /\ pc[e] = "read" /\ now' = now /\ Denied' = Denied /\ letIn'[e] = clock
          /\ Allowed' = Allowed \cup {e} /\ e \notin Allowed
          /\ \A d \in Allowed : letIn'[d] = letIn[d] /\ letIn[d] \in Int /\ letIn[d] <= clock
      BY <3>1, <1>t DEF Pipeline, Allowed, Denied, TypeInv, ClockInv
    <3>3. CASE letIn'[c] # clock
      <4>1. c \in Allowed /\ letIn'[c] = letIn[c] /\ letIn[c] < clock /\ letIn[c] \in Int
        BY <1>2, <3>2, <3>3, <1>t DEF TypeInv
      <4>2. LetInBefore(c)' = LetInBefore(c)
        BY <4>1, <3>2, <1>t DEF LetInBefore, TypeInv, Window
      <4>. QED
        BY <4>1, <4>2, <2>1
    <3>4. CASE letIn'[c] = clock
      <4>. DEFINE t == clock - Window + MaxLag
      <4>1. t \in Int /\ t - MaxLag \in Int /\ clock - Window <= t - MaxLag
        BY <1>t DEF TypeInv
      <4>2. LetInBefore(c)' \subseteq LetInAfter(t) \cup {e}
        BY <3>2, <3>4, <1>t DEF LetInBefore, LetInAfter, TypeInv, Window
      <4>3. DisplacedBefore(c)' = Displacing(t)
        <5>1. \A d \in Denied : now[d] \in Int
          BY <1>t DEF TypeInv, Denied
        <5>2. \A d \in Denied : /\ (clock - Window - MaxLag < now[d] <=> t - 2 * MaxLag < now[d])
                                /\ (now[d] <= clock - Window <=> now[d] <= t - MaxLag)
          BY <5>1, <1>t DEF TypeInv
        <5>. QED
          BY <5>2, <3>2, <3>4 DEF DisplacedBefore, Displacing, Window
      <4>4. Balanced(t)
        BY <4>1 DEF WindowInv
      <4>5. MembersAfter(t - MaxLag) \subseteq Recent(e)
        BY <4>1, <3>2, YoungEntriesStay
      <4>6. /\ IsFiniteSet(Recent(e)) /\ IsFiniteSet(LetInAfter(t))
            /\ Cardinality(Recent(e)) \in Nat /\ Cardinality(LetInAfter(t)) \in Nat
            /\ Cardinality(PendingAfter(t - MaxLag)) \in Nat
            /\ Cardinality(Displacing(t)) \in Nat
        <5>1. Recent(e) \subseteq Counted /\ LetInAfter(t) \subseteq Counted
              /\ PendingAfter(t - MaxLag) \subseteq Counted /\ Displacing(t) \subseteq Counted
          BY <1>t, WhoIsCounted, StoredIsMembers
             DEF Recent, LetInAfter, PendingAfter, Displacing, ClockInv
        <5>. QED
          BY <5>1, CountsAreFinite
      <4>7. /\ Cardinality(MembersAfter(t - MaxLag)) \in Nat
            /\ Cardinality(MembersAfter(t - MaxLag)) <= Cardinality(Recent(e))
        BY <4>5, <4>6, PartsCount
      <4>8. Cardinality(Recent(e)) + 1 <= Limit
        BY <3>1, <4>6, <1>t DEF Over
      <4>9. /\ IsFiniteSet(LetInAfter(t) \cup {e})
            /\ Cardinality(LetInAfter(t) \cup {e}) \in Nat
            /\ Cardinality(LetInAfter(t) \cup {e}) <= Cardinality(LetInAfter(t)) + 1
        BY <4>6, OneMore
      <4>10. Cardinality(LetInBefore(c)') <= Cardinality(LetInAfter(t) \cup {e})
        BY <4>2, <4>9, PartsCount
      <4>11. Cardinality(LetInAfter(t)) + 1 <= Limit + Cardinality(Displacing(t))
        BY <4>4, <4>6, <4>7, <4>8, <1>t DEF Balanced
      <4>12. Cardinality(DisplacedBefore(c)') = Cardinality(Displacing(t))
        BY <4>3
      <4>. HIDE DEF t
      <4>. QED
        BY <4>6, <4>9, <4>10, <4>11, <4>12, <2>f, <1>t
    <3>. QED
      BY <3>3, <3>4
  <2>. QED
    BY <2>2, <2>3
<1>3. \A c \in Allowed' : c \in Calls
  BY DEF Allowed
<1>4. (\A c \in Allowed :
          Cardinality(LetInBefore(c)) <= Limit + Cardinality(DisplacedBefore(c)))'
  BY <1>2, <1>3
<1>. QED
  BY <1>1, <1>4 DEF WindowInv

LEMMA InitWindow == Init => WindowInv
<1>. SUFFICES ASSUME Init PROVE WindowInv
  OBVIOUS
<1>1. /\ Allowed = Earlier /\ Pending = {} /\ members = Earlier
      /\ \A d \in Earlier : now[d] = 0 /\ letIn[d] = 0
  BY EarlierAssumption DEF Init, Allowed, Pending
<1>2. Inv /\ Limit \in Nat /\ MaxLag \in Nat
  BY InitInv, LimitAssumption, TimeAssumption
<1>3. ASSUME NEW t \in Int PROVE Balanced(t)
  <2>1. LetInAfter(t) \subseteq MembersAfter(t - MaxLag)
    BY <1>1, <1>2 DEF LetInAfter, MembersAfter
  <2>2. PendingAfter(t - MaxLag) = {}
    BY <1>1 DEF PendingAfter
  <2>3. MembersAfter(t - MaxLag) \subseteq Counted /\ Displacing(t) \subseteq Counted
    BY <1>1, WhoIsCounted DEF MembersAfter, Displacing
  <2>4. /\ IsFiniteSet(MembersAfter(t - MaxLag))
        /\ Cardinality(MembersAfter(t - MaxLag)) \in Nat /\ Cardinality(Displacing(t)) \in Nat
    BY <2>3, <1>2, CountsAreFinite
  <2>5. /\ Cardinality(LetInAfter(t)) \in Nat
        /\ Cardinality(LetInAfter(t)) <= Cardinality(MembersAfter(t - MaxLag))
    BY <2>1, <2>4, PartsCount
  <2>6. Cardinality(PendingAfter(t - MaxLag)) = 0
    BY <2>2, FS_EmptySet
  <2>. QED
    BY <2>4, <2>5, <2>6 DEF Balanced
<1>4. ASSUME NEW c \in Allowed
      PROVE  Cardinality(LetInBefore(c)) <= Limit + Cardinality(DisplacedBefore(c))
  <2>1. LetInBefore(c) \subseteq Earlier /\ c \in Calls
    BY <1>1, EarlierAssumption DEF LetInBefore
  <2>2. Cardinality(LetInBefore(c)) \in Nat /\ Cardinality(LetInBefore(c)) <= Limit
    <3>1. Cardinality(LetInBefore(c)) \in Nat /\ Cardinality(Earlier) \in Nat
          /\ Cardinality(LetInBefore(c)) <= Cardinality(Earlier)
      BY <2>1, EarlierAssumption, PartsCount
    <3>. QED
      BY <3>1, <1>2, EarlierAssumption
  <2>3. Cardinality(DisplacedBefore(c)) \in Nat
    BY <2>1, <1>2, LetInFinite
  <2>. QED
    BY <2>2, <2>3, <1>2
<1>. QED
  BY <1>3, <1>4 DEF WindowInv

\* However calls overlap, die half way or pop each other's entries, no window
\* shortened by the longest a call takes sees more calls let in than the limit,
\* and one for each call that was being turned away as the full window began.
THEOREM WindowsAreNearlyHonoured == Spec => []WindowNearlyHonoured
<1>1. WindowInv => WindowNearlyHonoured
  BY DEF WindowInv, WindowNearlyHonoured, LetInBefore, DisplacedBefore
<1>. QED
  BY <1>1, InitWindow, WindowStep, AlwaysInv, PTL DEF Spec
-----------------------------------------------------------------------------
LEMMA Ratios ==
    ASSUME NEW b \in Nat \ {0}, NEW a \in Int
    PROVE  /\ a \div b \in Int
           /\ (a \div b) * b <= a
           /\ a < (a \div b) * b + b
  BY SMT

LEMMA RatiosGrow ==
    ASSUME NEW b \in Nat \ {0}, NEW q \in Int, NEW r \in Int, q * b < r * b + b
    PROVE  q <= r
<1>1. ASSUME r + 1 <= q PROVE FALSE
  <2>1. PICK d \in Nat : q = r + 1 + d
    <3>1. q - r - 1 \in Nat /\ q = r + 1 + (q - r - 1)
      BY <1>1
    <3>. QED
      BY <3>1
  <2>2. q * b = r * b + b + d * b /\ d * b >= 0
    BY <2>1
  <2>3. q * b \in Int /\ r * b \in Int /\ d * b \in Int
    BY <2>1
  <2>. QED
    BY <2>2, <2>3
<1>. QED
  BY <1>1

LEMMA RetryAfterBounds ==
    ASSUME NEW a \in Int, a <= Window + MaxLag
    PROVE  /\ AtLeastOne(a \div TicksPerSecond) \in 1 .. (Window + MaxLag) \div TicksPerSecond
           /\ AtLeastOne(a \div TicksPerSecond) > 1 =>
                  AtLeastOne(a \div TicksPerSecond) * TicksPerSecond <= a
           /\ WindowSeconds \in 1 .. (Window + MaxLag) \div TicksPerSecond
<1>. DEFINE q == a \div TicksPerSecond  r == (Window + MaxLag) \div TicksPerSecond
<1>1. /\ TicksPerSecond \in Nat \ {0} /\ Window + MaxLag \in Int
      /\ WindowSeconds \in Nat \ {0} /\ Window \in Nat /\ MaxLag \in Nat
  BY WindowType, TimeAssumption
<1>2. /\ q \in Int /\ r \in Int
      /\ q * TicksPerSecond <= a
      /\ Window + MaxLag < r * TicksPerSecond + TicksPerSecond
  BY <1>1, Ratios
<1>. HIDE DEF q, r
<1>3. q * TicksPerSecond \in Int /\ r * TicksPerSecond \in Int
      /\ WindowSeconds * TicksPerSecond \in Int
  BY <1>1, <1>2
<1>4. q <= r
  <2>1. q * TicksPerSecond < r * TicksPerSecond + TicksPerSecond
    BY <1>1, <1>2, <1>3
  <2>. QED
    BY <2>1, <1>1, <1>2, RatiosGrow
<1>5. WindowSeconds <= r
  <2>1. WindowSeconds * TicksPerSecond < r * TicksPerSecond + TicksPerSecond
    BY <1>1, <1>2, <1>3 DEF Window
  <2>. QED
    BY <2>1, <1>1, <1>2, RatiosGrow
<1>6. AtLeastOne(q) \in 1 .. r /\ (AtLeastOne(q) > 1 => AtLeastOne(q) = q)
  BY <1>1, <1>2, <1>4, <1>5 DEF AtLeastOne
<1>. QED
  BY <1>1, <1>2, <1>5, <1>6 DEF q, r

\* No call comes to have run beside another of earlier times.
LEMMA AloneBefore ==
    ASSUME Inv, [Next]_vars, NEW c \in Calls, Alone(c)'
    PROVE  Alone(c)
<1>1. \A d \in Counted : beside'[d] = beside[d]
  BY CountedStays
<1>2. \A d \in Calls \ Counted : beside[d] = {}
  BY DEF Inv, ClockInv
<1>. QED
  BY <1>1, <1>2 DEF Alone

\* What a call that is over the limit finds as its transaction ends.
LEMMA OldestAtFirst ==
    ASSUME Inv, FullInv, [Next]_vars, NEW c \in Calls, Pipeline(c), Over(c)
    PROVE  OldestInv(c)'
<1>t. TypeInv /\ ClockInv /\ Window \in Nat /\ MaxLag \in Nat /\ Limit \in Nat \ {0}
  BY WindowType, TimeAssumption, LimitAssumption DEF Inv
<1>1. /\ pc[c] = "read" /\ now' = now /\ beside'[c] = Pending /\ clock <= now[c] + MaxLag
      /\ members' = Recent(c) \cup {c} /\ now[c] \in Int
      /\ Allowed \subseteq Allowed' /\ Lost \subseteq Lost'
  BY <1>t, CountedStays DEF Pipeline, TypeInv, ClockInv, InFlight
<1>2. /\ Recent(c) \subseteq Counted /\ Recent(c) \subseteq Stored /\ c \notin Recent(c)
      /\ IsFiniteSet(Recent(c)) /\ Cardinality(Recent(c)) \in Nat
      /\ Cardinality(Recent(c)) >= Limit
  <2>1. Recent(c) \subseteq Counted /\ Recent(c) \subseteq Stored
    BY <1>t, StoredIsMembers DEF Recent, ClockInv
  <2>. QED
    BY <2>1, CountsAreFinite, NewlyCounted DEF Over
<1>3. ASSUME NEW m \in Recent(c) PROVE \E d \in Filling(c)' : now[m] <= now[d]
  <2>1. m \in Stored /\ now[m] \in Int /\ now[m] > now[c] - Window /\ now[m] - 1 \in Int
    BY <1>t, <1>2 DEF Recent, TypeInv, Counted
  <2>2. m \in EntriesAfter(now[m] - 1)
    BY <2>1 DEF EntriesAfter
  <2>3. /\ EntriesAfter(now[m] - 1) \subseteq Counted /\ OwnersAfter(now[m] - 1) \subseteq Counted
    BY <1>t, WhoIsCounted, StoredIsMembers DEF EntriesAfter, OwnersAfter, ClockInv
  <2>4. /\ IsFiniteSet(EntriesAfter(now[m] - 1))
        /\ Cardinality(EntriesAfter(now[m] - 1)) \in Nat
        /\ Cardinality(OwnersAfter(now[m] - 1)) \in Nat
    BY <2>3, CountsAreFinite
  <2>5. Cardinality(EntriesAfter(now[m] - 1)) # 0
    BY <2>2, <2>4, FS_EmptySet
  <2>6. Cardinality(OwnersAfter(now[m] - 1)) # 0
    BY <2>1, <2>4, <2>5 DEF FullInv, EntriesAreOwned
  <2>7. PICK d \in OwnersAfter(now[m] - 1) : TRUE
    BY <2>6, FS_EmptySet
  <2>8. /\ d \in Allowed \cup Lost \cup Pending /\ now[d] \in Int
        /\ now[m] <= now[d] /\ now[d] <= clock
    BY <2>1, <2>7, <1>t DEF OwnersAfter, TypeInv, ClockInv, Allowed, Lost, Pending
  <2>. QED
    BY <2>1, <2>8, <1>1, <1>t DEF Filling, Window, TypeInv
<1>4. (Pending \ {c} \subseteq beside[c])'
  BY <1>1, <1>t DEF Pipeline, Pending, TypeInv
<1>5. (Limit + 1 <= Cardinality(members) + Cardinality(beside[c] \cap Denied))'
  <2>1. Cardinality(members') = Cardinality(Recent(c)) + 1
    BY <1>1, <1>2, OneMore
  <2>2. Cardinality((beside[c] \cap Denied)') \in Nat
    <3>1. (beside[c] \cap Denied \subseteq Counted /\ IsFiniteSet(Counted))'
      BY StepInv DEF Inv, ClockInv, Denied, Counted
    <3>. QED
      BY <3>1, PartsCount
  <2>. QED
    BY <2>1, <2>2, <1>2, <1>t
<1>6. Recent(c) # {}
  BY <1>2, <1>t, FS_EmptySet
<1>. QED
  BY <1>1, <1>2, <1>3, <1>4, <1>5, <1>6 DEF OldestInv

\* It stays so as others take back their entries.
LEMMA OldestStays ==
    ASSUME Inv, [Next]_vars, NEW c \in Calls, OldestInv(c), pc[c] = "over"
    PROVE  OldestInv(c)'
<1>. SUFFICES ASSUME pc'[c] = "over", Alone(c)' PROVE OldestInv(c)'
  BY DEF OldestInv
<1>t. TypeInv /\ ClockInv /\ Limit \in Nat
  BY LimitAssumption DEF Inv
<1>c. c \in Counted /\ c \in Pending
  BY DEF Counted, Pending
<1>o. /\ \A m \in members \ {c} : \E d \in Filling(c) : now[m] <= now[d]
      /\ c \in members => \/ members \ {c} # {}
                          \/ \E d \in Filling(c) : now[c] <= now[d]
      /\ Pending \ {c} \subseteq beside[c]
      /\ Limit + 1 <= Cardinality(members) + Cardinality(beside[c] \cap Denied)
  BY AloneBefore DEF OldestInv
<1>k. /\ \A d \in Counted : now'[d] = now[d]
      /\ beside'[c] = beside[c] /\ Filling(c) \subseteq Filling(c)' /\ Denied \subseteq Denied'
      /\ Filling(c) \subseteq Counted
  BY <1>c, <1>t, CountedStays, FillingGrows, WhoIsCounted DEF Filling, ClockInv, Counted
<1>f. /\ IsFiniteSet(members) /\ Cardinality(members) \in Nat
      /\ IsFiniteSet(beside[c] \cap Denied) /\ Cardinality(beside[c] \cap Denied) \in Nat
      /\ IsFiniteSet((beside[c] \cap Denied)') /\ Cardinality((beside[c] \cap Denied)') \in Nat
      /\ Cardinality(beside[c] \cap Denied) <= Cardinality((beside[c] \cap Denied)')
  <2>1. members \subseteq Counted /\ beside[c] \cap Denied \subseteq Counted
    BY <1>t, WhoIsCounted DEF ClockInv
  <2>2. (beside[c] \cap Denied \subseteq Counted /\ IsFiniteSet(Counted))'
    BY StepInv DEF Inv, ClockInv, Denied, Counted
  <2>3. beside[c] \cap Denied \subseteq (beside[c] \cap Denied)'
    BY <1>k
  <2>4. IsFiniteSet((beside[c] \cap Denied)') /\ Cardinality((beside[c] \cap Denied)') \in Nat
    BY <2>2, PartsCount
  <2>. QED
    BY <2>1, <2>3, <2>4, CountsAreFinite, PartsCount
<1>1. ASSUME members' = members, Pending' \subseteq Pending PROVE OldestInv(c)'
  <2>1. \A m \in members : now'[m] = now[m]
    BY <1>k, <1>t DEF ClockInv
  <2>2. \A d \in Filling(c) : d \in Filling(c)' /\ now'[d] = now[d]
    BY <1>k
  <2>3. (\A m \in members \ {c} : \E d \in Filling(c) : now[m] <= now[d])'
    BY <1>1, <1>o, <2>1, <2>2
  <2>4. (c \in members => \/ members \ {c} # {}
                          \/ \E d \in Filling(c) : now[c] <= now[d])'
    BY <1>1, <1>o, <2>1, <2>2
  <2>5. Cardinality(members') = Cardinality(members)
    BY <1>1
  <2>6. (Limit + 1 <= Cardinality(members) + Cardinality(beside[c] \cap Denied))'
    BY <2>5, <1>o, <1>f, <1>t
  <2>7. (Pending \ {c} \subseteq beside[c])'
    BY <1>1, <1>o, <1>k
  <2>. QED
    BY <2>3, <2>4, <2>6, <2>7 DEF OldestInv
<1>2. ASSUME NEW e \in Calls, ReadClock(e) PROVE OldestInv(c)'
  BY <1>2, <1>1, Reading
<1>3. ASSUME NEW e \in Calls, Pipeline(e) PROVE OldestInv(c)'
  <2>1. beside'[e] = Pending
    BY <1>3, <1>t DEF Pipeline, TypeInv
  <2>. QED
    BY <2>1, <1>c DEF Alone
<1>4. ASSUME NEW e \in Calls, ReadOldest(e) PROVE OldestInv(c)'
  BY <1>4, <1>1, <1>t DEF ReadOldest, Pending, TypeInv
<1>5. ASSUME NEW e \in Calls, PopNewest(e) PROVE OldestInv(c)'
  <2>1. /\ e # c /\ e \in Pending /\ now' = now /\ e \notin Denied
        /\ Pending' = Pending \ {e} /\ Denied' = Denied \cup {e}
    BY <1>5, <1>t DEF PopNewest, Pending, Denied, TypeInv
  <2>2. CASE members' = members
    BY <2>1, <2>2, <1>1
  <2>3. CASE members' # members
    <3>1. PICK m \in Stored : /\ \A n \in Stored : now[n] <= now[m]
                              /\ members' = members \ {m}
      BY <1>5, <2>3 DEF PopNewest
    <3>2. Stored = members /\ m \in members /\ \A n \in members : now[n] \in Int
      BY <3>1, <1>t, StoredIsMembers DEF TypeInv
    <3>3. (\A n \in members \ {c} : \E d \in Filling(c) : now[n] <= now[d])'
      <4>1. \A n \in members' \ {c} : \E d \in Filling(c)' : now[n] <= now[d]
        BY <3>1, <1>o, <1>k
      <4>. QED
        BY <4>1, <2>1
    <3>4. (c \in members => \/ members \ {c} # {}
                            \/ \E d \in Filling(c) : now[c] <= now[d])'
      <4>1. ASSUME c \in members', members' \ {c} = {}
            PROVE  \E d \in Filling(c)' : now[c] <= now[d]
        <5>1. c \in members /\ m # c /\ now[c] <= now[m]
          BY <3>1, <3>2, <4>1
        <5>2. PICK d \in Filling(c) : now[m] <= now[d]
          BY <5>1, <3>2, <1>o
        <5>3. now[d] \in Int /\ now[c] \in Int /\ now[m] \in Int
          BY <1>k, <1>t, <5>1, <3>2 DEF TypeInv, Counted
        <5>. QED
          BY <5>1, <5>2, <5>3, <1>k
      <4>. QED
        BY <4>1, <2>1
    <3>5. (Limit + 1 <= Cardinality(members) + Cardinality(beside[c] \cap Denied))'
      <4>1. Cardinality(members') = Cardinality(members) - 1
        BY <3>1, <3>2, <1>f, OneLess
      <4>2. (beside[c] \cap Denied)' = (beside[c] \cap Denied) \cup {e}
            /\ e \notin beside[c] \cap Denied
        BY <2>1, <1>k, <1>o
      <4>3. Cardinality((beside[c] \cap Denied)') = Cardinality(beside[c] \cap Denied) + 1
        BY <4>2, <1>f, OneMore
      <4>. QED
        BY <4>1, <4>3, <1>o, <1>f, <1>t
    <3>6. (Pending \ {c} \subseteq beside[c])'
      BY <2>1, <1>o, <1>k
    <3>. QED
      BY <3>3, <3>4, <3>5, <3>6 DEF OldestInv
  <2>. QED
    BY <2>2, <2>3
<1>6. ASSUME NEW e \in Calls, Crash(e) PROVE OldestInv(c)'
  BY <1>6, <1>1, <1>t DEF Crash, Pending, TypeInv
<1>7. CASE Tick
  BY <1>7, <1>1, Ticking DEF Tick
<1>8. CASE UNCHANGED vars
  BY <1>8, <1>1 DEF vars, Pending
<1>. QED
  BY <1>2, <1>3, <1>4, <1>5, <1>6, <1>7, <1>8 DEF Next

\* The answer a call works out from the oldest entry.
LEMMA AnswerIsRight ==
    ASSUME Inv, [Next]_vars, MaxLag <= Window, NEW c \in Calls, OldestInv(c), ReadOldest(c)
    PROVE  RetryIsRight(c)'
<1>t. /\ TypeInv /\ ClockInv /\ Window \in Nat /\ MaxLag \in Nat /\ Limit \in Nat \ {0}
      /\ TicksPerSecond \in Nat \ {0}
  BY WindowType, TimeAssumption, LimitAssumption DEF Inv
<1>1. /\ pc[c] = "over" /\ c \in Counted /\ now[c] \in Int /\ clock \in Nat
      /\ clock <= now[c] + MaxLag
      /\ now' = now /\ beside' = beside
      /\ \A n \in Stored : n \in members /\ now[n] \in Int /\ now[n] <= clock
  BY <1>t, StoredIsMembers DEF ReadOldest, Counted, TypeInv, ClockInv, InFlight
<1>2. Filling(c) \subseteq Filling(c)' /\ \A d \in Filling(c) : now[d] \in Int
  BY <1>1, <1>t, FillingGrows DEF Filling, TypeInv, Allowed, Lost
<1>3. ASSUME Alone(c)', Cardinality(beside[c]) <= Limit
      PROVE  /\ Stored # {}
             /\ \A oldest \in Stored : (\A n \in Stored : now[oldest] <= now[n]) =>
                    \E d \in Filling(c) : now[oldest] <= now[d]
  <2>1. /\ \A m \in members \ {c} : \E d \in Filling(c) : now[m] <= now[d]
        /\ c \in members => \/ members \ {c} # {}
                            \/ \E d \in Filling(c) : now[c] <= now[d]
        /\ Limit + 1 <= Cardinality(members) + Cardinality(beside[c] \cap Denied)
    BY <1>1, <1>3, AloneBefore DEF OldestInv
  <2>2. Cardinality(beside[c] \cap Denied) \in Nat /\ Cardinality(beside[c] \cap Denied) <= Limit
    <3>1. beside[c] \subseteq Counted
      BY <1>t DEF ClockInv
    <3>2. IsFiniteSet(beside[c]) /\ Cardinality(beside[c]) \in Nat
      BY <3>1, CountsAreFinite
    <3>3. Cardinality(beside[c] \cap Denied) \in Nat
          /\ Cardinality(beside[c] \cap Denied) <= Cardinality(beside[c])
      BY <3>2, PartsCount
    <3>. QED
      BY <3>2, <3>3, <1>3, <1>t
  <2>3. Stored = members
    <3>1. now[c] + Window + TicksPerSecond <= expiry /\ expiry \in Nat
      BY <1>1, <1>t DEF TypeInv, ClockInv
    <3>2. clock < expiry
      BY <3>1, <1>1, <1>t
    <3>. QED
      BY <3>2, <1>1, <3>1 DEF Stored
  <2>4. members # {}
    <3>1. Cardinality(members) # 0
      <4>1. Cardinality(members) \in Nat
        BY <1>t, CountsAreFinite DEF ClockInv
      <4>. QED
        BY <4>1, <2>1, <2>2, <1>t
    <3>. QED
      BY <3>1, FS_EmptySet
  <2>5. ASSUME NEW oldest \in Stored, \A n \in Stored : now[oldest] <= now[n]
        PROVE  \E d \in Filling(c) : now[oldest] <= now[d]
    <3>1. CASE oldest # c
      BY <3>1, <2>1, <2>3
    <3>2. CASE oldest = c /\ members \ {c} # {}
      <4>1. PICK m \in members \ {c} : TRUE
        BY <3>2
      <4>2. PICK d \in Filling(c) : now[m] <= now[d]
        BY <2>1
      <4>3. now[oldest] <= now[m] /\ now[oldest] \in Int /\ now[m] \in Int /\ now[d] \in Int
        BY <2>3, <2>5, <1>1, <1>2
      <4>. QED
        BY <4>2, <4>3
    <3>3. CASE oldest = c /\ members \ {c} = {}
      BY <3>3, <2>1, <2>3
    <3>. QED
      BY <3>1, <3>2, <3>3
  <2>. QED
    BY <2>3, <2>4, <2>5
<1>4. CASE Stored = {}
  <2>1. retry'[c] = WindowSeconds
    BY <1>4, <1>t DEF ReadOldest, TypeInv
  <2>2. retry'[c] \in 1 .. (Window + MaxLag) \div TicksPerSecond
    BY <2>1, <1>t, RetryAfterBounds
  <2>3. ~(Alone(c)' /\ Cardinality(beside[c]) <= Limit)
    BY <1>3, <1>4
  <2>. QED
    BY <2>2, <2>3, <1>1 DEF RetryIsRight, Window
<1>5. CASE Stored # {}
  <2>1. PICK oldest \in Stored : /\ \A n \in Stored : now[oldest] <= now[n]
                                 /\ retry'[c] = RetryAfter(c, oldest)
    BY <1>5, <1>t DEF ReadOldest, TypeInv
  <2>. DEFINE a == now[oldest] + Window - now[c]
  <2>2. a \in Int /\ a <= Window + MaxLag
    BY <2>1, <1>1, <1>t
  <2>3. retry'[c] = AtLeastOne(a \div TicksPerSecond)
    BY <2>1 DEF RetryAfter
  <2>4. /\ retry'[c] \in 1 .. (Window + MaxLag) \div TicksPerSecond
        /\ retry'[c] > 1 => retry'[c] * TicksPerSecond <= a
    BY <2>2, <2>3, RetryAfterBounds
  <2>5. ASSUME retry'[c] > 1, Alone(c)', Cardinality(beside[c]) <= Limit
        PROVE  \E d \in Filling(c)' : now'[c] + retry'[c] * TicksPerSecond <= now'[d] + Window
    <3>1. PICK d \in Filling(c) : now[oldest] <= now[d]
      BY <2>1, <2>5, <1>3
    <3>2. now[d] \in Int /\ now[oldest] \in Int /\ retry'[c] * TicksPerSecond \in Int
      <4>1. retry'[c] \in Int
        BY <1>t, StepInv DEF Inv, TypeInv
      <4>. QED
        BY <4>1, <1>1, <1>2, <1>t, <2>1
    <3>3. now[c] + retry'[c] * TicksPerSecond <= now[d] + Window
      BY <3>1, <3>2, <2>4, <2>5, <1>1, <1>t
    <3>. QED
      BY <3>1, <3>3, <1>1, <1>2
  <2>. QED
    BY <2>4, <2>5, <1>1 DEF RetryIsRight, Window
<1>. QED
  BY <1>4, <1>5

LEMMA RetryStep ==
    ASSUME MaxLag <= Window
    PROVE  Inv /\ FullInv /\ RetryInv /\ [Next]_vars => RetryInv'
<1>. SUFFICES ASSUME Inv, FullInv, RetryInv, [Next]_vars PROVE RetryInv'
  OBVIOUS
<1>t. TypeInv /\ TypeInv'
  BY StepInv DEF Inv
<1>1. ASSUME NEW c \in Calls PROVE OldestInv(c)'
  <2>1. CASE pc[c] = "over"
    BY <2>1, OldestStays DEF RetryInv
  <2>2. CASE pc[c] # "over" /\ pc'[c] = "over"
    <3>1. Pipeline(c) /\ Over(c)
      BY <2>2, <1>t DEF Next, vars, TypeInv, ReadClock, Pipeline, ReadOldest, PopNewest,
                        Crash, Tick
    <3>. QED
      BY <3>1, OldestAtFirst
  <2>3. CASE pc'[c] # "over"
    BY <2>3 DEF OldestInv
  <2>. QED
    BY <2>1, <2>2, <2>3
<1>2. ASSUME NEW c \in Calls, pc'[c] \in {"pop", "denied"} PROVE RetryIsRight(c)'
  <2>1. CASE pc[c] \in {"pop", "denied"}
    <3>1. c \in Counted /\ RetryIsRight(c)
      BY <2>1 DEF RetryInv, Counted
    <3>2. retry'[c] = retry[c]
      BY <2>1, <1>t DEF Next, vars, TypeInv, ReadClock, Pipeline, ReadOldest, PopNewest,
                        Crash, Tick
    <3>3. /\ now'[c] = now[c] /\ beside'[c] = beside[c]
          /\ Filling(c) \subseteq Filling(c)'
          /\ \A d \in Filling(c) : now'[d] = now[d]
      <4>1. Filling(c) \subseteq Counted
        BY WhoIsCounted DEF Filling, Inv, ClockInv
      <4>. QED
        BY <4>1, <3>1, CountedStays, FillingGrows
    <3>. QED
      BY <3>1, <3>2, <3>3, AloneBefore DEF RetryIsRight, Window
  <2>2. CASE pc[c] \notin {"pop", "denied"}
    <3>1. \A e \in Calls : ReadOldest(e) => e = c
      BY <1>2, <2>2, <1>t, Settling
    <3>2. \A e \in Calls : ~ReadClock(e) /\ ~Pipeline(e) /\ ~PopNewest(e) /\ ~Crash(e)
      BY <1>2, <2>2, <1>t DEF TypeInv, ReadClock, Pipeline, PopNewest, Crash
    <3>3. ~Tick /\ ~UNCHANGED vars
      BY <1>2, <2>2 DEF Tick, vars
    <3>4. ReadOldest(c)
      BY <3>1, <3>2, <3>3 DEF Next
    <3>. QED
      BY <3>4, AnswerIsRight DEF RetryInv
  <2>. QED
    BY <2>1, <2>2
<1>. QED
  BY <1>1, <1>2 DEF RetryInv

\* No client is kept away longer than the window and the longest a call takes,
\* nor, unless others took back what it was to read, past the moment a call that
\* filled its window leaves it: so long as a call takes no longer than the window.
THEOREM NoRetryIsLate ==
    ASSUME MaxLag <= Window
    PROVE  Spec => []RetryAfterIsNotLate
<1>1. Init => RetryInv
  BY EarlierAssumption DEF Init, RetryInv, OldestInv
<1>2. RetryInv => RetryAfterIsNotLate
  BY DEF RetryInv, RetryAfterIsNotLate, RetryIsRight, Alone, Filling, CountedBy, Denied
<1>. QED
  BY <1>1, <1>2, InitFull, FullStep, AlwaysInv, RetryStep, PTL DEF Spec
-----------------------------------------------------------------------------
\* The calls let in within the window that ends as c is let in.
LetInWithin(c) == {d \in Allowed : letIn[c] - Window < letIn[d] /\ letIn[d] <= letIn[c]}

\* Calls that end in the tick in which they begin, in whatever order their
\* commands run, never get more than Limit into any window: it takes a call that
\* is turned away slowly to displace the entry of a younger one.
THEOREM QuickCallsKeepTheLimit ==
    ASSUME MaxLag = 0
    PROVE  Spec => [](\A c \in Allowed : Cardinality(LetInWithin(c)) <= Limit)
<1>1. Inv /\ WindowNearlyHonoured => \A c \in Allowed : Cardinality(LetInWithin(c)) <= Limit
  <2>. SUFFICES ASSUME Inv, WindowNearlyHonoured, NEW c \in Allowed
                PROVE  Cardinality(LetInWithin(c)) <= Limit
    OBVIOUS
  <2>1. letIn[c] \in Int /\ now \in [Calls -> Int] /\ Window \in Nat /\ Allowed \subseteq Calls
    BY WindowType DEF Inv, TypeInv, Allowed
  <2>2. DisplacedBefore(c) = {}
    BY <2>1 DEF DisplacedBefore, Denied
  <2>3. LetInBefore(c) = LetInWithin(c)
    BY <2>1 DEF LetInBefore, LetInWithin
  <2>4. Cardinality(LetInBefore(c)) <= Limit + Cardinality(DisplacedBefore(c))
    BY DEF WindowNearlyHonoured, LetInBefore, DisplacedBefore
  <2>5. Cardinality({}) = 0
    BY FS_EmptySet
  <2>. QED BY <2>2, <2>3, <2>4, <2>5, LimitAssumption
<1>. QED BY <1>1, AlwaysInv, WindowsAreNearlyHonoured, PTL
=============================================================================
