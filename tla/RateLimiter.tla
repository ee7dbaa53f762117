---------------------------- MODULE RateLimiter ----------------------------
(***************************************************************************)
(* check_rate_limit, the sliding-window counter of backend/app/core/       *)
(* redis.py, for the calls that share one key.                             *)
(*                                                                         *)
(* A call reads its own clock, then runs one Redis transaction that trims  *)
(* the sorted set, counts it and adds the call to it.  Over the limit, two *)
(* more commands follow, each a round trip of its own: read the oldest     *)
(* score, and pop the newest member.  Between them other calls run.        *)
(*                                                                         *)
(* Time is counted in ticks, of which TicksPerSecond make a second, and    *)
(* all processes read one clock.  A member of the set is named by the call *)
(* that added it.                                                          *)
(***************************************************************************)
EXTENDS Integers, FiniteSets

CONSTANTS Calls,          \* the calls clients will make, each at most once
          Earlier,        \* those that are let in as the model starts
          Limit,          \* calls allowed ...
          WindowSeconds,  \* ... in any window of this many seconds
          TicksPerSecond,
          MaxClock,       \* bound on the clock
          MaxLag          \* bound on the ticks a call takes from start to end

ASSUME LimitAssumption == Limit \in Nat \ {0}

ASSUME EarlierAssumption ==
    Earlier \subseteq Calls /\ IsFiniteSet(Earlier) /\ Cardinality(Earlier) <= Limit

ASSUME TimeAssumption ==
    /\ WindowSeconds \in Nat \ {0} /\ TicksPerSecond \in Nat \ {0}
    /\ MaxClock \in Nat /\ MaxLag \in Nat

VARIABLES
    clock,
    members, \* the sorted set stored under the key
    expiry,  \* when the key expires
    now,     \* each call's reading of the clock: its score in the set
    retry,   \* the retry_after each call has worked out, in seconds
    pc,
    letIn,   \* history: when each call was let in
    beside   \* history: the calls being turned away when each one counted

vars == <<clock, members, expiry, now, retry, pc, letIn, beside>>

Window == WindowSeconds * TicksPerSecond

Unread == -1

InFlight == {"read", "over", "pop"}

Init ==
    /\ clock = 0
    /\ members = Earlier
    /\ expiry = IF Earlier = {} THEN 0 ELSE Window + TicksPerSecond
    /\ now = [c \in Calls |-> IF c \in Earlier THEN 0 ELSE Unread]
    /\ retry = [c \in Calls |-> 0]
    /\ pc = [c \in Calls |-> IF c \in Earlier THEN "allowed" ELSE "idle"]
    /\ letIn = [c \in Calls |-> IF c \in Earlier THEN 0 ELSE Unread]
    /\ beside = [c \in Calls |-> {}]

\* Calls that are in the set, or were, without having been let in.
Pending == {c \in Calls : pc[c] \in {"over", "pop"}}

\* now = time.time()
ReadClock(c) ==
    /\ pc[c] = "idle"
    /\ now' = [now EXCEPT ![c] = clock]
    /\ pc' = [pc EXCEPT ![c] = "read"]
    /\ UNCHANGED <<clock, members, expiry, retry, letIn, beside>>

\* What Redis finds under the key: nothing once it has expired.
Stored == IF clock >= expiry THEN {} ELSE members

\* Slip: the bound of the trim is taken to be exclusive.
RecentInclusive(c) == {m \in Stored : now[m] >= now[c] - Window}

\* What ZREMRANGEBYSCORE 0 (now - window) leaves; its bounds are inclusive.
Recent(c) == {m \in Stored : now[m] > now[c] - Window}

\* Slip: the count is taken to include the call itself.
OverWithItself(c) == Cardinality(Recent(c)) > Limit

\* count_before_add >= limit
Over(c) == Cardinality(Recent(c)) >= Limit

\* EXPIRE key (window_seconds + 1)
KeyExpiry == clock + Window + TicksPerSecond

\* The pipeline: trim, count, add, and push the key's expiry back.
Pipeline(c) ==
    /\ pc[c] = "read"
    /\ members' = Recent(c) \cup {c}
    /\ expiry' = KeyExpiry
    /\ beside' = [beside EXCEPT ![c] = Pending]
    /\ \/ /\ Over(c)
          /\ pc' = [pc EXCEPT ![c] = "over"]
          /\ UNCHANGED letIn
       \/ /\ ~Over(c)
          /\ pc' = [pc EXCEPT ![c] = "allowed"]
          /\ letIn' = [letIn EXCEPT ![c] = clock]
    /\ UNCHANGED <<clock, now, retry>>

AtLeastOne(n) == IF n < 1 THEN 1 ELSE n

\* int() drops the fraction of a second.
RetryAfter(c, oldest) ==
    AtLeastOne((now[oldest] + Window - now[c]) \div TicksPerSecond)

\* Slip: the wrong end of the set is read.
ReadNewest(c) ==
    /\ pc[c] = "over"
    /\ \/ /\ Stored = {}
          /\ retry' = [retry EXCEPT ![c] = WindowSeconds]
       \/ \E newest \in Stored :
             /\ \A m \in Stored : now[m] <= now[newest]
             /\ retry' = [retry EXCEPT ![c] = RetryAfter(c, newest)]
    /\ pc' = [pc EXCEPT ![c] = "pop"]
    /\ UNCHANGED <<clock, members, expiry, now, letIn, beside>>

\* ZRANGE key 0 0: the oldest entry, if there is one, sets retry_after.
ReadOldest(c) ==
    /\ pc[c] = "over"
    /\ \/ /\ Stored = {}
          /\ retry' = [retry EXCEPT ![c] = WindowSeconds]
       \/ \E oldest \in Stored :
             /\ \A m \in Stored : now[oldest] <= now[m]
             /\ retry' = [retry EXCEPT ![c] = RetryAfter(c, oldest)]
    /\ pc' = [pc EXCEPT ![c] = "pop"]
    /\ UNCHANGED <<clock, members, expiry, now, letIn, beside>>

\* Slip: a call that is turned away stays in the set.
LeaveIt(c) ==
    /\ pc[c] = "pop"
    /\ pc' = [pc EXCEPT ![c] = "denied"]
    /\ UNCHANGED <<clock, members, expiry, now, retry, letIn, beside>>

\* ZPOPMAX: the newest entry goes, whoever added it.
PopNewest(c) ==
    /\ pc[c] = "pop"
    /\ \/ Stored = {} /\ UNCHANGED members
       \/ \E newest \in Stored :
             /\ \A m \in Stored : now[m] <= now[newest]
             /\ members' = members \ {newest}
    /\ pc' = [pc EXCEPT ![c] = "denied"]
    /\ UNCHANGED <<clock, expiry, now, retry, letIn, beside>>

\* The process or its connection to Redis dies before the entry is taken back.
Crash(c) ==
    /\ pc[c] \in {"over", "pop"}
    /\ pc' = [pc EXCEPT ![c] = "lost"]
    /\ UNCHANGED <<clock, members, expiry, now, retry, letIn, beside>>

\* No call in flight is older than MaxLag.
Tick ==
    /\ clock < MaxClock
    /\ \A c \in Calls : pc[c] \in InFlight => clock - now[c] < MaxLag
    /\ clock' = clock + 1
    /\ UNCHANGED <<members, expiry, now, retry, pc, letIn, beside>>

Next ==
    \/ \E c \in Calls :
          \/ ReadClock(c) \/ Pipeline(c) \/ ReadOldest(c) \/ PopNewest(c) \/ Crash(c)
    \/ Tick

Spec == Init /\ [][Next]_vars
-----------------------------------------------------------------------------
Allowed == {c \in Calls : pc[c] = "allowed"}

Denied == {c \in Calls : pc[c] = "denied"}

Lost == {c \in Calls : pc[c] = "lost"}

(***************************************************************************)
(* A caller who hammers the endpoint cannot make the key grow: what is in  *)
(* it beyond the limit is calls being turned away, or that died meanwhile. *)
(***************************************************************************)
KeyStaysSmall ==
    Cardinality(Stored) <= Limit + Cardinality(Pending \cup Lost)

(***************************************************************************)
(* However calls overlap, no window shortened by the longest a call takes  *)
(* sees more than Limit calls let in ("a fixed-window counter would let a  *)
(* caller burst 2x the limit across a window boundary"), but for one more  *)
(* for each call that was being turned away as the full window began.  A   *)
(* call turned away may pop the entry of a younger one and leave its own   *)
(* in its place, which the window then forgets too early.                  *)
(***************************************************************************)
WindowNearlyHonoured ==
    \A c \in Allowed :
        Cardinality({d \in Allowed : /\ letIn[c] - (Window - MaxLag) < letIn[d]
                                    /\ letIn[d] <= letIn[c]})
            <= Limit + Cardinality({d \in Denied :
                                       /\ letIn[c] - Window - MaxLag < now[d]
                                       /\ now[d] <= letIn[c] - Window})

\* The calls of a set whose reading of the clock c's transaction can have counted.
CountedBy(S, c) == {d \in S : now[c] - Window < now[d] /\ now[d] <= now[c] + MaxLag}

(***************************************************************************)
(* A call is turned away only because Limit calls were let in, died half   *)
(* way or were being turned away themselves within the window: calls that  *)
(* have been turned away do not count ("undo our own insertion so a caller *)
(* hammering the endpoint does not keep pushing their own reset time       *)
(* forward").                                                              *)
(***************************************************************************)
DeniedOnlyWhenFull ==
    \A c \in Denied :
        Cardinality(CountedBy(Allowed \cup Lost \cup beside[c], c)) >= Limit

(***************************************************************************)
(* A client told to come back after retry_after seconds is not kept away   *)
(* longer than the window and the longest a call takes.  Unless a later    *)
(* call came while it was being turned away (and may have trimmed what it  *)
(* was about to read), or more than Limit others were being turned away    *)
(* (and may have popped all there was), nor is it kept away, but for the   *)
(* least answer of one second, past the moment one of the calls that       *)
(* filled the window leaves it.                                            *)
(***************************************************************************)
RetryAfterIsNotLate ==
    \A c \in Denied :
        /\ retry[c] \in 1 .. (Window + MaxLag) \div TicksPerSecond
        /\ retry[c] > 1 /\ (\A d \in Calls : c \notin beside[d])
                /\ Cardinality(beside[c]) <= Limit =>
               \E d \in CountedBy(Allowed \cup Lost \cup beside[c], c) :
                  now[c] + retry[c] * TicksPerSecond <= now[d] + Window
=============================================================================
