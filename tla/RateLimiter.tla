------------------------------ MODULE RateLimiter ------------------------------
(* rate.rs: token buckets that are refilled when they are looked at, in a      *)
(* bounded table keyed by source, and the interval budget for evictions.  Time *)
(* is in the unit of the code's milliseconds; amounts that would saturate the  *)
(* integer types are not reached.                                              *)
EXTENDS Naturals, FiniteSets

CONSTANTS
    RateSources,    \* addresses: [v6, net, host]
    PerSec,         \* millitokens per millisecond
    CostMt,         \* COST_MT
    BurstOps,       \* operations in a full bucket
    MaxBuckets,     \* max_entries
    Interval,       \* interval_ms
    Burst,          \* of the interval budget
    MaxRateTime     \* bound: the last instant of a run

VARIABLES
    now,
    buckets,        \* key -> [millitokens, last], for the keys in the table
    available, lastRefill,      \* IntervalBudget
    ruling         \* the last answer: none, allowed, denied

rateVars == <<now, buckets, available, lastRefill, ruling>>

Least(a, b) == IF a <= b THEN a ELSE b

\* An IPv6 source counts by its /64.
KeyFromIp(a) == IF a.v6 THEN <<a.net>> ELSE <<a.net, a.host>>
SourceKeys == {KeyFromIp(a) : a \in RateSources}

CapacityMt == BurstOps * CostMt

ASSUME RateAssumption ==
    /\ PerSec \in Nat /\ CostMt \in Nat \ {0} /\ BurstOps \in Nat \ {0} /\ MaxBuckets \in Nat
    /\ Interval \in Nat \ {0} /\ Burst \in Nat \ {0} /\ MaxRateTime \in Nat
    /\ IsFiniteSet(SourceKeys)

FullBucket(t) == [millitokens |-> CapacityMt, last |-> t]

\* Mutant: the time since the last refill counts twice.
TokensTwice(b, t) == Least(b.millitokens + 2 * ((t - b.last) * PerSec), CapacityMt)

TokensAt(b, t) == Least(b.millitokens + (t - b.last) * PerSec, CapacityMt)
IsFull(b, t) == TokensAt(b, t) >= CapacityMt

\* TokenBucket::try_take: refilled to t, then charged if it covers the cost.
Covers(b, t) == TokensAt(b, t) >= CostMt
Taken(b, t) ==
    [millitokens |-> IF Covers(b, t) THEN TokensAt(b, t) - CostMt ELSE TokensAt(b, t), last |-> t]

\* collect: buckets that have refilled are dropped.
Kept(t) == {k \in DOMAIN buckets : ~IsFull(buckets[k], t)}

Answer(ok) == ruling' = IF ok THEN "allowed" ELSE "denied"

\* allow, for a source in the table.
AllowKnown(k) ==
    /\ k \in DOMAIN buckets
    /\ buckets' = [buckets EXCEPT ![k] = Taken(@, now)]
    /\ Answer(Covers(buckets[k], now))
    /\ UNCHANGED <<now, available, lastRefill>>

\* allow, for a new source: refilled buckets are reclaimed only when there is
\* no room, and the source is refused when there is none even then.
AllowNew(k) ==
    LET full == Cardinality(DOMAIN buckets) >= MaxBuckets
        kept == IF full THEN Kept(now) ELSE DOMAIN buckets
        room == Cardinality(kept) < MaxBuckets
    IN  /\ k \notin DOMAIN buckets
        /\ buckets' = [j \in kept \cup (IF room THEN {k} ELSE {}) |->
                          IF j = k THEN Taken(FullBucket(now), now) ELSE buckets[j]]
        /\ Answer(room /\ Covers(FullBucket(now), now))
        /\ UNCHANGED <<now, available, lastRefill>>

\* IntervalBudget::try_take_many.
TryTakeMany(n) ==
    LET refills == (now - lastRefill) \div Interval
        filled == IF refills = 0 THEN available ELSE Least(available + refills, Burst)
    IN  /\ IF n > Burst THEN UNCHANGED <<available, lastRefill>> /\ Answer(FALSE)
           ELSE /\ lastRefill' = lastRefill + refills * Interval
                /\ available' = IF filled < n THEN filled ELSE filled - n
                /\ Answer(filled >= n)
        /\ UNCHANGED <<now, buckets>>

RateTick ==
    /\ now < MaxRateTime /\ now' = now + 1
    /\ ruling' = "none" /\ UNCHANGED <<buckets, available, lastRefill>>

RateInit ==
    /\ now = 0 /\ buckets = [k \in {} |-> FullBucket(0)]
    /\ available = Burst /\ lastRefill = 0 /\ ruling = "none"

RateNext ==
    \/ RateTick
    \/ \E k \in SourceKeys : AllowKnown(k) \/ AllowNew(k)
    \/ \E n \in 1..(Burst + 1) : TryTakeMany(n)

RateSpec == RateInit /\ [][RateNext]_rateVars

-------------------------------------------------------------------------------
\* Looking at a budget late gives what watching it all the time would have
\* given: lazy refills, the table that forgets full buckets and the interval
\* budget grant and refuse exactly what Budgets does (tokens_at, collect,
\* try_take_many).
LazyTokens == [k \in SourceKeys |-> IF k \in DOMAIN buckets THEN TokensAt(buckets[k], now) ELSE CapacityMt]
LazyEvictions == Least(available + (now - lastRefill) \div Interval, Burst)
Eager == INSTANCE Budgets WITH tokens <- LazyTokens, evictions <- LazyEvictions
ImplementsBudgets == Eager!BudgetsSpec
===============================================================================
