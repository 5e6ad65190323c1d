-------------------------------- MODULE Budgets --------------------------------
(* What rate.rs promises.  Every source has its own budget, which grows with   *)
(* every millisecond up to a full burst, and the engine has one budget of      *)
(* evictions, which grows by one at every full interval.  A request is granted *)
(* when its budget covers it; a source without history is refused when as many *)
(* others as the table has entries are still short of their burst.             *)
EXTENDS Naturals, FiniteSets

CONSTANTS SourceKeys, PerSec, CapacityMt, CostMt, MaxBuckets, Interval, Burst, MaxRateTime

VARIABLES now, tokens, evictions, ruling

Least(a, b) == IF a <= b THEN a ELSE b

BudgetsInit ==
    /\ now = 0 /\ tokens = [k \in SourceKeys |-> CapacityMt]
    /\ evictions = Burst /\ ruling = "none"

Grow ==
    /\ now < MaxRateTime /\ now' = now + 1
    /\ tokens' = [k \in SourceKeys |-> Least(tokens[k] + PerSec, CapacityMt)]
    /\ evictions' = IF (now + 1) % Interval = 0 THEN Least(evictions + 1, Burst) ELSE evictions
    /\ ruling' = "none"

\* No room for a source that has not been seen lately.
Crowded(k) ==
    /\ tokens[k] = CapacityMt
    /\ Cardinality({j \in SourceKeys : tokens[j] < CapacityMt}) >= MaxBuckets

Charge(k) ==
    /\ \/ /\ tokens[k] >= CostMt /\ ~Crowded(k) /\ ruling' = "allowed"
          /\ tokens' = [tokens EXCEPT ![k] = @ - CostMt]
       \/ /\ (tokens[k] < CostMt \/ Crowded(k)) /\ ruling' = "denied"
          /\ UNCHANGED tokens
    /\ UNCHANGED <<now, evictions>>

Spend(n) ==
    /\ \/ evictions >= n /\ ruling' = "allowed" /\ evictions' = evictions - n
       \/ evictions < n /\ ruling' = "denied" /\ UNCHANGED evictions
    /\ UNCHANGED <<now, tokens>>

BudgetsNext == Grow \/ (\E k \in SourceKeys : Charge(k)) \/ (\E n \in 1..(Burst + 1) : Spend(n))

BudgetsSpec == BudgetsInit /\ [][BudgetsNext]_<<now, tokens, evictions, ruling>>
===============================================================================
