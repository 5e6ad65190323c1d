------------------------------ MODULE AntiReplay ------------------------------
(* What a replay filter promises the transport receive path: a counter is    *)
(* accepted exactly when it was never accepted before and lies no more than  *)
(* Window behind the highest counter accepted so far.  The state is the set  *)
(* of counters accepted; nothing is said of how it is stored.                *)
EXTENDS Integers

CONSTANTS Counters, Window

VARIABLES
    accepted,   \* the counters accepted so far
    verdict     \* the last counter judged and whether it was accepted

vars == <<accepted, verdict>>

Fresh(c) == c \notin accepted /\ \A a \in accepted : a - c <= Window

Init ==
    /\ accepted = {}
    /\ verdict = <<>>

Judge(c) ==
    /\ verdict' = <<c, Fresh(c)>>
    /\ accepted' = IF Fresh(c) THEN accepted \cup {c} ELSE accepted

Next == \E c \in Counters : Judge(c)

Spec == Init /\ [][Next]_vars
===============================================================================
