---------------------------- MODULE TrackerAdmission --------------------------
(* Admission of Peers API connections to the tracker and its accounting per     *)
(* configured peer, while reloads change who is configured.  A connection reads *)
(* the registry, then the usage table, under no common lock.                    *)
EXTENDS Naturals, FiniteSets, Functions, Optional

CONSTANTS
    Callers,         \* authenticated tunnel keys
    Conns,           \* TCP connections, each of some caller
    MaxConnections,  \* MAX_CONNECTIONS_PER_PEER
    Burst,           \* REQUEST_BURST
    MaxReloads       \* bound: configuration reloads

ASSUME AdmissionAssumption ==
    IsFiniteSet(Conns) /\ MaxConnections \in Nat /\ Burst \in Nat /\ MaxReloads \in Nat

VARIABLES
    configured,      \* the keys of the published registry snapshot
    usage,           \* configured key -> [connections, tokens]
    conn,            \* connection -> [key, stage, seen]; seen: the snapshot it read
    reloads

admissionVars == <<configured, usage, conn, reloads>>

Idle == [key |-> None, stage |-> "none", seen |-> {}]
At(c, stage) == [conn EXCEPT ![c].stage = stage]
Live(k) == {c \in Conns : conn[c].key = k /\ conn[c].stage \in {"serving", "asking", "closing", "dropping"}}

NewUsage == [connections |-> 0, tokens |-> Burst]

\* usage.retain, and the caller's own entry.
Retained(seen, k) ==
    LET kept == {j \in DOMAIN usage : usage[j].connections # 0 \/ j \in seen}
    IN  [j \in kept \cup {k} |-> IF j \in DOMAIN usage THEN usage[j] ELSE NewUsage]

-------------------------------------------------------------------------------
(* serve_connection. *)
Arrives(c, k) ==
    /\ conn[c] = Idle
    /\ conn' = [conn EXCEPT ![c] = [key |-> k, stage |-> "upgrading", seen |-> {}]]
    /\ UNCHANGED <<configured, usage, reloads>>

\* The upgrade request fails to parse, or its caller has no record: rejected.
CheckCaller(c) ==
    /\ conn[c].stage = "upgrading"
    /\ \/ conn[c].key \in configured /\ conn' = At(c, "admitted")
       \/ conn' = [conn EXCEPT ![c] = Idle]
    /\ UNCHANGED <<configured, usage, reloads>>

\* open_connection reads the snapshot: a caller no longer in it gets a permit
\* that was never counted.
ReadSnapshot(c) ==
    /\ conn[c].stage = "admitted"
    /\ conn' = IF conn[c].key \in configured
               THEN [conn EXCEPT ![c].stage = "opening", ![c].seen = configured]
               ELSE At(c, "serving")
    /\ UNCHANGED <<configured, usage, reloads>>

\* ... and counts the connection, or refuses it at the limit.
CountConnection(c) ==
    /\ conn[c].stage = "opening"
    /\ LET k == conn[c].key
           kept == Retained(conn[c].seen, k)
       IN  IF kept[k].connections >= MaxConnections
           THEN usage' = kept /\ conn' = [conn EXCEPT ![c] = Idle]
           ELSE /\ usage' = [kept EXCEPT ![k].connections = @ + 1]
                /\ conn' = [conn EXCEPT ![c].stage = "serving", ![c].seen = {}]
    /\ UNCHANGED <<configured, reloads>>

\* allow_request, for a request of a live session, reads the snapshot ...
Request(c) ==
    /\ conn[c].stage = "serving" /\ conn[c].key \in configured
    /\ conn' = [conn EXCEPT ![c].stage = "asking", ![c].seen = configured]
    /\ UNCHANGED <<configured, usage, reloads>>

\* ... and takes a token, or refuses the request without one.
ChargeRequest(c) ==
    /\ conn[c].stage = "asking"
    /\ LET k == conn[c].key
           kept == Retained(conn[c].seen, k)
       IN  usage' = IF kept[k].tokens = 0 THEN kept ELSE [kept EXCEPT ![k].tokens = @ - 1]
    /\ conn' = [conn EXCEPT ![c].stage = "serving", ![c].seen = {}]
    /\ UNCHANGED <<configured, reloads>>

\* Time refills the budget of a key that has an entry.
Refill(k) ==
    /\ k \in DOMAIN usage /\ usage[k].tokens < Burst
    /\ usage' = [usage EXCEPT ![k].tokens = @ + 1]
    /\ UNCHANGED <<configured, conn, reloads>>

\* The session ends, the accept of the upgrade fails, or the caller was removed:
\* the permit is dropped, and close_connection reads the snapshot ...
EndConnection(c) ==
    /\ conn[c].stage = "serving"
    /\ conn' = At(c, IF conn[c].key \in configured THEN "closing" ELSE "dropping")
    /\ UNCHANGED <<configured, usage, reloads>>

\* Mutant: a caller that is not configured any more is not counted down.
ClosedIfConfigured(k, still) ==
    IF ~still \/ k \notin DOMAIN usage THEN usage
    ELSE [usage EXCEPT ![k].connections = IF @ = 0 THEN 0 ELSE @ - 1]

\* ... and takes the connection off the count; a key that is gone is forgotten.
Closed(k, still) ==
    IF k \notin DOMAIN usage THEN usage
    ELSE LET left == IF usage[k].connections = 0 THEN 0 ELSE usage[k].connections - 1
         IN  IF left = 0 /\ ~still THEN Restrict(usage, DOMAIN usage \ {k})
             ELSE [usage EXCEPT ![k].connections = left]

CloseConnection(c) ==
    /\ conn[c].stage \in {"closing", "dropping"}
    /\ usage' = Closed(conn[c].key, conn[c].stage = "closing")
    /\ conn' = [conn EXCEPT ![c] = Idle]
    /\ UNCHANGED <<configured, reloads>>

\* A reload publishes another registry.
Reload(keys) ==
    /\ reloads < MaxReloads /\ keys # configured
    /\ configured' = keys /\ reloads' = reloads + 1
    /\ UNCHANGED <<usage, conn>>

AdmissionInit ==
    /\ configured = Callers /\ usage = [k \in {} |-> NewUsage] /\ conn = [c \in Conns |-> Idle] /\ reloads = 0

AdmissionNext ==
    \/ \E c \in Conns :
          \/ \E k \in Callers : Arrives(c, k)
          \/ CheckCaller(c) \/ ReadSnapshot(c) \/ CountConnection(c)
          \/ Request(c) \/ ChargeRequest(c)
          \/ EndConnection(c) \/ CloseConnection(c)
    \/ \E k \in Callers : Refill(k)
    \/ \E keys \in SUBSET Callers : Reload(keys)

AdmissionSpec == AdmissionInit /\ [][AdmissionNext]_admissionVars

-------------------------------------------------------------------------------
(* No peer is locked out by connections it no longer has: the usage table never  *)
(* counts more connections for a key than hold a permit, whatever reloads come   *)
(* between admission, counting and closing, so a peer with fewer than the limit  *)
(* is never refused for it.                                                      *)
NeverLockedOut ==
    \A k \in DOMAIN usage : usage[k].connections <= Cardinality(Live(k))
===============================================================================
