------------------------------- MODULE Resolver -------------------------------
(* The engine's side of peer resolution: the table of lookups in flight and  *)
(* of negative markers, what is parked behind a lookup, the dynamic peers    *)
(* the answers install, and the reconciliations the engine still owes.  The  *)
(* resolver itself is external: it answers any request, at any time.         *)
(* Deadlines are a flag that time may set on anything that has one.          *)
EXTENDS FiniteSets, Naturals, Optional

CONSTANTS
    Keys,           \* static keys of dynamic peers
    Addrs,          \* inner destination addresses; a record owns one of them
    Ids,            \* request identifiers; one is reused only when unreferenced
    MaxPeers,       \* dynamic entries of the peer table, and reconcile backlog
    DynamicRoutes,  \* routes left to dynamic peers; each held record takes one
    LazyReserve,    \* entries only an authenticated initiator may take
    MaxInflight,    \* capacity of the resolve table
    MaxInitiations  \* capacity of the pool of parked initiations

ASSUME BoundsAssumption ==
    /\ MaxPeers \in Nat \ {0} /\ DynamicRoutes \in Nat /\ MaxInflight \in Nat \ {0}
    /\ LazyReserve \in 0..MaxPeers /\ MaxInitiations \in Nat
ASSUME ResolverNoneAssumption == None \notin Keys \cup Addrs \cup Ids

VARIABLES
    core,       \* the engine's tables
    requests    \* lookups handed to the resolver and not yet answered

resolverVars == <<core, requests>>

ByKey(k) == <<"key", k>>
ByAddr(a) == <<"addr", a>>
Queries == {ByKey(k) : k \in Keys} \cup {ByAddr(a) : a \in Addrs}

LookupKinds == {"Outbound", "InstallAuth", "InstallRelay", "Reconcile"}
EntryType == [id : Ids \cup {None}, query : Queries, kind : LookupKinds \cup {"Negative"},
              due : BOOLEAN, emitted : BOOLEAN]

CoreType ==
    [peers : [Keys -> Addrs \cup {None}],   \* the address each held key owns
     resolves : SUBSET EntryType,
     waiting : SUBSET Ids,                  \* lookups with packets parked behind them
     initiations : SUBSET [id : Ids, key : Keys],
     reconciles : [Keys -> {"none", "waiting", "due"}],
     ghosts : SUBSET Keys]                  \* keys evicted for capacity, suppressed

\* The resolve table, the pool of initiations and the reconcile backlog stay
\* within their capacity, and the peer table too.
ResolverTypeOK ==
    /\ core \in CoreType
    /\ requests \subseteq [id : Ids, query : Queries]
    /\ Cardinality(core.resolves) <= MaxInflight
    /\ Cardinality(core.initiations) <= MaxInitiations
    /\ Cardinality({k \in Keys : core.reconciles[k] # "none"}) <= MaxPeers
    /\ Cardinality({k \in Keys : core.peers[k] # None}) <= MaxPeers

-------------------------------------------------------------------------------
(* The resolve table.                                                        *)

Held(c) == {k \in Keys : c.peers[k] # None}
Routed(c, a) == \E k \in Keys : c.peers[k] = a

LiveLookups(c, q) == {r \in c.resolves : r.query = q /\ r.kind # "Negative"}

\* resolve_suppressed: an expired marker no longer suppresses.
Suppressed(c, q) ==
    \E r \in c.resolves : r.query = q /\ (r.kind = "Negative" => ~r.due)

FreshIds(c) ==
    Ids \ ({r.id : r \in c.resolves} \cup {r.id : r \in requests}
             \cup c.waiting \cup {p.id : p \in c.initiations})

Entry(id, q, kind) ==
    [id |-> id, query |-> q, kind |-> kind, due |-> FALSE, emitted |-> FALSE]

\* push_resolve: a negative marker gives way when the table is full.  The empty
\* set means the table is busy.
Pushed(c, entry) ==
    IF Cardinality(c.resolves) < MaxInflight
    THEN {[c EXCEPT !.resolves = @ \cup {entry}]}
    ELSE {[c EXCEPT !.resolves = (@ \ {n}) \cup {entry}] :
            n \in {r \in c.resolves : r.kind = "Negative"}}

\* mark_negative: every entry for the query makes way for the marker, which is
\* itself skipped when the table is full.
MarkNegative(c, q) ==
    LET others == {r \in c.resolves : r.query # q}
        marker == [Entry(None, q, "Negative") EXCEPT !.emitted = TRUE]
    IN  [c EXCEPT !.resolves =
           IF Cardinality(others) < MaxInflight THEN others \cup {marker} ELSE others]

ClearNegative(c, q) ==
    [c EXCEPT !.resolves = {r \in @ : ~(r.kind = "Negative" /\ r.query = q)}]

DropWaiting(c, id) == [c EXCEPT !.waiting = @ \ {id}]

-------------------------------------------------------------------------------
(* Reconciliation of held records.                                           *)

\* queue_reconcile: an obligation already recorded keeps its due time; a new
\* one is dropped when the backlog is full.
QueueReconcile(c, k) ==
    LET backlog == {l \in Keys : c.reconciles[l] # "none"}
    IN  IF c.reconciles[k] = "none" /\ Cardinality(backlog) < MaxPeers
        THEN [c EXCEPT !.reconciles[k] = "waiting"] ELSE c

ForgetReconcile(c, k) == [c EXCEPT !.reconciles[k] = "none"]

\* apply_held_answer, for an update pushed by the resolver and for the answer
\* to a Reconcile lookup.  "Refused" is a positive answer that fails the checks
\* or cannot be installed.
HeldAnswer(c, k, outcome, a) ==
    IF k \notin Held(c) THEN ForgetReconcile(c, k)
    ELSE CASE outcome = "Found" ->
                ClearNegative(ForgetReconcile([c EXCEPT !.peers[k] = a], k), ByKey(k))
           [] outcome = "NotFound" ->
                MarkNegative(ForgetReconcile([c EXCEPT !.peers[k] = None], k), ByKey(k))
           [] OTHER -> QueueReconcile(c, k)

-------------------------------------------------------------------------------
(* Installing the record of a key that is not held (upsert_peer_unchecked).  *)

\* Mutant: a lazy admission may take a reserved entry.
FitsWithoutReserve(c, admission) == Cardinality(Held(c)) < MaxPeers

\* A free entry above the reserve, or any free entry for an authenticated
\* initiator, and a free route.
Fits(c, admission) ==
    LET used == Cardinality(Held(c))
    IN  /\ used < DynamicRoutes
        /\ used < MaxPeers
        /\ admission = "Auth" \/ MaxPeers - used > LazyReserve

\* Else the entry and the route of an idle peer, which is remembered as a ghost;
\* a relay destination evicts nobody.  Which peers are idle, and whether the
\* eviction budget allows one, is left open.
Admissible(c, k, a, admission) ==
    IF Fits(c, admission) THEN {[c EXCEPT !.peers[k] = a]}
    ELSE IF admission = "Relay" THEN {}
    ELSE {[c EXCEPT !.peers = [@ EXCEPT ![v] = None, ![k] = a],
                    !.ghosts = @ \cup {v}] : v \in Held(c)}

\* The empty set is a refusal.
Admit(c, k, a, admission) ==
    IF k \in c.ghosts THEN {} ELSE Admissible(c, k, a, admission)

\* The tables after a positive answer naming key k and address a: refused, or
\* the record is installed or replaced.
Installed(c, k, a, admission) ==
    IF k \in Held(c) THEN {[c EXCEPT !.peers[k] = a]} ELSE Admit(c, k, a, admission)

Without(c, r) == [c EXCEPT !.resolves = @ \ {r}]

\* resolved_outbound: packets leave their lookup whatever the answer is.  When
\* no route could be made the address is marked negative.
ResolvedOutbound(c, r, outcome, k, a) ==
    LET done == DropWaiting(c, r.id)
    IN  CASE outcome = "Found" /\ ByAddr(a) = r.query ->
               {done, MarkNegative(done, r.query)}
                 \cup {ClearNegative(u, r.query) : u \in Installed(done, k, a, "Outbound")}
          [] outcome = "NotFound" -> {MarkNegative(done, r.query)}
          [] OTHER -> {done}

\* resolved_install: the parked initiation is taken first, so that every
\* outcome releases it.
ResolvedInstall(c, r, outcome, k, a) ==
    LET done == IF r.kind = "InstallAuth"
                THEN [c EXCEPT !.initiations = {p \in @ : p.id # r.id}] ELSE c
        admission == IF r.kind = "InstallAuth" THEN "Auth" ELSE "Relay"
    IN  CASE outcome = "Found" /\ ByKey(k) = r.query ->
               {done} \cup {ClearNegative(u, r.query) : u \in Installed(done, k, a, admission)}
          [] outcome = "NotFound" -> {MarkNegative(done, r.query)}
          [] OTHER -> {done}

-------------------------------------------------------------------------------
(* The stimuli.  Each ends with flush_sink_output: the requests not yet      *)
(* emitted go to the resolver, unless its queue is full.                     *)

Commit(c, unanswered) ==
    LET fresh == {r \in c.resolves : ~r.emitted}
    IN  \/ /\ core' = [c EXCEPT !.resolves =
                         {[r EXCEPT !.emitted = TRUE] : r \in @}]
           /\ requests' = unanswered \cup {[id |-> r.id, query |-> r.query] : r \in fresh}
        \/ /\ fresh # {}
           /\ core' = c
           /\ requests' = unanswered

ResolverInit ==
    /\ core = [peers |-> [k \in Keys |-> None], resolves |-> {}, waiting |-> {},
               initiations |-> {}, reconciles |-> [k \in Keys |-> "none"], ghosts |-> {}]
    /\ requests = {}

\* queue_outbound_resolution: a packet without a route.  A live marker drops
\* it, an expired one is reused in place, a lookup in flight is shared.
SendUnrouted(a) ==
    /\ ~Routed(core, a)
    /\ LET known == {r \in core.resolves : r.query = ByAddr(a)}
           Parked(c, id) == [c EXCEPT !.waiting = @ \cup {id}]
       IN  \/ \E r \in known :
                \/ r.kind # "Negative" /\ Commit(Parked(core, r.id), requests)
                \/ /\ r.kind = "Negative" /\ r.due
                   /\ \E id \in FreshIds(core) :
                        Commit(Parked([core EXCEPT !.resolves =
                          (@ \ {r}) \cup {Entry(id, ByAddr(a), "Outbound")}], id), requests)
           \/ /\ known = {}
              /\ \E id \in FreshIds(core) :
                   \E c \in Pushed(core, Entry(id, ByAddr(a), "Outbound")) :
                     Commit(Parked(c, id), requests)

\* authenticated_initiator_resolve_id
InitiatorLookup(c, k) == {r \in LiveLookups(c, ByKey(k)) : r.kind = "InstallAuth" /\ ~r.due}

Park(c, id, k) ==
    IF Cardinality(c.initiations) < MaxInitiations
    THEN [c EXCEPT !.initiations = @ \cup {[id |-> id, key |-> k]}] ELSE c

\* rx_initiation from a key that is not held: a retransmission refreshes what is
\* parked behind its own lookup, anything else in flight suppresses it.
RxUnknownInitiation(k) ==
    /\ k \notin Held(core)
    /\ \/ \E r \in InitiatorLookup(core, k) : Commit(Park(core, r.id, k), requests)
       \/ /\ ~Suppressed(core, ByKey(k)) /\ k \notin core.ghosts
          /\ \E id \in FreshIds(core) :
               \E c \in Pushed(core, Entry(id, ByKey(k), "InstallAuth")) :
                 Commit(Park(c, id, k), requests)

\* request_relay_peer_install
RxRelayDestination(k) ==
    /\ k \notin Held(core) /\ k \notin core.ghosts
    /\ ~Suppressed(core, ByKey(k))
    /\ MaxPeers - Cardinality(Held(core)) > LazyReserve
    /\ \E id \in FreshIds(core) :
         \E c \in Pushed(core, Entry(id, ByKey(k), "InstallRelay")) : Commit(c, requests)

Outcomes == {"Found", "Refused", "NotFound", "Failed"}

\* resolved: an answer whose lookup is gone is ignored.
Resolved(request, outcome, k, a) ==
    /\ request \in requests
    /\ LET unanswered == requests \ {request}
           entry == {r \in core.resolves : r.id = request.id}
       IN  \/ /\ entry = {}
              /\ Commit(core, unanswered)
           \/ \E r \in entry :
                LET c == Without(core, r)
                IN  CASE r.kind = "Outbound" ->
                           \E u \in ResolvedOutbound(c, r, outcome, k, a) : Commit(u, unanswered)
                      [] r.kind \in {"InstallAuth", "InstallRelay"} ->
                           \E u \in ResolvedInstall(c, r, outcome, k, a) : Commit(u, unanswered)
                      [] r.kind = "Reconcile" ->
                           /\ r.query = ByKey(k)
                           /\ Commit(HeldAnswer(c, k, outcome, a), unanswered)

\* peer_updated: the resolver reconciled a record on its own.
PeerUpdated(k, outcome, a) == Commit(HeldAnswer(core, k, outcome, a), requests)

-------------------------------------------------------------------------------
(* Timers.                                                                   *)

\* Mutant: entries that park nothing are not swept.
ExpireResolveParkedOnly(r) ==
    /\ r \in core.resolves /\ r.due /\ r.kind \in {"Outbound", "InstallAuth"}
    /\ Commit(DropWaiting(Without(core, r), r.id), requests)

\* Mutant: the packets parked behind an expired lookup are left behind.
ExpireResolveKeepsPackets(r) ==
    /\ r \in core.resolves /\ r.due
    /\ Commit(Without(core, r), requests)

\* expire_one_resolve: unwind what is parked behind the entry.
ExpireResolve(r) ==
    /\ r \in core.resolves /\ r.due
    /\ LET c == Without(core, r)
           unwound ==
             CASE r.kind = "Outbound" -> DropWaiting(c, r.id)
               [] r.kind = "InstallAuth" ->
                    [c EXCEPT !.initiations = {p \in @ : p.id # r.id}]
               [] r.kind = "Reconcile" /\ r.query[2] \in Held(c) ->
                    QueueReconcile(c, r.query[2])
               [] OTHER -> c
       IN  Commit(unwound, requests)

\* promote_due_reconcile: drop the obligation of a key no longer held, defer it
\* behind a lookup or marker for the same key or a full table, else ask.
PromoteReconcile(k) ==
    /\ core.reconciles[k] = "due"
    /\ IF k \notin Held(core) THEN Commit(ForgetReconcile(core, k), requests)
       ELSE IF Suppressed(core, ByKey(k))
       THEN Commit([core EXCEPT !.reconciles[k] = "waiting"], requests)
       ELSE \E id \in FreshIds(core) :
              LET asked == Pushed(core, Entry(id, ByKey(k), "Reconcile"))
              IN  IF asked = {} THEN Commit([core EXCEPT !.reconciles[k] = "waiting"], requests)
                  ELSE \E c \in asked : Commit(ForgetReconcile(c, k), requests)

\* pending.expire_one, or a packet pushed out of the full pool
ParkedPacketExpires ==
    /\ \E id \in core.waiting : core' = DropWaiting(core, id)
    /\ UNCHANGED requests

\* Time passes a deadline.
LapseResolve(r) ==
    /\ r \in core.resolves /\ ~r.due
    /\ core' = [core EXCEPT !.resolves = (@ \ {r}) \cup {[r EXCEPT !.due = TRUE]}]
    /\ UNCHANGED requests

LapseReconcile(k) ==
    /\ core.reconciles[k] = "waiting"
    /\ core' = [core EXCEPT !.reconciles[k] = "due"]
    /\ UNCHANGED requests

LapseGhost(k) ==
    /\ k \in core.ghosts
    /\ core' = [core EXCEPT !.ghosts = @ \ {k}]
    /\ UNCHANGED requests

ResolverNext ==
    \/ \E a \in Addrs : SendUnrouted(a)
    \/ \E k \in Keys : RxUnknownInitiation(k) \/ RxRelayDestination(k) \/ PromoteReconcile(k)
                      \/ LapseReconcile(k) \/ LapseGhost(k)
    \/ \E outcome \in Outcomes, k \in Keys, a \in Addrs :
         PeerUpdated(k, outcome, a) \/ \E request \in requests : Resolved(request, outcome, k, a)
    \/ \E r \in core.resolves : LapseResolve(r) \/ ExpireResolve(r)
    \/ ParkedPacketExpires

ResolverSpec == ResolverInit /\ [][ResolverNext]_resolverVars

\* Time passes, and the runner services the engine's timer when it is due: that
\* much holds of a lookup even if its answer never comes.
ResolverFairness ==
    \A id \in Ids :
      /\ WF_resolverVars(\E r \in core.resolves : r.id = id /\ LapseResolve(r))
      /\ WF_resolverVars(\E r \in core.resolves : r.id = id /\ ExpireResolve(r))

ResolverFairSpec == ResolverSpec /\ ResolverFairness

-------------------------------------------------------------------------------
\* A packet parked behind a lookup waits for a by-address lookup in the table.
WaitingHasLookup ==
    \A id \in core.waiting : \E r \in core.resolves : r.id = id /\ r.kind = "Outbound"

\* The initiation parked behind a lookup is one from the key looked up, and only a
\* lookup its own proof started holds one.
InitiationMatchesLookup ==
    \A p \in core.initiations : \A r \in core.resolves :
      r.id = p.id => r.kind = "InstallAuth" /\ r.query = ByKey(p.key)

(* Everything a lookup holds up is released by that lookup alone.  However    *)
(* packets, initiations, relay requests, answers, expiries and the reuse of   *)
(* negative markers interleave, the tables stay within their capacity, a      *)
(* question is asked once at a time, a parked packet has a lookup whose       *)
(* answer or expiry releases it, and the answer to a relay lookup or to a     *)
(* reconciliation never completes somebody's handshake.                       *)
LookupsOwned ==
    /\ ResolverTypeOK
    /\ WaitingHasLookup
    /\ InitiationMatchesLookup
    /\ \A q \in Queries : Cardinality(LiveLookups(core, q)) <= 1

\* Only an authenticated initiator takes a free entry out of the reserve.
ReserveKept ==
    (\E r \in core.resolves : /\ r.kind \in {"Outbound", "InstallRelay"}
                              /\ \A s \in core'.resolves : s.id # r.id)
      => LET free == MaxPeers - Cardinality(Held(core))
             after == MaxPeers - Cardinality(Held(core'))
         IN  after >= free \/ after >= LazyReserve

(* Admission by whichever install path: a by-address or relay answer leaves   *)
(* LazyReserve entries free if it found so many, and a key evicted for        *)
(* capacity stays out while its ghost lasts (upsert_peer_unchecked).          *)
AdmissionKept == /\ [](core.ghosts \cap Held(core) = {})
                 /\ [][ReserveKept]_resolverVars

(* A lookup whose answer never comes does not occupy the resolve table for   *)
(* ever: each is answered or swept, whatever else keeps arriving.            *)
LookupsSettle ==
    \A id \in Ids : (\E r \in core.resolves : r.id = id)
                       ~> ~(\E r \in core.resolves : r.id = id)

(* What comments of the code claim and the code does not keep.               *)

(* A parked initiation is released by the completion or expiry of its lookup *)
(* ("every completion path ... releases the parked cryptographic state       *)
(* exactly once"), so one that is parked has its lookup in the table.        *)
ParkedInitiationHasLookup ==
    \A p \in core.initiations : \E r \in core.resolves : r.id = p.id
===============================================================================
