-------------------------------- MODULE Timers --------------------------------
(* The deadlines of the engine, the cached bound TimerCache keeps below them,  *)
(* and the runner that sleeps until the bound.  One peer, one handshake slot,  *)
(* one session, one parked packet, one resolver entry and one reconciliation   *)
(* stand for the tables the engine walks.  Every handler is reduced to the     *)
(* deadlines it sets and clears and to what it tells the cache.                *)
EXTENDS Naturals, Optional

CONSTANTS
    KeepaliveTimeout, RekeyTimeout, Jitter, RekeyAttemptTime, RejectAfterTime,
    PersistentKeepalive,    \* the interval, or None
    ResolveTimeout, NegativeTtl,
    MaxTimerTime            \* bound: the last instant of a run

\* Deadlines of the peer, the slots, the pending packet and the resolver.  The
\* attempt deadline belongs to the peer and counts while its handshake runs.
Deadlines == {"keepalive", "persistent", "reply", "attempt", "retry", "expiry",
              "parked", "resolve", "reconcile"}

ASSUME TimersAssumption ==
    /\ {KeepaliveTimeout, RekeyTimeout, RekeyAttemptTime, RejectAfterTime,
        ResolveTimeout, NegativeTtl} \subseteq Nat
    /\ Jitter \subseteq Nat /\ Jitter # {}
    /\ PersistentKeepalive \in Nat \cup {None} /\ None \notin Nat

VARIABLES
    due,        \* deadline -> instant or None
    cached,     \* TimerCache::at
    clock

timerVars == <<due, cached, clock>>

Timer == [due |-> due, at |-> cached]
TimerBecame(T) == due' = T.due /\ cached' = T.at /\ UNCHANGED clock

\* TimerCache::arm: the bound only goes down.
Arm(at, d) == IF at = None THEN d ELSE IF d < at THEN d ELSE at

\* A handler installs a deadline and tells the cache.
Put(T, t, d) == [due |-> [T.due EXCEPT ![t] = d], at |-> Arm(T.at, d)]
\* Clearing a deadline needs no bookkeeping.
Disarmed(T, S) == [T EXCEPT !.due = [t \in Deadlines |-> IF t \in S THEN None ELSE T.due[t]]]

Initiating(T) == T.due["retry"] # None
HasSession(T) == T.due["expiry"] # None
Expired(T, t) == T.due[t] # None /\ T.due[t] <= clock

\* The deadlines scan_deadlines walks over.
Counted(T) == {t \in Deadlines : T.due[t] # None /\ (t = "attempt" => Initiating(T))}
Instants(T) == {T.due[t] : t \in Counted(T)}
ScanDeadlines(T) ==
    IF Counted(T) = {} THEN None ELSE CHOOSE d \in Instants(T) : \A e \in Instants(T) : d <= e

-------------------------------------------------------------------------------
\* Mutant: the persistent keepalive is moved on without telling the cache.
RestartPersistentQuietly(T) ==
    [T EXCEPT !.due["persistent"] = IF PersistentKeepalive = None THEN None ELSE clock + PersistentKeepalive]

\* Traffic in either direction restarts the persistent keepalive.
RestartPersistent(T) ==
    IF PersistentKeepalive = None THEN Disarmed(T, {"persistent"})
    ELSE Put(T, "persistent", clock + PersistentKeepalive)

\* seal_transport: what is sent answers what was received, and data wants a reply.
SealTransport(T, data, j) ==
    LET sent == RestartPersistent(Disarmed(T, {"keepalive"}))
    IN  IF data /\ T.due["reply"] = None
        THEN Put(sent, "reply", clock + KeepaliveTimeout + RekeyTimeout + j) ELSE sent

\* build_initiation: a first transmission or a retransmission.
BuildInitiation(T, j) == Put(T, "retry", clock + RekeyTimeout + j)

\* stage_initiation and commit_handshake_start: nothing while one is running.
StageInitiation(T, j) ==
    LET b == BuildInitiation(T, j)
        begun == IF T.due["attempt"] = None
                 THEN [b EXCEPT !.due["attempt"] = clock + RekeyAttemptTime] ELSE b
    IN  IF Initiating(T) THEN T
        ELSE [begun EXCEPT !.at = Arm(@, clock + RekeyAttemptTime)]

\* abort_handshake, through free_slot.
AbortHandshake(T) == Disarmed(T, {"retry", "attempt"})

\* encrypt_and_send: a session that is due for it is renewed after sending.
Sent(T, data, j) ==
    LET sealed == SealTransport(T, data, j) IN {sealed, StageInitiation(sealed, j)}

\* send_to_peer.
SendToPeer(j) ==
    IF HasSession(Timer) THEN \E T \in Sent(Timer, TRUE, j) : TimerBecame(T)
    ELSE TimerBecame(StageInitiation(Put(Timer, "parked", clock + RekeyAttemptTime), j))

\* respond_to_initiation.
SessionResponded == TimerBecame(Put(Timer, "expiry", clock + RejectAfterTime))

\* rx_response: the slot becomes a session, and parked packets or a keepalive go out.
ResponseReceived(j) ==
    LET made == Put(AbortHandshake(Timer), "expiry", clock + RejectAfterTime)
    IN  /\ Initiating(Timer)
        /\ \E T \in Sent(Disarmed(made, {"parked"}), due["parked"] # None, j) : TimerBecame(T)

\* rx_data: data wants a passive keepalive, anything ends the wait for a reply.
RxData(data) ==
    LET heard == RestartPersistent(Disarmed(Timer, {"reply"}))
    IN  /\ HasSession(Timer)
        /\ TimerBecame(IF data THEN Put(heard, "keepalive", clock + KeepaliveTimeout) ELSE heard)

\* install_peer and the refresh of a record with another interval.
PeerInstalled == TimerBecame(RestartPersistent(Timer))

\* take_peer: the peer goes with its slots and the packets parked for it.
PeerTaken == TimerBecame(Disarmed(Timer, {"keepalive", "persistent", "reply", "attempt", "retry", "expiry", "parked"}))

\* queue_outbound_resolution: behind a lookup that is there, or a new one; an
\* expired marker is overwritten in place, and the parked packet arms for both.
ParkForResolve ==
    LET d == clock + ResolveTimeout IN
    \E asked \in (IF due["resolve"] = None THEN {Put(Timer, "resolve", d)}
                  ELSE {Timer} \cup (IF Expired(Timer, "resolve")
                                     THEN {[Timer EXCEPT !.due["resolve"] = d]} ELSE {})) :
      TimerBecame(Put(asked, "parked", d))

\* resolved: the entry and what waits for it go; a miss leaves a marker.
LookupAnswered == due["resolve"] # None /\ TimerBecame(Disarmed(Timer, {"resolve", "parked"}))
MarkerSet ==
    due["resolve"] # None /\ TimerBecame(Put(Disarmed(Timer, {"parked"}), "resolve", clock + NegativeTtl))

\* queue_reconcile: an earlier obligation stays.
ReconcileArmed(T) ==
    LET d == clock + NegativeTtl IN
    IF T.due["reconcile"] = None THEN Put(T, "reconcile", d)
    ELSE IF d < T.due["reconcile"] THEN Put(T, "reconcile", d)
    ELSE [T EXCEPT !.at = Arm(@, T.due["reconcile"])]
UpdateFailed == TimerBecame(ReconcileArmed(Timer))

-------------------------------------------------------------------------------
\* One step of timeout, in the code's order; {} when nothing is due.
TimeoutStep(T, j) ==
    IF Expired(T, "parked") THEN {Disarmed(T, {"parked"})}
    ELSE IF Expired(T, "resolve")
    THEN LET gone == Disarmed(T, {"resolve"})
         IN  {Disarmed(gone, {"parked"}), gone, ReconcileArmed(gone)}
    ELSE IF Expired(T, "reconcile")
    THEN {Disarmed(T, {"reconcile"}),
          Put(T, "reconcile", clock + NegativeTtl)}
         \cup (IF T.due["resolve"] # None THEN {}
               ELSE {Disarmed(Put(T, "resolve", clock + ResolveTimeout), {"reconcile"})})
    ELSE IF Initiating(T) /\ Expired(T, "attempt") THEN {Disarmed(AbortHandshake(T), {"parked"})}
    ELSE IF Expired(T, "retry") THEN {BuildInitiation(T, j), AbortHandshake(T)}
    ELSE IF Expired(T, "expiry") THEN {Disarmed(T, {"expiry"})}
    ELSE IF Expired(T, "keepalive")
    THEN LET done == Disarmed(T, {"keepalive"})
         IN  IF HasSession(T) THEN Sent(done, FALSE, j) ELSE {done}
    ELSE IF Expired(T, "persistent")
    THEN LET done == Disarmed(T, {"persistent"})
         IN  IF HasSession(T) THEN Sent(done, FALSE, j)
             ELSE {RestartPersistent(StageInitiation(done, j))}
    ELSE IF Expired(T, "reply") THEN {StageInitiation(Disarmed(T, {"reply"}), j)}
    ELSE {}

\* The runner wakes when the bound is reached and calls handle_timeout: one
\* action, and the bound stays at now; without one it is computed anew.
HandleTimeout(j) ==
    LET steps == TimeoutStep(Timer, j) IN
    /\ cached # None /\ cached <= clock
    /\ IF steps # {} THEN \E T \in steps : TimerBecame([T EXCEPT !.at = Arm(@, clock)])
       ELSE TimerBecame([Timer EXCEPT !.at = ScanDeadlines(Timer)])

TimerTick == clock < MaxTimerTime /\ clock' = clock + 1 /\ UNCHANGED <<due, cached>>

TimersInit == due = [t \in Deadlines |-> None] /\ cached = None /\ clock = 0

TimersNext ==
    \/ TimerTick \/ PeerInstalled \/ PeerTaken \/ SessionResponded
    \/ ParkForResolve \/ LookupAnswered \/ MarkerSet \/ UpdateFailed
    \/ \E data \in BOOLEAN : RxData(data)
    \/ \E j \in Jitter : SendToPeer(j) \/ ResponseReceived(j) \/ HandleTimeout(j)

TimersSpec == TimersInit /\ [][TimersNext]_timerVars

-------------------------------------------------------------------------------
\* The bound is never later than a deadline the engine has: whatever handlers
\* set, move and clear deadlines in whatever order, the runner that sleeps
\* until poll_at does not sleep through one (poll_at's own assertion).
NeverLate == \A t \in Counted(Timer) : cached # None /\ cached <= due[t]
===============================================================================
