----------------------------- MODULE EmbassySync -----------------------------
(* The embedded runner and its resolver task: two tasks joined by two        *)
(* fixed-depth channels, the set of keys the resolver task remembers, which  *)
(* has fixed capacity too, and a tracker session that is opened, reconciled, *)
(* served and lost.  The engine is reduced to the records it holds and the   *)
(* lookups it waits for; a record is the version the registry had.           *)
EXTENDS Naturals, Sequences, FiniteSets, Optional

CONSTANTS
    Remotes,            \* public keys
    TablePeers,         \* MAX_PEERS; one entry is the tracker's own
    ChannelDepth,       \* CHANNEL_DEPTH
    MaxAsks,            \* bound: lookups the engine starts
    MaxPublished,       \* bound: changes of the registry
    MaxLinkFaults       \* bound: failed connects, lost sessions, refused calls

ASSUME EmbassyAssumption ==
    /\ TablePeers \in Nat \ {0, 1} /\ ChannelDepth \in Nat \ {0}
    /\ MaxAsks \in Nat /\ MaxPublished \in Nat /\ MaxLinkFaults \in Nat

VARIABLES
    core,       \* held: version per key; lookups: those in flight; asked, evicted: counts
    chan,       \* commands, events, and the runner's pending_forgets
    resolver,   \* the resolver task
    session,    \* the tracker session, both directions
    registry    \* the tracker

embassyVars == <<core, chan, resolver, session, registry>>

Absent == 1000      \* NotFound
Refused == 1001     \* Failed
Found(answer) == answer \notin {Absent, Refused}

Smaller(m, n) == IF m < n THEN m ELSE n

HeldBy(c) == {k \in Remotes : c.held[k] # None}

-------------------------------------------------------------------------------
(* The tunnel task: the engine's handlers end with flush_sink_output, and    *)
(* the runner's loop with another pass over pending_forgets.                 *)

\* The sink takes the released keys, then the lookups not yet accepted.  A
\* lookup is accepted only behind every release; a release that finds both the
\* channel and pending_forgets full is dropped.
Flushed(c, released, events) ==
    LET backlog == chan.forgets \o released
        room == ChannelDepth - Len(chan.commands)
        sent == Smaller(Len(backlog), room)
        waiting == {l \in c.lookups : ~l.emitted}
        asked == Smaller(Cardinality(waiting), room - sent)
    IN  \E asks \in [1..asked -> waiting] :
          /\ \A i, j \in 1..asked : asks[i] = asks[j] => i = j
          /\ core' = [c EXCEPT !.lookups =
               {[l EXCEPT !.emitted = @ \/ \E i \in 1..asked : asks[i] = l] : l \in @}]
          /\ chan' = [commands |-> chan.commands
                        \o [i \in 1..sent |-> [op |-> "Forget", id |-> 0, key |-> backlog[i]]]
                        \o [i \in 1..asked |-> [op |-> asks[i].op, id |-> asks[i].id,
                                                key |-> asks[i].key]],
                      forgets |-> SubSeq(backlog, sent + 1, Smaller(Len(backlog), sent + TablePeers)),
                      events |-> events]

\* A packet without a route, or an initiation from a key not held
AskFor(op, k) ==
    /\ core.asked < MaxAsks
    /\ k \notin HeldBy(core)
    /\ \A l \in core.lookups : <<l.op, l.key>> # <<op, k>>
    /\ LET id == core.asked + 1
       IN  Flushed([core EXCEPT !.asked = id, !.lookups = @ \cup
                      {[id |-> id, op |-> op, key |-> k, emitted |-> FALSE]}],
                   <<>>, chan.events)
    /\ UNCHANGED <<resolver, session, registry>>

\* The lookup's deadline passes in the engine.
GiveUp(l) ==
    /\ Flushed([core EXCEPT !.lookups = @ \ {l}], <<>>, chan.events)
    /\ UNCHANGED <<resolver, session, registry>>

\* Any other turn of the runner's loop that finds room in the channel
FlushAgain ==
    /\ chan.forgets # <<>> \/ \E l \in core.lookups : ~l.emitted
    /\ Len(chan.commands) < ChannelDepth
    /\ Flushed(core, <<>>, chan.events)
    /\ UNCHANGED <<resolver, session, registry>>

\* Evictions are peer_eviction_interval apart, which is no shorter than
\* resolve_timeout: no lookup asked before the last one is still waited for.
MayEvict == \A l \in core.lookups : l.id > core.evicted

\* A found record is installed; when the table is full, over an idle peer, or
\* it is refused, which releases the resolver's interest in its key.
Admitted(c, k, version, rest) ==
    \/ /\ k \in HeldBy(c) \/ Cardinality(HeldBy(c)) < TablePeers - 1
       /\ Flushed([c EXCEPT !.held[k] = version], <<>>, rest)
    \/ /\ k \notin HeldBy(c) /\ Cardinality(HeldBy(c)) = TablePeers - 1
       /\ \/ /\ MayEvict
             /\ \E victim \in HeldBy(c) :
                  Flushed([c EXCEPT !.held = [@ EXCEPT ![victim] = None, ![k] = version],
                                    !.evicted = c.asked], <<victim>>, rest)
          \/ Flushed(c, <<k>>, rest)

\* resolver_event_completed: a completion whose lookup is gone is ignored; an
\* update may refresh or remove a held record, never create one.
TakeEvent ==
    /\ chan.events # <<>>
    /\ LET event == Head(chan.events)
           rest == Tail(chan.events)
           mine == {l \in core.lookups : l.id = event.id}
           c == [core EXCEPT !.lookups = @ \ mine]
           k == event.key
       IN  \/ /\ mine # {} /\ Found(event.answer)
              /\ Admitted(c, k, event.answer, rest)
           \/ /\ event.id # 0 /\ (mine = {} \/ ~Found(event.answer))
              /\ Flushed(c, <<>>, rest)
           \/ /\ event.id = 0 /\ k \notin HeldBy(core)
              /\ Flushed(core, <<>>, rest)
           \/ /\ event.id = 0 /\ k \in HeldBy(core) /\ Found(event.answer)
              /\ Flushed([core EXCEPT !.held[k] = event.answer], <<>>, rest)
           \/ /\ event.id = 0 /\ k \in HeldBy(core) /\ ~Found(event.answer)
              /\ Flushed([core EXCEPT !.held[k] = None], <<k>>, rest)
    /\ UNCHANGED <<resolver, session, registry>>

-------------------------------------------------------------------------------
(* The resolver task.                                                        *)

\* Not waiting for a reply, nor for room in the event channel
Free == resolver.call = None /\ resolver.outbox = None

\* events.send: the task waits with the event when the channel is full.
Sends(r, event, commands) ==
    LET room == Len(chan.events) < ChannelDepth
    IN  /\ chan' = [chan EXCEPT !.commands = commands,
                                !.events = IF room THEN Append(@, event) ELSE @]
        /\ resolver' = [r EXCEPT !.outbox = IF room THEN None ELSE event]

Unblock ==
    /\ resolver.outbox # None /\ Len(chan.events) < ChannelDepth
    /\ Sends(resolver, resolver.outbox, chan.commands)
    /\ UNCHANGED <<core, session, registry>>

\* The session is closed and its handler dropped; retry_delay follows.
Dropped(r) == [r EXCEPT !.place = "retrying", !.call = None, !.replay = {},
                        !.invalidated = {}, !.overflowed = FALSE]

Discards ==
    /\ session' = [session EXCEPT !.state = "none", !.requests = <<>>, !.messages = <<>>]
    /\ registry' = [registry EXCEPT !.watched = {}, !.due = {}, !.reply = None]

\* Send one request and wait for its answer.
Asks(r, op, k, id) ==
    /\ resolver' = [r EXCEPT !.call = [op |-> op, key |-> k, id |-> id]]
    /\ session' = [session EXCEPT !.requests = Append(@, <<op, k>>)]
    /\ UNCHANGED registry

\* TCP connect and upgrade, within their budgets
Connect ==
    /\ Free /\ resolver.place = "connecting"
    /\ \/ /\ resolver' = [resolver EXCEPT !.place = "reconciling", !.replay = resolver.desired]
          /\ session' = [session EXCEPT !.state = "up"]
       \/ /\ session.faults < MaxLinkFaults
          /\ resolver' = [resolver EXCEPT !.place = "retrying"]
          /\ session' = [session EXCEPT !.faults = @ + 1]
    /\ UNCHANGED <<core, chan, registry>>

\* reconcile: every key remembered when the session opened is watched again.
Rewatch ==
    /\ Free /\ resolver.place = "reconciling"
    /\ \/ /\ resolver.replay = {}
          /\ resolver' = [resolver EXCEPT !.place = "serving"]
          /\ UNCHANGED <<session, registry>>
       \/ \E k \in resolver.replay :
            Asks([resolver EXCEPT !.replay = @ \ {k}], "watch", k, 0)
    /\ UNCHANGED <<core, chan>>

\* reconcile_invalidated: an overflow gives the session up; a key no longer
\* remembered is skipped, any other is looked up.  The overflow is looked at
\* once, before the queue is drained (draining).
Refresh ==
    /\ Free /\ resolver.place = "serving"
    /\ \/ /\ resolver.overflowed /\ ~resolver.draining
          /\ resolver' = Dropped(resolver) /\ Discards
       \/ /\ resolver.draining \/ ~resolver.overflowed
          /\ \E k \in resolver.invalidated :
               LET r == [resolver EXCEPT !.invalidated = @ \ {k}, !.draining = TRUE]
               IN  IF k \in resolver.desired THEN Asks(r, "by_key", k, 0)
                   ELSE resolver' = r /\ UNCHANGED <<session, registry>>
    /\ UNCHANGED <<core, chan>>

\* The two-way select of run_session, reached with the queue drained
Selecting ==
    /\ Free /\ resolver.place = "serving" /\ resolver.invalidated = {}
    /\ resolver.draining \/ ~resolver.overflowed

\* The key leaves the remembered set (the handler's queue is drained here); the tracker is
\* told when it was there, and a failed write gives the session up.
ReleaseKey(k) ==
    LET r == [resolver EXCEPT !.draining = FALSE, !.desired = @ \ {k}]
    IN  \/ /\ k \notin resolver.desired
           /\ resolver' = r /\ UNCHANGED <<session, registry>>
        \/ /\ k \in resolver.desired /\ session.state = "up"
           /\ resolver' = r /\ UNCHANGED registry
           /\ session' = [session EXCEPT !.requests = Append(@, <<"unwatch", k>>)]
        \/ /\ k \in resolver.desired /\ session.state = "lost"
           /\ resolver' = Dropped(r) /\ Discards

\* A lookup by key is one watch; one by address is a lookup and then a watch.
NextCommand ==
    /\ Selecting /\ chan.commands # <<>>
    /\ LET command == Head(chan.commands)
       IN  IF command.op = "Forget" THEN ReleaseKey(command.key)
           ELSE Asks([resolver EXCEPT !.draining = FALSE],
                      IF command.op = "key" THEN "watch" ELSE "by_address",
                      command.key, command.id)
    /\ chan' = [chan EXCEPT !.commands = Tail(@)]
    /\ UNCHANGED core

\* push_invalidated: coalesced, and flagged when the queue is full.
Invalidated(r, k) ==
    IF k \in r.invalidated THEN r
    ELSE IF Cardinality(r.invalidated) = TablePeers THEN [r EXCEPT !.overflowed = TRUE]
    ELSE [r EXCEPT !.invalidated = @ \cup {k}]

\* A notification is read by the call under way, or by the idle poll.
HearChange ==
    /\ session.messages # <<>> /\ Head(session.messages)[1] = "changed"
    /\ resolver.call # None \/ Selecting
    /\ resolver' = Invalidated([resolver EXCEPT !.draining = @ /\ resolver.call # None],
                               Head(session.messages)[2])
    /\ session' = [session EXCEPT !.messages = Tail(@)]
    /\ UNCHANGED <<core, chan, registry>>

\* remember_desired and forget_desired after a watch: a key that does not fit
\* is not remembered, and the answer goes to the engine all the same.
Remembered(op, k, answer) ==
    IF op # "watch" \/ answer = Refused THEN resolver.desired
    ELSE IF answer = Absent THEN resolver.desired \ {k}
    ELSE IF Cardinality(resolver.desired) < TablePeers THEN resolver.desired \cup {k}
    ELSE resolver.desired

Completion(call, answer) == [id |-> call.id, key |-> call.key, answer |-> answer]

\* The awaited reply: a record found by address is watched next, a lookup is
\* completed, and a reconciliation that was refused gives the session up.
HearReply ==
    /\ session.messages # <<>> /\ Head(session.messages)[1] = "reply"
    /\ LET call == resolver.call
           answer == Head(session.messages)[2]
           read == [session EXCEPT !.messages = Tail(@)]
           r == [resolver EXCEPT !.call = None, !.desired = Remembered(call.op, call.key, answer)]
       IN  \/ /\ call.op = "by_address" /\ Found(answer)
              /\ resolver' = [resolver EXCEPT !.call.op = "watch"]
              /\ session' = [read EXCEPT !.requests = Append(@, <<"watch", call.key>>)]
              /\ UNCHANGED <<chan, registry>>
           \/ /\ call.id # 0 \/ answer # Refused
              /\ ~(call.op = "by_address" /\ Found(answer))
              /\ Sends(r, Completion(call, answer), chan.commands)
              /\ session' = read /\ UNCHANGED registry
           \/ /\ call.id = 0 /\ answer = Refused
              /\ resolver' = Dropped(resolver) /\ Discards /\ UNCHANGED chan
    /\ UNCHANGED core

\* The session ends under a call, or the call exceeds its budget: the lookup
\* fails, and the session is given up.
CallAborted ==
    /\ resolver.call # None /\ session.state = "lost"
    /\ IF resolver.call.id = 0 THEN resolver' = Dropped(resolver) /\ UNCHANGED chan
       ELSE Sends(Dropped(resolver), Completion(resolver.call, Refused), chan.commands)
    /\ Discards
    /\ UNCHANGED core

PollEnds ==
    /\ Selecting /\ session.state = "lost" /\ session.messages = <<>>
    /\ resolver' = Dropped(resolver) /\ Discards
    /\ UNCHANGED <<core, chan>>

\* Mutant: lookups that arrive while the task waits to reconnect are dropped.
RetryDelayDropsLookups ==
    /\ Free /\ resolver.place = "retrying"
    /\ \/ /\ resolver' = [resolver EXCEPT !.place = "connecting", !.draining = FALSE]
          /\ UNCHANGED chan
       \/ /\ chan.commands # <<>>
          /\ chan' = [chan EXCEPT !.commands = Tail(@)]
          /\ resolver' = [resolver EXCEPT !.desired =
                            IF Head(chan.commands).op = "Forget"
                            THEN @ \ {Head(chan.commands).key} ELSE @]
    /\ UNCHANGED <<core, session, registry>>

\* Until the delay is over, releases are noted and lookups are failed.
RetryDelay ==
    /\ Free /\ resolver.place = "retrying"
    /\ \/ /\ resolver' = [resolver EXCEPT !.place = "connecting", !.draining = FALSE]
          /\ UNCHANGED chan
       \/ /\ chan.commands # <<>>
          /\ LET command == Head(chan.commands)
                 rest == Tail(chan.commands)
             IN  IF command.op = "Forget"
                 THEN /\ resolver' = [resolver EXCEPT !.desired = @ \ {command.key}]
                      /\ chan' = [chan EXCEPT !.commands = rest]
                 ELSE Sends(resolver, Completion(command, Refused), rest)
    /\ UNCHANGED <<core, session, registry>>

-------------------------------------------------------------------------------
(* The tracker, as far as this client sees it (module PeerSync has more).    *)

Sampled(k) == IF k \in registry.absent THEN Absent ELSE registry.version[k]

TrackerServes ==
    /\ session.requests # <<>> /\ registry.reply = None
    /\ LET op == Head(session.requests)[1]
           k == Head(session.requests)[2]
           served == [session EXCEPT !.requests = Tail(@)]
           interest == IF op = "unwatch" \/ (op = "watch" /\ k \in registry.absent)
                       THEN [registry EXCEPT !.watched = @ \ {k}, !.due = @ \ {k}]
                       ELSE IF op = "watch" THEN [registry EXCEPT !.watched = @ \cup {k}]
                       ELSE registry
       IN  \/ /\ registry' = [interest EXCEPT !.reply = IF op = "unwatch" THEN None ELSE Sampled(k)]
              /\ session' = served
           \/ /\ op # "unwatch" /\ session.faults < MaxLinkFaults
              /\ registry' = [registry EXCEPT !.reply = Refused]
              /\ session' = [served EXCEPT !.faults = @ + 1]
    /\ UNCHANGED <<core, chan, resolver>>

\* The reply and the notifications are written by two tasks.
TrackerWrites ==
    /\ \/ /\ registry.reply # None
          /\ session' = [session EXCEPT !.messages = Append(@, <<"reply", registry.reply>>)]
          /\ registry' = [registry EXCEPT !.reply = None]
       \/ \E k \in registry.due :
            /\ session' = [session EXCEPT !.messages = Append(@, <<"changed", k>>)]
            /\ registry' = [registry EXCEPT !.due = @ \ {k}]
    /\ UNCHANGED <<core, chan, resolver>>

Published(k, absent) ==
    /\ registry.published < MaxPublished
    /\ registry' = [registry EXCEPT !.published = @ + 1, !.version[k] = @ + 1,
                      !.absent = absent,
                      !.due = IF k \in registry.watched THEN @ \cup {k} ELSE @]
    /\ UNCHANGED <<core, chan, resolver, session>>

\* The session dies; what was received may still be read.
SessionLost ==
    /\ session.state = "up" /\ session.faults < MaxLinkFaults
    /\ \E n \in 0..Len(session.messages) :
         session' = [state |-> "lost", requests |-> <<>>,
                     messages |-> SubSeq(session.messages, 1, n), faults |-> session.faults + 1]
    /\ registry' = [registry EXCEPT !.watched = {}, !.due = {}, !.reply = None]
    /\ UNCHANGED <<core, chan, resolver>>

-------------------------------------------------------------------------------
EmbassyInit ==
    /\ core = [held |-> [k \in Remotes |-> None], lookups |-> {}, asked |-> 0, evicted |-> 0]
    /\ chan = [commands |-> <<>>, forgets |-> <<>>, events |-> <<>>]
    /\ resolver = [place |-> "connecting", desired |-> {}, replay |-> {}, invalidated |-> {},
                   overflowed |-> FALSE, draining |-> FALSE, call |-> None, outbox |-> None]
    /\ session = [state |-> "none", requests |-> <<>>, messages |-> <<>>, faults |-> 0]
    /\ registry = [version |-> [k \in Remotes |-> 0], absent |-> {}, watched |-> {},
                   due |-> {}, reply |-> None, published |-> 0]

EmbassyNext ==
    \/ \E op \in {"key", "address"}, k \in Remotes : AskFor(op, k)
    \/ \E l \in core.lookups : GiveUp(l)
    \/ FlushAgain \/ TakeEvent
    \/ Unblock \/ Connect \/ Rewatch \/ Refresh \/ NextCommand
    \/ HearChange \/ HearReply \/ CallAborted \/ PollEnds \/ RetryDelay
    \/ TrackerServes \/ TrackerWrites \/ SessionLost
    \/ \E k \in Remotes : \E absent \in {registry.absent \cup {k}, registry.absent \ {k}} :
         Published(k, absent)

EmbassySpec == EmbassyInit /\ [][EmbassyNext]_embassyVars

-------------------------------------------------------------------------------
(* Properties.                                                               *)

\* Where the request of lookup l is: in a channel, being called, or in the
\* hands of the resolver task with its answer.
Whereabouts(l) ==
    {<<"command", i>> : i \in {j \in DOMAIN chan.commands : chan.commands[j].id = l.id}}
      \cup {<<"event", i>> : i \in {j \in DOMAIN chan.events : chan.events[j].id = l.id}}
      \cup (IF resolver.call # None /\ resolver.call.id = l.id THEN {<<"call", 1>>} ELSE {})
      \cup (IF resolver.outbox # None /\ resolver.outbox.id = l.id THEN {<<"outbox", 1>>} ELSE {})

\* Connected, and nothing under way between registry and engine
NothingUnderWay ==
    /\ session.state = "up" /\ session.requests = <<>> /\ session.messages = <<>>
    /\ registry.due = {} /\ registry.reply = None
    /\ Selecting /\ ~resolver.overflowed
    /\ chan.commands = <<>> /\ chan.forgets = <<>> /\ chan.events = <<>>

\* Every request the channel accepted is answered exactly once, whatever
\* happens to the session meanwhile, and once nothing is under way a record
\* that is held and remembered is the registry's (run_session, retry_delay,
\* reconcile, reconcile_invalidated).
AnsweredAndFresh ==
    /\ \A l \in core.lookups : Cardinality(Whereabouts(l)) = IF l.emitted THEN 1 ELSE 0
    /\ NothingUnderWay => \A k \in HeldBy(core) \cap resolver.desired : core.held[k] = Sampled(k)

\* "One watch entry per peer the runner can hold": a record the engine holds
\* has its entry in the resolver task's set, or is about to be removed.
HeldIsRemembered ==
    \A k \in HeldBy(core) :
        \/ k \in resolver.desired
        \/ \E i \in DOMAIN chan.events : chan.events[i] = [id |-> 0, key |-> k, answer |-> Absent]
=============================================================================
