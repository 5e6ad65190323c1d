------------------------------- MODULE PeerSync -------------------------------
(* How the records an engine holds are kept current: the engine and the      *)
(* runner's queues, the resolver task with its one connection, and the       *)
(* tracker's keyed subscriptions.  A notification names a key only; the      *)
(* client answers it with a lookup, and watches again after a reconnect.     *)
(* Records are version numbers.  The engine is reduced to what it holds and  *)
(* what it asks for; module Resolver has the rest of its bookkeeping.        *)
EXTENDS Naturals, Sequences, FiniteSets, Optional

CONSTANTS
    PeerKeys,
    InnerAddrs,     \* inner addresses that may be looked up
    Owner,          \* the key whose record covers each of them
    RequestIds,     \* request identifiers
    PeerSlots,      \* dynamic entries of the peer table
    CommandDepth,   \* RESOLVER_QUEUE_DEPTH
    MaxVersion,     \* bound: registry changes per key
    MaxFaults,      \* bound: lost connections, timeouts and refused calls
    Removals,       \* whether the registry may remove a record
    Refusals,       \* whether the engine may be out of capacity
    NotFound, Failed

ASSUME OwnerAssumption == Owner \in [InnerAddrs -> PeerKeys]
ASSUME SyncBoundsAssumption ==
    /\ PeerSlots \in Nat \ {0} /\ CommandDepth \in Nat \ {0}
    /\ MaxVersion \in Nat /\ MaxFaults \in Nat
    /\ Removals \in BOOLEAN /\ Refusals \in BOOLEAN
ASSUME SyncNoneAssumption ==
    /\ None \notin PeerKeys \cup InnerAddrs \cup RequestIds \cup Nat
    /\ NotFound # Failed /\ {NotFound, Failed} \cap (Nat \cup {None}) = {}

VARIABLES
    engine,     \* records held, lookups in flight
    queues,     \* commands to the resolver task, its events, unsent forgets
    task,       \* the resolver task
    link,       \* the connection, both directions
    tracker     \* registry and the connection's subscription

syncVars == <<engine, queues, task, link, tracker>>

QueryByKey(k) == <<"key", k>>
QueryByAddr(a) == <<"addr", a>>
PeerQueries == {QueryByKey(k) : k \in PeerKeys} \cup {QueryByAddr(a) : a \in InnerAddrs}
KeyOf(q) == IF q[1] = "key" THEN q[2] ELSE Owner[q[2]]

Versions == 0..MaxVersion
RecordAnswers == {NotFound, Failed} \cup Versions

\* A call the task waits for: on behalf of a lookup, or of a reconciliation.
Calls == [op : {"watch", "by_key", "by_address"}, key : PeerKeys, id : RequestIds \cup {None}]

EngineType == [held : [PeerKeys -> Versions \cup {None}],
               lookups : SUBSET [id : RequestIds, query : PeerQueries, emitted : BOOLEAN]]
QueuesType == [commands : Seq({"Resolve"} \X RequestIds \X PeerQueries \cup {"Forget"} \X PeerKeys),
               forgets : Seq(PeerKeys),
               events : Seq({"Resolved"} \X RequestIds \X PeerKeys \X RecordAnswers
                            \cup {"PeerUpdated"} \X PeerKeys \X RecordAnswers)]
TaskType == [desired : SUBSET PeerKeys,
             replay : Seq({"Rewatch", "Refresh"} \X PeerKeys),
             burst : BOOLEAN,           \* a burst waits for its jittered start
             invalidated : Seq(PeerKeys),   \* read from the connection, not drained
             call : Calls \cup {None}]
LinkType == [state : {"none", "up", "broken"},
             requests : Seq({"watch", "by_key", "by_address", "unwatch"} \X PeerKeys),
             messages : Seq({"reply"} \X RecordAnswers \cup {"changed"} \X PeerKeys),
             faults : 0..MaxFaults]
TrackerType == [version : [PeerKeys -> Versions], absent : SUBSET PeerKeys,
                watched : SUBSET PeerKeys, pending : SUBSET PeerKeys,
                reply : RecordAnswers \cup {None}]    \* computed, not yet written

\* The command queue stays within its depth.
SyncTypeOK ==
    /\ engine \in EngineType /\ queues \in QueuesType /\ task \in TaskType
    /\ link \in LinkType /\ tracker \in TrackerType
    /\ Len(queues.commands) <= CommandDepth
    /\ Cardinality({k \in PeerKeys : engine.held[k] # None}) <= PeerSlots

-------------------------------------------------------------------------------
(* The engine, and the runner's sink.                                        *)

HeldKeys(e) == {k \in PeerKeys : e.held[k] # None}

\* What the sink sends when the engine releases keys and asks its lookups, as
\* far as the queue takes it: forgets first, a lookup only behind every forget.
Emit(e, evicted, events) ==
    LET backlog == queues.forgets \o evicted
        room == CommandDepth - Len(queues.commands)
        sent == IF Len(backlog) < room THEN Len(backlog) ELSE room
        fresh == {l \in e.lookups : ~l.emitted}
        asked == IF Cardinality(fresh) < room - sent THEN Cardinality(fresh) ELSE room - sent
        forgets == [i \in 1..sent |-> <<"Forget", backlog[i]>>]
    IN  \E asks \in [1..asked -> fresh] :
          /\ \A i, j \in 1..asked : asks[i] = asks[j] => i = j
          /\ engine' = [e EXCEPT !.lookups =
               {[l EXCEPT !.emitted = @ \/ \E i \in 1..asked : asks[i] = l] : l \in @}]
          /\ queues' = [commands |-> queues.commands \o forgets
                          \o [i \in 1..asked |-> <<"Resolve", asks[i].id, asks[i].query>>],
                        forgets |-> SubSeq(backlog, sent + 1, Len(backlog)),
                        events |-> events]

FreshRequestIds ==
    RequestIds \ ({l.id : l \in engine.lookups}
             \cup {queues.commands[i][2] : i \in DOMAIN queues.commands}
             \cup {queues.events[i][2] : i \in DOMAIN queues.events}
             \cup (IF task.call = None THEN {} ELSE {task.call.id}))

\* A packet without a route, or an initiation from a key not held
Lookup(q) ==
    /\ KeyOf(q) \notin HeldKeys(engine)
    /\ \A l \in engine.lookups : l.query # q
    /\ \E id \in FreshRequestIds :
         Emit([engine EXCEPT !.lookups = @ \cup {[id |-> id, query |-> q, emitted |-> FALSE]}],
              <<>>, queues.events)
    /\ UNCHANGED <<task, link, tracker>>

\* The lookup's deadline passes.
Expire(l) ==
    /\ l \in engine.lookups
    /\ Emit([engine EXCEPT !.lookups = @ \ {l}], <<>>, queues.events)
    /\ UNCHANGED <<task, link, tracker>>

\* Any other stimulus of the engine: what could not be sent is tried again.
Retry ==
    /\ queues.forgets # <<>> \/ \E l \in engine.lookups : ~l.emitted
    /\ Len(queues.commands) < CommandDepth
    /\ Emit(engine, <<>>, queues.events)
    /\ UNCHANGED <<task, link, tracker>>

\* Install version v of key k, evicting an idle peer or refusing when full.
\* A refused answer releases the interest the resolver has in its key.
Install(e, k, v, rest) ==
    \/ /\ k \in HeldKeys(e) \/ Cardinality(HeldKeys(e)) < PeerSlots
       /\ Emit([e EXCEPT !.held[k] = v], <<>>, rest)
    \/ /\ k \notin HeldKeys(e) /\ Cardinality(HeldKeys(e)) = PeerSlots
       /\ \E victim \in HeldKeys(e) :
            Emit([e EXCEPT !.held = [@ EXCEPT ![victim] = None, ![k] = v]], <<victim>>, rest)
    \/ /\ Refusals /\ k \notin HeldKeys(e)
       /\ Emit(e, <<k>>, rest)

\* resolver_event_completed.  A completion whose lookup is gone is ignored.
ApplyAnswer(id, k, answer, rest) ==
    LET known == {l \in engine.lookups : l.id = id}
        e == [engine EXCEPT !.lookups = @ \ known]
    IN  IF known = {} \/ answer \notin Versions THEN Emit(e, <<>>, rest)
        ELSE Install(e, k, answer, rest)

ApplyUpdate(k, answer, rest) ==
    IF k \notin HeldKeys(engine) THEN Emit(engine, <<>>, rest)
    ELSE IF answer = NotFound THEN Emit([engine EXCEPT !.held[k] = None], <<k>>, rest)
    ELSE Emit([engine EXCEPT !.held[k] = answer], <<>>, rest)

Deliver ==
    /\ queues.events # <<>>
    /\ LET event == Head(queues.events)
           rest == Tail(queues.events)
       IN  IF event[1] = "Resolved" THEN ApplyAnswer(event[2], event[3], event[4], rest)
           ELSE ApplyUpdate(event[2], event[3], rest)
    /\ UNCHANGED <<task, link, tracker>>

-------------------------------------------------------------------------------
(* The resolver task.                                                        *)

\* Mutant: keys notified while a lookup was in flight are dropped.
DrainedDropsAll(t) == [t EXCEPT !.invalidated = <<>>]

\* drain_invalidated: held keys join the queue once; the rest are dropped.
\* The first refresh of a burst waits for its jittered start.
Drained(t) ==
    LET Wanted(k) == k \in t.desired /\ \A i \in DOMAIN t.replay : t.replay[i][2] # k
        fresh == SelectSeq(t.invalidated, Wanted)
    IN  [t EXCEPT !.invalidated = <<>>,
                  !.replay = @ \o [i \in DOMAIN fresh |-> <<"Refresh", fresh[i]>>],
                  !.burst = @ \/ (fresh # <<>> /\ t.replay = <<>>)]

\* The tracker drops the subscription with the connection.
Unsubscribed == [tracker EXCEPT !.watched = {}, !.pending = {}, !.reply = None]

\* The task gives the connection up, and with it what was read from it and
\* the reconciliations due on it.
Disconnect(t) ==
    /\ task' = [t EXCEPT !.call = None, !.replay = <<>>, !.burst = FALSE, !.invalidated = <<>>]
    /\ link' = [link EXCEPT !.state = "none", !.requests = <<>>, !.messages = <<>>]
    /\ tracker' = Unsubscribed

TaskIdle == task.call = None

\* Send a request and wait for the answer.
Call(t, op, k, id) ==
    /\ task' = [t EXCEPT !.call = [op |-> op, key |-> k, id |-> id]]
    /\ link' = [link EXCEPT !.state = "up", !.requests = Append(@, <<op, k>>)]
    /\ UNCHANGED tracker

SendEvent(event) == queues' = [queues EXCEPT !.events = Append(@, event)]

\* Reconnect and queue every key of interest to be watched again.
Establish ==
    /\ TaskIdle /\ link.state = "none" /\ task.desired # {}
    /\ link' = [link EXCEPT !.state = "up"]
    /\ \E order \in [1..Cardinality(task.desired) -> task.desired] :
         /\ \A i, j \in DOMAIN order : order[i] = order[j] => i = j
         /\ task' = [task EXCEPT !.replay = [i \in DOMAIN order |-> <<"Rewatch", order[i]>>]]
    /\ UNCHANGED <<engine, queues, tracker>>

\* handle_command for a Resolve: without a connection and with nothing held
\* the connection is opened here; while reconnecting the answer is Failed.
TakeResolve(id, q, rest) ==
    \/ /\ link.state = "up" \/ (link.state = "none" /\ task.desired = {})
       /\ Call(task, IF q[1] = "key" THEN "watch" ELSE "by_address", KeyOf(q), id)
       /\ queues' = [queues EXCEPT !.commands = rest]
    \/ /\ link.state \in {"none", "broken"}
       /\ Disconnect(task)
       /\ queues' = [queues EXCEPT !.commands = rest,
                       !.events = Append(@, <<"Resolved", id, KeyOf(q), Failed>>)]

\* apply_forget.  The unwatch is a notification; its write may fail.
TakeForget(k, rest) ==
    LET t == [task EXCEPT !.desired = @ \ {k},
                !.invalidated = SelectSeq(@, LAMBDA key : key # k),
                !.replay = SelectSeq(@, LAMBDA item : item[2] # k)]
    IN  /\ queues' = [queues EXCEPT !.commands = rest]
        /\ \/ /\ k \notin task.desired \/ link.state # "up"
              /\ task' = t /\ UNCHANGED <<link, tracker>>
           \/ /\ k \in task.desired /\ link.state = "up"
              /\ task' = t /\ UNCHANGED tracker
              /\ link' = [link EXCEPT !.requests = Append(@, <<"unwatch", k>>)]
           \/ /\ k \in task.desired /\ link.state = "broken"
              /\ Disconnect(t)

\* Commands are served while connected and idle, while a burst waits, and
\* while there is no connection.
TakeCommand ==
    /\ TaskIdle /\ queues.commands # <<>>
    /\ task.replay = <<>> \/ task.burst \/ link.state = "none"
    /\ LET command == Head(queues.commands)
           rest == Tail(queues.commands)
       IN  IF command[1] = "Resolve" THEN TakeResolve(command[2], command[3], rest)
           ELSE TakeForget(command[2], rest)
    /\ UNCHANGED engine

BurstElapses ==
    /\ TaskIdle /\ task.burst
    /\ task' = Drained([task EXCEPT !.burst = FALSE])
    /\ UNCHANGED <<engine, queues, link, tracker>>

\* One reconciliation goes out before anything else is served.
Reconcile ==
    /\ TaskIdle /\ task.replay # <<>> /\ ~task.burst
    /\ LET item == Head(task.replay)
           t == [task EXCEPT !.replay = Tail(@)]
       IN  \/ /\ link.state = "up"
              /\ Call(t, IF item[1] = "Rewatch" THEN "watch" ELSE "by_key", item[2], None)
           \/ link.state = "broken" /\ Disconnect(t)
    /\ UNCHANGED <<engine, queues>>

\* A message is read: by the call that waits for its reply, or by an idle poll.
ReadChange ==
    /\ link.messages # <<>> /\ Head(link.messages)[1] = "changed"
    /\ ~TaskIdle \/ (task.replay = <<>> /\ ~task.burst)
    /\ LET k == Head(link.messages)[2]
           t == [task EXCEPT !.invalidated =
                   IF \E i \in DOMAIN @ : @[i] = k THEN @ ELSE Append(@, k)]
       IN  task' = IF TaskIdle THEN Drained(t) ELSE t
    /\ link' = [link EXCEPT !.messages = Tail(@)]
    /\ UNCHANGED <<engine, queues, tracker>>

\* Mutant: a record found is not remembered as one of interest.
InterestNotKept(op, k, answer) ==
    IF op = "watch" /\ answer = NotFound THEN task.desired \ {k} ELSE task.desired

\* watch: a record found is of interest from now on, one not found no longer.
Interest(op, k, answer) ==
    IF op # "watch" \/ answer = Failed THEN task.desired
    ELSE IF answer = NotFound THEN task.desired \ {k} ELSE task.desired \cup {k}

\* The task returns to the top of its loop, or to the wait for the burst.
AfterCall(t) == IF t.burst THEN t ELSE Drained(t)

ReadReply ==
    /\ link.messages # <<>> /\ Head(link.messages)[1] = "reply"
    /\ LET call == task.call
           answer == Head(link.messages)[2]
           read == [link EXCEPT !.messages = Tail(@)]
           t == [task EXCEPT !.call = None, !.desired = Interest(call.op, call.key, answer)]
       IN  \/ /\ call.op = "by_address" /\ answer \in Versions
              /\ task' = [task EXCEPT !.call.op = "watch"]
              /\ link' = [read EXCEPT !.requests = Append(@, <<"watch", call.key>>)]
              /\ UNCHANGED <<queues, tracker>>
           \/ /\ call.id # None /\ ~(call.op = "by_address" /\ answer \in Versions)
              /\ task' = AfterCall(t)
              /\ link' = read /\ UNCHANGED tracker
              /\ SendEvent(<<"Resolved", call.id, call.key, answer>>)
           \/ /\ call.id = None /\ answer # Failed
              /\ task' = AfterCall(t)
              /\ link' = read /\ UNCHANGED tracker
              /\ SendEvent(<<"PeerUpdated", call.key, answer>>)
           \/ /\ call.id = None /\ answer = Failed
              /\ Disconnect(t) /\ UNCHANGED queues
    /\ UNCHANGED engine

\* The call times out, or the connection ends under it.
CallFails ==
    /\ ~TaskIdle /\ link.state = "broken"
    /\ IF task.call.id = None THEN UNCHANGED queues
       ELSE SendEvent(<<"Resolved", task.call.id, task.call.key, Failed>>)
    /\ Disconnect(task)
    /\ UNCHANGED engine

\* An idle poll meets the end of the connection.
PollFails ==
    /\ TaskIdle /\ task.replay = <<>> /\ ~task.burst
    /\ link.state = "broken" /\ link.messages = <<>>
    /\ Disconnect(task)
    /\ UNCHANGED <<engine, queues>>

-------------------------------------------------------------------------------
(* The tracker.                                                              *)

Lookups(k) == IF k \in tracker.absent THEN NotFound ELSE tracker.version[k]

\* Mutant: the record is sampled without registering the watch.
WatchedLate(k) == tracker

\* The tracker's state after a watch of k, sampled under the registry lock.
Watched(k) ==
    IF k \in tracker.absent
    THEN [tracker EXCEPT !.watched = @ \ {k}, !.pending = @ \ {k}]
    ELSE [tracker EXCEPT !.watched = @ \cup {k}]

\* The reader task computes an answer; the notifier may write before it does.
Serve ==
    /\ link.requests # <<>> /\ tracker.reply = None
    /\ LET op == Head(link.requests)[1]
           k == Head(link.requests)[2]
           served == [link EXCEPT !.requests = Tail(@)]
       IN  \/ /\ op = "unwatch"
              /\ tracker' = [tracker EXCEPT !.watched = @ \ {k}, !.pending = @ \ {k}]
              /\ link' = served
           \/ /\ op = "watch"
              /\ tracker' = [Watched(k) EXCEPT !.reply = Lookups(k)]
              /\ link' = served
           \/ /\ op \in {"by_key", "by_address"}
              /\ tracker' = [tracker EXCEPT !.reply = Lookups(k)]
              /\ link' = served
           \/ /\ op # "unwatch" /\ link.faults < MaxFaults    \* rate limited
              /\ tracker' = [tracker EXCEPT !.reply = Failed]
              /\ link' = [served EXCEPT !.faults = @ + 1]
    /\ UNCHANGED <<engine, queues, task>>

WriteReply ==
    /\ tracker.reply # None
    /\ link' = [link EXCEPT !.messages = Append(@, <<"reply", tracker.reply>>)]
    /\ tracker' = [tracker EXCEPT !.reply = None]
    /\ UNCHANGED <<engine, queues, task>>

Notify ==
    /\ \E k \in tracker.pending :
         /\ link' = [link EXCEPT !.messages = Append(@, <<"changed", k>>)]
         /\ tracker' = [tracker EXCEPT !.pending = @ \ {k}]
    /\ UNCHANGED <<engine, queues, task>>

\* The registry changes and dispatches to the watchers of the key.
Publish(k) ==
    /\ tracker.version[k] < MaxVersion
    /\ \E absent \in {tracker.absent \ {k}}
                       \cup (IF Removals THEN {tracker.absent \cup {k}} ELSE {}) :
         tracker' = [tracker EXCEPT !.version[k] = @ + 1, !.absent = absent,
                       !.pending = IF k \in tracker.watched THEN @ \cup {k} ELSE @]
    /\ UNCHANGED <<engine, queues, task, link>>

\* The connection dies; what was already received may still be read.
LoseLink ==
    /\ link.state = "up" /\ link.faults < MaxFaults
    /\ \E n \in 0..Len(link.messages) :
         link' = [state |-> "broken", requests |-> <<>>,
                  messages |-> SubSeq(link.messages, 1, n), faults |-> link.faults + 1]
    /\ tracker' = Unsubscribed
    /\ UNCHANGED <<engine, queues, task>>

-------------------------------------------------------------------------------
SyncInit ==
    /\ engine = [held |-> [k \in PeerKeys |-> None], lookups |-> {}]
    /\ queues = [commands |-> <<>>, forgets |-> <<>>, events |-> <<>>]
    /\ task = [desired |-> {}, replay |-> <<>>, burst |-> FALSE, invalidated |-> <<>>, call |-> None]
    /\ link = [state |-> "none", requests |-> <<>>, messages |-> <<>>, faults |-> 0]
    /\ tracker = [version |-> [k \in PeerKeys |-> 0], absent |-> {}, watched |-> {},
                  pending |-> {}, reply |-> None]

\* Steps of the runner, the resolver task and the tracker
System ==
    \/ Deliver \/ Retry
    \/ Establish \/ TakeCommand \/ BurstElapses \/ Reconcile
    \/ ReadChange \/ ReadReply \/ CallFails \/ PollFails
    \/ Serve \/ WriteReply \/ Notify

SyncNext ==
    \/ System
    \/ \E q \in PeerQueries : Lookup(q)
    \/ \E l \in engine.lookups : Expire(l)
    \/ \E k \in PeerKeys : Publish(k)
    \/ LoseLink

SyncSpec == SyncInit /\ [][SyncNext]_syncVars

\* The runner, the resolver task and the tracker's tasks keep running, and a
\* reconnect attempt eventually succeeds.
SyncFairness ==
    /\ WF_syncVars(Deliver) /\ WF_syncVars(Retry)
    /\ WF_syncVars(Establish) /\ WF_syncVars(TakeCommand) /\ WF_syncVars(BurstElapses)
    /\ WF_syncVars(Reconcile) /\ WF_syncVars(ReadChange) /\ WF_syncVars(ReadReply)
    /\ WF_syncVars(CallFails) /\ WF_syncVars(PollFails)
    /\ WF_syncVars(Serve) /\ WF_syncVars(WriteReply) /\ WF_syncVars(Notify)

SyncFairSpec == SyncSpec /\ SyncFairness

-------------------------------------------------------------------------------
(* Properties.                                                               *)

Current(k) == engine.held[k] = None \/ engine.held[k] = Lookups(k)

\* Connected, and nothing under way between registry and engine.
Quiet ==
    /\ link.state = "up" /\ link.requests = <<>> /\ link.messages = <<>>
    /\ tracker.pending = {} /\ tracker.reply = None
    /\ TaskIdle /\ task.replay = <<>> /\ ~task.burst
    /\ queues.commands = <<>> /\ queues.forgets = <<>> /\ queues.events = <<>>

\* The client watches the keys it retains: a record the engine holds is of
\* interest to the resolver task, or its removal is on the way to the engine.
HeldIsOfInterest ==
    \A k \in HeldKeys(engine) :
        \/ k \in task.desired
        \/ \E i \in DOMAIN queues.events : queues.events[i] = <<"PeerUpdated", k, NotFound>>

\* A record is never replaced by an older one.
NeverBackwards ==
    \A k \in PeerKeys : engine.held[k] # None /\ engine'.held[k] # None
                      => engine'.held[k] >= engine.held[k]

\* Registry, tracker connection, resolver task and engine stay in step through
\* lookups, reconnects and coalesced notifications.  What the engine holds is of
\* interest to the task (resolver_task, apply_forget, flush_sink_output); once
\* nothing is under way the connection's watches are the task's interest and what
\* is held is what the registry has (establish, drain_invalidated, the tracker's
\* watch); and answers reach the engine in the order the registry was sampled
\* (one call at a time).
StaysInStep ==
    /\ [](/\ SyncTypeOK
          /\ HeldIsOfInterest
          /\ Quiet => tracker.watched = task.desired /\ \A k \in PeerKeys : Current(k))
    /\ [][NeverBackwards]_syncVars

\* Once nothing is under way, the connection watches every key the engine holds
\* ("The client explicitly watches the peer keys it retains",
\* docs/microtun-peers-api.md:779).  It is not so where one record is reached by
\* its key and by an address and is removed meanwhile: the miss of the lookup by
\* address ends the watch of the key, and the engine keeps the record.
HeldIsWatched == Quiet => HeldKeys(engine) \subseteq tracker.watched

\* A record that is out of date does not stay so: it is replaced, or gone
\* (resolver_task's reconciliation after a notification or a reconnect).
StaleIsReconciled == \A k \in PeerKeys : ~Current(k) ~> Current(k)
===============================================================================
