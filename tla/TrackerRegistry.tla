--------------------------- MODULE TrackerRegistry ---------------------------
(* The tracker's published registry: a configuration reloaded from a file,   *)
(* the endpoints learned from its own tunnel laid over it, and everyone who  *)
(* must hear of a change: the Peers API connections, through the keyed       *)
(* dispatcher, and the tracker's own tunnel, through a bounded broadcast     *)
(* stream and the local resolver task.  The tunnel is reduced to the records *)
(* it was given and to one lookup at a time.                                 *)
EXTENDS Naturals, SequencesExt, Optional

CONSTANTS
    Documents,          \* what the configuration file may hold
    FirstDocument,      \* what it holds at start
    OwnKey,             \* the tracker's public key
    OwnPrefix,          \* the host prefix of its tunnel address
    LearnedEndpoints,   \* direct endpoints the tunnel may learn
    Subscribers,        \* identities of Peers API connections
    StreamDepth,        \* capacity of the broadcast channel
    EventRoom,          \* capacity of the tunnel's event channel
    MaxEdits,           \* bound: edits of the file
    MaxLearned,         \* bound: endpoint observations
    MaxQueries          \* bound: lookups of the tunnel

ASSUME DocumentsAssumption ==
    /\ FirstDocument \in Documents /\ FirstDocument.kind = "loaded"
    /\ \A doc \in Documents : doc.kind \in {"read_error", "parse_error", "loaded"}
    /\ \A doc \in Documents : doc.kind = "loaded" => \A i \in DOMAIN doc.peers :
         DOMAIN doc.peers[i] = {"name", "key", "endpoint", "relay", "addr"}
    /\ StreamDepth \in Nat \ {0} /\ EventRoom \in Nat \ {0}
    /\ MaxEdits \in Nat /\ MaxLearned \in Nat /\ MaxQueries \in Nat

VARIABLES
    disk,       \* the file, what the reload saw last, edits so far
    published,  \* config: the records; observed: learned endpoints; learned: how many
    dispatch,   \* connections, by_key, by_caller, and what each is still owed
    local,      \* the local resolver task, and the channels on both of its sides
    tunnel      \* given: the record held per key; waiting for an answer; late keys

registryVars == <<disk, published, dispatch, local, tunnel>>

-------------------------------------------------------------------------------
(* The configuration file.  What the TOML parser and validate_base_config    *)
(* refuse is a document of kind "parse_error".                               *)

OwnDraft == [name |-> None, key |-> OwnKey, endpoint |-> None, relay |-> None, addr |-> OwnPrefix]
Drafts(doc) == {OwnDraft} \cup {doc.peers[i] : i \in DOMAIN doc.peers}

NamesDiffer(doc) == \A i, j \in DOMAIN doc.peers : doc.peers[i].name = doc.peers[j].name => i = j

\* A relay is "self", the name of a peer, or a public key.
RelayKey(drafts, value) ==
    IF value = "self" THEN OwnKey
    ELSE IF \E d \in drafts : d.name = value THEN (CHOOSE d \in drafts : d.name = value).key
    ELSE value

\* Mutant: the relay of a relay is not looked at.
RelayAllowsChain(drafts, d) ==
    LET key == RelayKey(drafts, d.relay)
    IN  d.relay = None \/ (key # d.key /\ \E r \in drafts : r.key = key)

\* A relay is another peer of the file, which is not relayed itself.
RelayAllowed(drafts, d) ==
    LET key == RelayKey(drafts, d.relay)
    IN  d.relay = None \/ (key # d.key /\ \E r \in drafts : r.key = key /\ r.relay = None)

Resolve(drafts) ==
    {[key |-> d.key, endpoint |-> d.endpoint, addr |-> d.addr,
      relay |-> IF d.relay = None THEN None ELSE RelayKey(drafts, d.relay)] : d \in drafts}

\* build: two records may share neither their key nor their prefix.
Build(doc) ==
    /\ \A i \in DOMAIN doc.peers : doc.peers[i].key # OwnKey /\ doc.peers[i].addr # OwnPrefix
    /\ \A i, j \in DOMAIN doc.peers :
         i # j => doc.peers[i].key # doc.peers[j].key /\ doc.peers[i].addr # doc.peers[j].addr

Parsed(doc) ==
    /\ doc.kind = "loaded" /\ NamesDiffer(doc)
    /\ \A d \in Drafts(doc) : RelayAllowed(Drafts(doc), d)
    /\ Build(doc)

\* The tracker does not start without a configuration it can use.
ASSUME StartAssumption == Parsed(FirstDocument)

AllDrafts == UNION {Drafts(doc) : doc \in {x \in Documents : x.kind = "loaded"}}
PeerKeys == {d.key : d \in AllDrafts}
TunnelPrefixes == {d.addr : d \in AllDrafts}

-------------------------------------------------------------------------------
(* Records, and the one rule for the endpoint that is served.                *)

LookupKey(p, k) ==
    IF \E r \in p.config : r.key = k THEN CHOOSE r \in p.config : r.key = k ELSE None
LookupAddress(p, a) ==
    IF \E r \in p.config : r.addr = a THEN CHOOSE r \in p.config : r.addr = a ELSE None

EffectiveEndpoint(p, r) == IF p.observed[r.key] # None THEN p.observed[r.key] ELSE r.endpoint

ResolvedWithEndpoint(p, r) == [r EXCEPT !.endpoint = EffectiveEndpoint(p, r)]

\* The record served under key k.
Effective(p, k) ==
    LET r == LookupKey(p, k)
    IN  IF r = None THEN None ELSE ResolvedWithEndpoint(p, r)

\* resolve_record: the tracker is the relay it would otherwise name.
ResolveRecord(p, r) ==
    IF r = None THEN None
    ELSE [ResolvedWithEndpoint(p, r) EXCEPT !.relay = IF @ = OwnKey THEN None ELSE @]

-------------------------------------------------------------------------------
(* The keyed dispatcher.                                                     *)

NoConnection == [open |-> FALSE, caller |-> None, watched |-> {}, closed |-> FALSE,
                 pending |-> [k \in PeerKeys |-> None], owed |-> {}]

Unlisted(byKey, c, keys) == [k \in PeerKeys |-> IF k \in keys THEN byKey[k] \ {c} ELSE byKey[k]]

Subscribe(d, c, caller) ==
    [d EXCEPT !.conn[c] = [NoConnection EXCEPT !.open = TRUE, !.caller = caller],
              !.byCaller[caller] = @ \cup {c}]

WatchKey(d, c, k) ==
    IF d.conn[c].closed \/ k \in d.conn[c].watched THEN d
    ELSE [d EXCEPT !.conn[c].watched = @ \cup {k}, !.byKey[k] = @ \cup {c}]

UnwatchKey(d, c, k) ==
    IF k \notin d.conn[c].watched THEN d
    ELSE [d EXCEPT !.conn[c].watched = @ \ {k}, !.conn[c].pending[k] = None,
                   !.conn[c].owed = @ \ {k}, !.byKey[k] = @ \ {c}]

\* The last handle of the connection is dropped.
Unsubscribe(d, c) ==
    [d EXCEPT !.conn[c] = NoConnection,
              !.byCaller[d.conn[c].caller] = @ \ {c},
              !.byKey = Unlisted(@, c, d.conn[c].watched)]

Push(conn, change) ==
    IF conn.closed THEN conn ELSE [conn EXCEPT !.pending[change.key] = change.kind]

\* Connections of a removed caller are closed and lose their watches.
CallersClosed(d, change) ==
    LET gone == IF change.kind = "Removed" THEN d.byCaller[change.key] ELSE {}
    IN  [d EXCEPT !.conn = [c \in Subscribers |-> IF c \in gone
                              THEN [d.conn[c] EXCEPT !.closed = TRUE, !.watched = {}, !.owed = {}]
                              ELSE d.conn[c]],
                  !.byKey = [k \in PeerKeys |-> d.byKey[k] \ {c \in gone : k \in d.conn[c].watched}]]

DispatchPeer(d, change) ==
    LET e == CallersClosed(d, change)
    IN  [e EXCEPT !.conn = [c \in Subscribers |->
           IF c \in e.byKey[change.key]
                /\ ~(change.kind = "Removed" /\ e.conn[c].caller = change.key)
           THEN Push(e.conn[c], change) ELSE e.conn[c]]]

\* What every connection watching a changed key has to be told, by its watches.
Owing(d, changes) ==
    [d EXCEPT !.conn = [c \in Subscribers |-> [d.conn[c] EXCEPT !.owed =
        @ \cup {k \in d.conn[c].watched : \E i \in DOMAIN changes : changes[i].key = k}]]]

-------------------------------------------------------------------------------
(* Publication, under the registry's write lock.                             *)

\* The broadcast channel keeps the newest StreamDepth changes.
Broadcast(l, changes) ==
    LET all == l.stream \o [i \in DOMAIN changes |-> changes[i].key]
        excess == IF Len(all) > StreamDepth THEN Len(all) - StreamDepth ELSE 0
    IN  [l EXCEPT !.stream = SubSeq(all, excess + 1, Len(all)), !.lagged = @ \/ excess > 0]

\* Publish p and announce the keys whose served record changed, in any order.
Announce(p) ==
    LET changed == {k \in PeerKeys : Effective(published, k) # Effective(p, k)}
        Change(k) == [key |-> k, kind |-> IF LookupKey(p, k) = None THEN "Removed" ELSE "Changed"]
    IN  \E order \in SetToSeqs(changed) :
          LET changes == [i \in DOMAIN order |-> Change(order[i])]
          IN  /\ published' = p
              /\ dispatch' = FoldLeft(DispatchPeer, Owing(dispatch, changes), changes)
              /\ local' = Broadcast(local, changes)

\* replace: learned endpoints survive unless their key is gone.
ReplaceWith(records) ==
    Announce([published EXCEPT !.config = records,
                !.observed = [k \in PeerKeys |-> IF \E r \in records : r.key = k THEN @[k] ELSE None]])

\* observe_endpoint: the tunnel authenticated k at endpoint e.
ObserveEndpoint(k, e) ==
    /\ published.learned < MaxLearned
    /\ LookupKey(published, k) # None /\ published.observed[k] # e
    /\ Announce([published EXCEPT !.observed[k] = e, !.learned = @ + 1])
    /\ UNCHANGED <<disk, tunnel>>

Edit(doc) ==
    /\ disk.edits < MaxEdits /\ disk.file # doc
    /\ disk' = [disk EXCEPT !.file = doc, !.edits = @ + 1]
    /\ UNCHANGED <<published, dispatch, local, tunnel>>

-------------------------------------------------------------------------------
(* The local resolver task.  It reads the registry, then waits for room in   *)
(* the event channel; a lag leaves it with every held key to send.           *)

LocalIdle(l) == l.sending = None /\ l.todo = <<>>

\* validate_reload: what the tunnel was built from may not change.
Loadable(doc) == Parsed(doc) /\ doc.fixed = FirstDocument.fixed

\* One tick of the reload timer.  A file that cannot be read, parsed or
\* applied is remembered and changes nothing.
ReloadIfChanged ==
    /\ LocalIdle(local) /\ disk.seen # disk.file
    /\ disk' = [disk EXCEPT !.seen = disk.file]
    /\ IF Loadable(disk.file) THEN ReplaceWith(Resolve(Drafts(disk.file)))
       ELSE UNCHANGED <<published, dispatch, local>>
    /\ UNCHANGED tunnel

ResolveShared(p, q) ==
    ResolveRecord(p, IF q[1] = "key" THEN LookupKey(p, q[2]) ELSE LookupAddress(p, q[2]))

ServeCommand ==
    /\ LocalIdle(local) /\ local.commands # <<>>
    /\ LET command == Head(local.commands)
           rest == [local EXCEPT !.commands = Tail(@)]
           outcome == ResolveShared(published, command[2])
       IN  local' = IF command[1] = "Forget" THEN [rest EXCEPT !.held = @ \ {command[2]}]
                    ELSE [rest EXCEPT !.sending = <<"Resolved", None, outcome>>,
                                      !.held = IF outcome = None THEN @ ELSE @ \cup {outcome.key}]
    /\ UNCHANGED <<disk, published, dispatch, tunnel>>

\* send_update up to its await.
Update(l, k) ==
    [l EXCEPT !.sending = <<"PeerUpdated", k, ResolveRecord(published, LookupKey(published, k))>>]

\* Mutant: a lagging task goes on with the changes it still finds.
LaggedIgnored(l) == {[l EXCEPT !.lagged = FALSE]}

\* After a lag every held key is sent again.
Lagged(l) == {[l EXCEPT !.lagged = FALSE, !.todo = order] : order \in SetToSeqs(l.held)}

TakeChange ==
    /\ LocalIdle(local)
    /\ \/ local.lagged /\ local' \in Lagged(local)
       \/ /\ ~local.lagged /\ local.stream # <<>>
          /\ LET k == Head(local.stream)
                 rest == [local EXCEPT !.stream = Tail(@)]
             IN  local' = IF k \in local.held THEN Update(rest, k) ELSE rest
    /\ UNCHANGED <<disk, published, dispatch, tunnel>>

NextOfLag ==
    /\ local.sending = None /\ local.todo # <<>>
    /\ local' = Update([local EXCEPT !.todo = Tail(@)], Head(local.todo))
    /\ UNCHANGED <<disk, published, dispatch, tunnel>>

SendEvent ==
    /\ local.sending # None /\ Len(local.events) < EventRoom
    /\ local' = [local EXCEPT !.events = Append(@, local.sending), !.sending = None]
    /\ UNCHANGED <<disk, published, dispatch, tunnel>>

-------------------------------------------------------------------------------
(* The tracker's own tunnel.                                                 *)

Released(l, k) == [l EXCEPT !.commands = Append(@, <<"Forget", k>>)]

\* A release decided while an answer is on its way may reach the task after
\* the lookup; module PeerSync is about that race, and the key is set apart.
LateIf(t, k) == IF t.waiting THEN t.late \cup {k} ELSE t.late

TunnelAsks(q) ==
    /\ ~tunnel.waiting /\ tunnel.queries < MaxQueries
    /\ IF q[1] = "key" THEN tunnel.given[q[2]] = None
       ELSE \A k \in PeerKeys : tunnel.given[k] # None => tunnel.given[k].addr # q[2]
    /\ tunnel' = [tunnel EXCEPT !.waiting = TRUE, !.queries = @ + 1]
    /\ local' = [local EXCEPT !.commands = Append(@, <<"Resolve", q>>)]
    /\ UNCHANGED <<disk, published, dispatch>>

\* An answer is installed or, without room for a new peer, refused.
Given(l, r) ==
    \/ /\ tunnel' = [tunnel EXCEPT !.waiting = FALSE, !.given[r.key] = r]
       /\ local' = l
    \/ /\ tunnel.given[r.key] = None
       /\ tunnel' = [tunnel EXCEPT !.waiting = FALSE]
       /\ local' = Released(l, r.key)

TunnelEvent ==
    /\ local.events # <<>>
    /\ LET event == Head(local.events)
           rest == [local EXCEPT !.events = Tail(@)]
           k == event[2]
       IN  \/ event[1] = "Resolved" /\ event[3] # None /\ Given(rest, event[3])
           \/ /\ event[1] = "Resolved" /\ event[3] = None
              /\ tunnel' = [tunnel EXCEPT !.waiting = FALSE] /\ local' = rest
           \/ /\ event[1] = "PeerUpdated" /\ tunnel.given[k] = None
              /\ local' = rest /\ UNCHANGED tunnel
           \/ /\ event[1] = "PeerUpdated" /\ tunnel.given[k] # None /\ event[3] # None
              /\ tunnel' = [tunnel EXCEPT !.given[k] = event[3]] /\ local' = rest
           \/ /\ event[1] = "PeerUpdated" /\ tunnel.given[k] # None /\ event[3] = None
              /\ tunnel' = [tunnel EXCEPT !.given[k] = None, !.late = LateIf(tunnel, k)]
              /\ local' = Released(rest, k)
    /\ UNCHANGED <<disk, published, dispatch>>

TunnelEvicts(k) ==
    /\ tunnel.given[k] # None
    /\ tunnel' = [tunnel EXCEPT !.given[k] = None, !.late = LateIf(tunnel, k)]
    /\ local' = Released(local, k)
    /\ UNCHANGED <<disk, published, dispatch>>

-------------------------------------------------------------------------------
(* Peers API connections.                                                    *)

\* A connection comes from a peer; it was configured when the check was made.
Subscribed(c, caller) ==
    /\ ~dispatch.conn[c].open /\ caller # OwnKey
    /\ dispatch' = Subscribe(dispatch, c, caller)
    /\ UNCHANGED <<disk, published, local, tunnel>>

\* peer.watch, under the registry's read lock: the answer is the record as of
\* the moment the key is indexed.
WatchRequest(c, k) ==
    /\ dispatch.conn[c].open /\ LookupKey(published, dispatch.conn[c].caller) # None
    /\ dispatch' = IF LookupKey(published, k) = None THEN UnwatchKey(dispatch, c, k)
                   ELSE [WatchKey(dispatch, c, k) EXCEPT !.conn[c].owed = @ \ {k}]
    /\ UNCHANGED <<disk, published, local, tunnel>>

UnwatchNotification(c, k) ==
    /\ dispatch.conn[c].open /\ LookupKey(published, dispatch.conn[c].caller) # None
    /\ k \in dispatch.conn[c].watched
    /\ dispatch' = UnwatchKey(dispatch, c, k)
    /\ UNCHANGED <<disk, published, local, tunnel>>

\* recv: one pending key, whichever the map yields; a closed queue ends the
\* connection, and so does a caller that is no longer configured.
Notified(c) ==
    LET conn == dispatch.conn[c]
    IN  /\ conn.open
        /\ \/ /\ conn.closed
              /\ dispatch' = Unsubscribe(dispatch, c)
           \/ /\ ~conn.closed
              /\ \E k \in PeerKeys :
                   /\ conn.pending[k] # None
                   /\ dispatch' = IF LookupKey(published, conn.caller) = None
                                  THEN Unsubscribe(dispatch, c)
                                  ELSE [dispatch EXCEPT !.conn[c].pending[k] = None,
                                                        !.conn[c].owed = @ \ {k}]
        /\ UNCHANGED <<disk, published, local, tunnel>>

Hangup(c) ==
    /\ dispatch.conn[c].open
    /\ dispatch' = Unsubscribe(dispatch, c)
    /\ UNCHANGED <<disk, published, local, tunnel>>

-------------------------------------------------------------------------------
RegistryInit ==
    /\ disk = [file |-> FirstDocument, seen |-> None, edits |-> 0]
    /\ published = [config |-> Resolve(Drafts(FirstDocument)), observed |-> [k \in PeerKeys |-> None],
                    learned |-> 0]
    /\ dispatch = [conn |-> [c \in Subscribers |-> NoConnection],
                   byKey |-> [k \in PeerKeys |-> {}], byCaller |-> [k \in PeerKeys |-> {}]]
    /\ local = [held |-> {}, stream |-> <<>>, lagged |-> FALSE, todo |-> <<>>, sending |-> None,
                commands |-> <<>>, events |-> <<>>]
    /\ tunnel = [given |-> [k \in PeerKeys |-> None], waiting |-> FALSE, late |-> {}, queries |-> 0]

Publishing ==
    \/ \E doc \in Documents : Edit(doc)
    \/ ReloadIfChanged
    \/ \E k \in PeerKeys, e \in LearnedEndpoints : ObserveEndpoint(k, e)

LocalSide ==
    \/ ServeCommand \/ TakeChange \/ NextOfLag \/ SendEvent \/ TunnelEvent
    \/ \E k \in PeerKeys : TunnelAsks(<<"key", k>>) \/ TunnelEvicts(k)
    \/ \E a \in TunnelPrefixes : TunnelAsks(<<"addr", a>>)

RemoteSide ==
    \/ \E c \in Subscribers, k \in PeerKeys :
         Subscribed(c, k) \/ WatchRequest(c, k) \/ UnwatchNotification(c, k)
    \/ \E c \in Subscribers : Notified(c) \/ Hangup(c)

RegistryNext == Publishing \/ LocalSide \/ RemoteSide

RegistrySpec == RegistryInit /\ [][RegistryNext]_registryVars

-------------------------------------------------------------------------------
(* Properties.                                                               *)

\* By_key and by_caller say exactly which connections watch and belong to a key, and
\* a connection that watches a key whose served record changed has the notification
\* pending until it is sent.
WatchersTold ==
    /\ \A k \in PeerKeys :
         /\ dispatch.byKey[k] = {c \in Subscribers : k \in dispatch.conn[c].watched}
         /\ dispatch.byCaller[k] = {c \in Subscribers : dispatch.conn[c].open /\ dispatch.conn[c].caller = k}
    /\ \A c \in Subscribers : \A k \in dispatch.conn[c].owed :
         ~dispatch.conn[c].closed => dispatch.conn[c].pending[k] # None

\* Once the local resolver's channels are drained, the tunnel's records are the ones
\* now served.
LocalIsCurrent ==
    local.commands = <<>> /\ local.events = <<>> /\ local.stream = <<>> /\ ~local.lagged /\ LocalIdle(local)
      => \A k \in PeerKeys \ tunnel.late : tunnel.given[k] # None =>
           tunnel.given[k] = ResolveRecord(published, LookupKey(published, k))

\* Nobody who holds a record misses its change.  A connection that watches it has
\* the notification pending, whatever the other connections do (KeyedDispatcher);
\* the tracker's own tunnel ends up with what is served, though a change may have
\* arrived between the read of a record and its delivery, the change stream may
\* have lagged, and the file may have been broken in between (tracker/resolver.rs).
ChangesReachHolders == WatchersTold /\ LocalIsCurrent

\* What is served can be used (config::resolve, replace): at every time each
\* relay named by a served record has a served record that is not relayed,
\* whichever broken or partial edits of the file were seen on the way.
RelaysServed ==
    \A r \in published.config : r.relay # None =>
      \E s \in published.config : s.key = r.relay /\ s.relay = None
===============================================================================
