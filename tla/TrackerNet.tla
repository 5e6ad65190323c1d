------------------------------ MODULE TrackerNet ------------------------------
(* The tracker's virtual TCP listener: tunnel packets go to a user-space TCP    *)
(* stack, and an accepted stream must carry the key of the peer that opened it. *)
(* The key is noted per endpoint when a SYN passes, and looked up at accept.    *)
(* The TCP state machine (smoltcp) is external: the transitions this code reads *)
(* off a socket.  A socket handle is an index that the next socket reuses.      *)
EXTENDS Naturals, Sequences, SequencesExt, FiniteSets, Functions, Optional

CONSTANTS
    Keys,          \* peers
    Endpoints,     \* (address, port) pairs
    MaxPending,    \* MAX_PENDING_ENDPOINTS
    Backlog,
    QueueDepth,    \* STACK_QUEUE_DEPTH
    MaxSegments, MaxMoves   \* bounds: segments sent, addresses given to another peer

VARIABLES
    owner,         \* endpoint -> the peer whose packets from it the core lets through
    pendingKeys,   \* PendingKeys.connections
    order,         \* PendingKeys.order
    inbound,       \* the queue to the stack: [from, key, seg]
    sockets,       \* handle -> [state, remote, opener, moved]
    listeners, acceptQueue, closing,   \* Inner: handles
    streams,       \* handle -> the remote_peer_key of a live SmolTcpStream
    segments, moves

netVars == <<owner, pendingKeys, order, inbound, sockets, listeners, acceptQueue, closing,
             streams, segments, moves>>

Without(f, x) == Restrict(f, DOMAIN f \ {x})
Extended(f, x, y) == [z \in DOMAIN f \cup {x} |-> IF z = x THEN y ELSE f[z]]

\* Mutant: an endpoint already noted keeps its first key.
RecordedFirst(from, key) ==
    IF from \in DOMAIN pendingKeys THEN pendingKeys ELSE Extended(pendingKeys, from, key)

\* PendingKeys::record: the key that sent the SYN last.
Recorded(from, key) == Extended(pendingKeys, from, key)

\* SmolTcpNic::send: a SYN notes its key, evicting the oldest.
NicSend(from, seg) ==
    /\ segments < MaxSegments /\ Len(inbound) < QueueDepth
    /\ segments' = segments + 1
    /\ inbound' = Append(inbound, [from |-> from, key |-> owner[from], seg |-> seg])
    /\ IF seg # "syn" THEN UNCHANGED <<pendingKeys, order>>
       ELSE LET queue == IF from \in DOMAIN pendingKeys THEN order ELSE Append(order, from)
                full == Len(queue) > MaxPending
            IN  /\ order' = IF full THEN Tail(queue) ELSE queue
                /\ pendingKeys' = IF full THEN Without(Recorded(from, owner[from]), Head(queue))
                                  ELSE Recorded(from, owner[from])
    /\ UNCHANGED <<owner, sockets, listeners, acceptQueue, closing, streams, moves>>

-------------------------------------------------------------------------------
(* The stack. *)
Listening == [state |-> "listen", remote |-> None, opener |-> None, moved |-> FALSE]
Fresh(used) == CHOOSE h \in 1 .. Cardinality(used) + 1 :
                   h \notin used /\ \A i \in 1 .. h - 1 : i \in used

\* A segment goes to the connection of its endpoint; a SYN without one takes a
\* listening socket, if any.
Deliver(ss, s) ==
    LET mine == {h \in DOMAIN ss : ss[h].remote = s.from /\ ss[h].state # "listen"}
        idle == {h \in DOMAIN ss : ss[h].state = "listen"}
        of(h) == ss[h].state
        To(h, st) == [ss EXCEPT ![h].state = st]
        Gone(h) == [ss EXCEPT ![h].state = "closed", ![h].remote = None]
    IN  IF mine = {}
        THEN IF s.seg # "syn" \/ idle = {} THEN ss
             ELSE [ss EXCEPT ![CHOOSE h \in idle : \A i \in idle : h <= i] =
                      [state |-> "received", remote |-> s.from, opener |-> s.key,
                       moved |-> s.key # owner[s.from]]]
        ELSE LET h == CHOOSE h \in mine : TRUE
             IN  CASE s.seg = "syn" -> ss
                   [] s.seg = "ack" /\ of(h) = "received"    -> To(h, "established")
                   [] s.seg = "ack" /\ of(h) = "closing"     -> Gone(h)
                   [] s.seg = "fin" /\ of(h) = "established" -> To(h, "wait")
                   [] s.seg = "fin" /\ of(h) = "closing"     -> Gone(h)
                   [] s.seg = "rst" /\ of(h) = "received"    -> [ss EXCEPT ![h] = Listening]
                   [] s.seg = "rst" /\ of(h) # "received"    -> Gone(h)
                   [] OTHER -> ss

\* Sockets of connections that said nothing for TCP_IDLE_TIMEOUT.
Expired(ss, dead) ==
    [h \in DOMAIN ss |->
        IF h \in dead THEN [ss[h] EXCEPT !.state = "closed", !.remote = None] ELSE ss[h]]

\* poll_once: poll_iface, harvest_accepts, cleanup_closed_streams.
PollOnce ==
    \E dead \in {{}} \cup {{h} : h \in {i \in DOMAIN sockets : sockets[i].state # "listen"}} :
        LET polled == Expired(FoldLeft(Deliver, sockets, inbound), dead)
            up == {h \in listeners : polled[h].state = "established"}
            replaced == FoldFunctionOnSet(LAMBDA h, ss : Extended(ss, Fresh(DOMAIN ss), Listening),
                                          polled, [h \in up |-> h], up)
            done == {h \in closing : polled[h].state = "closed"}
        IN  /\ inbound # <<>> \/ dead # {} \/ up # {} \/ done # {}
            /\ acceptQueue' = acceptQueue \o SetToSeq(up)
            /\ listeners' = (listeners \ up) \cup (DOMAIN replaced \ DOMAIN polled)
            /\ sockets' = Restrict(replaced, DOMAIN replaced \ done)
            /\ closing' = closing \ done
            /\ inbound' = <<>>
            /\ UNCHANGED <<owner, pendingKeys, order, streams, segments, moves>>

-------------------------------------------------------------------------------
\* accept: the key noted for the socket's endpoint, and the note is used up.
Accept ==
    /\ acceptQueue # <<>>
    /\ LET h == Head(acceptQueue)
           from == sockets[h].remote
           known == from # None /\ from \in DOMAIN pendingKeys
       IN  /\ streams' = Extended(streams, h, IF known THEN pendingKeys[from] ELSE None)
           /\ pendingKeys' = IF known THEN Without(pendingKeys, from) ELSE pendingKeys
           /\ order' = IF known THEN SelectSeq(order, LAMBDA e : e # from) ELSE order
    /\ acceptQueue' = Tail(acceptQueue)
    /\ UNCHANGED <<owner, inbound, sockets, listeners, closing, segments, moves>>

ClosedBy(s) == IF s.state \in {"established", "wait"} THEN [s EXCEPT !.state = "closing"] ELSE s

\* poll_shutdown.
ShutStream(h) ==
    /\ sockets[h].state \in {"established", "wait"}
    /\ sockets' = [sockets EXCEPT ![h] = ClosedBy(@)]
    /\ UNCHANGED <<owner, pendingKeys, order, inbound, listeners, acceptQueue, closing, streams,
                   segments, moves>>

\* SmolTcpStream::drop: the socket goes at once if TCP is done with it.
DropStream(h) ==
    /\ streams' = Without(streams, h)
    /\ IF sockets[h].state = "closed"
       THEN sockets' = Without(sockets, h) /\ closing' = closing \ {h}
       ELSE sockets' = [sockets EXCEPT ![h] = ClosedBy(@)] /\ closing' = closing \cup {h}
    /\ UNCHANGED <<owner, pendingKeys, order, inbound, listeners, acceptQueue, segments, moves>>

\* A reload gives an address to another peer.
MoveAddress(from, key) ==
    /\ moves < MaxMoves /\ owner[from] # key
    /\ moves' = moves + 1
    /\ owner' = [owner EXCEPT ![from] = key]
    /\ sockets' = [h \in DOMAIN sockets |->
           [sockets[h] EXCEPT !.moved = @ \/ (sockets[h].remote = from /\ h \notin DOMAIN streams)]]
    /\ UNCHANGED <<pendingKeys, order, inbound, listeners, acceptQueue, closing, streams, segments>>

NetInit ==
    /\ owner = [e \in Endpoints |-> CHOOSE k \in Keys : TRUE]
    /\ pendingKeys = <<>> /\ order = <<>> /\ inbound = <<>>
    /\ sockets = [h \in 1 .. Backlog |-> Listening]
    /\ listeners = 1 .. Backlog /\ acceptQueue = <<>> /\ closing = {} /\ streams = <<>>
    /\ segments = 0 /\ moves = 0

NetNext ==
    \/ \E from \in Endpoints, seg \in {"syn", "ack", "fin", "rst"} : NicSend(from, seg)
    \/ PollOnce
    \/ Accept
    \/ \E h \in DOMAIN streams : ShutStream(h) \/ DropStream(h)
    \/ \E from \in Endpoints, key \in Keys : MoveAddress(from, key)

NetSpec == NetInit /\ [][NetNext]_netVars

-------------------------------------------------------------------------------
\* The key an accepted stream carries is that of the peer that sent the SYN, while its
\* address stays with that peer, or none when the note was evicted or used up.
AttributedRight ==
    \A h \in DOMAIN streams :
        streams[h] # None => sockets[h].opener = streams[h] \/ sockets[h].moved

\* Every socket is in exactly one place, and its state is one of that place: after a
\* poll nothing established is left among the listeners, whose number is always the
\* backlog, and nothing outside them listens or is half open.  A listener may be dead:
\* harvest_accepts replaces one it sees established, not one whose connection timed
\* out half open, or came up and ended between two polls.
SocketsAccounted ==
    LET places == <<listeners, ToSet(acceptQueue), DOMAIN streams, closing>>
        StatesOf(handles) == {sockets[h].state : h \in handles}
    IN  /\ UNION ToSet(places) = DOMAIN sockets
        /\ \A i, j \in DOMAIN places : i # j => places[i] \cap places[j] = {}
        /\ IsInjective(acceptQueue)
        /\ Cardinality(listeners) = Backlog
        /\ StatesOf(listeners) \subseteq {"listen", "received", "wait", "closed"}
        /\ StatesOf(DOMAIN sockets \ listeners) \subseteq {"established", "wait", "closing", "closed"}

(* The tracker knows whom each connection comes from (record_syn, accept): a    *)
(* stream is never attributed to a peer that did not open it, whatever SYNs are *)
(* retransmitted, ports reused and addresses moved before; and although handles *)
(* are reused, no handle outlives its socket, nothing established is left       *)
(* unaccepted, and no socket is served that never came up.                      *)
StreamsAttributed == AttributedRight /\ SocketsAccounted
===============================================================================
