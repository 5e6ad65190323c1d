------------------------------- MODULE Firewall -------------------------------
(* The stateful ingress firewall of firewall.rs: a bounded table of flows the  *)
(* local side opened, with a count per peer.  A packet has addresses, ports    *)
(* and the header fields the parser looks at; one too short for its headers is *)
(* refused like any other that does not parse.  The table is a set: its order  *)
(* only breaks ties between victims seen at the same instant.                  *)
EXTENDS Naturals, FiniteSets, Optional

CONSTANTS
    FwPeers,
    OutPackets, InPackets,  \* inner packets offered in either direction
    MaxEntries,             \* max_entries
    MaxPerPeer,             \* max_entries_per_peer
    Timeout,                \* [udp, icmp, tcp, closing] -> duration
    MaxFwTime               \* bound: the last instant of a run

ASSUME FirewallAssumption ==
    /\ IsFiniteSet(FwPeers)
    /\ MaxEntries \in Nat /\ MaxPerPeer \in 1..MaxEntries
    /\ \A c \in {"udp", "icmp", "tcp", "closing"} : Timeout[c] \in Nat \ {0}

VARIABLES
    entries,        \* flows, records [peer, flow, expires, seen, closing]
    counts,         \* peer_counts
    fwNow,          \* the clock of the engine
    opener          \* history: the (peer, flow) opened by this step's packet

fwVars == <<entries, counts, fwNow, opener>>

-------------------------------------------------------------------------------
\* SYN+FIN, SYN+RST, FIN+RST and no flag at all are refused.
PlausibleTcpFlags(f) == Cardinality(f \cap {"SYN", "FIN", "RST"}) <= 1 /\ f # {}

FlowKey(pkt) ==
    [src |-> pkt.src, dst |-> pkt.dst, proto |-> pkt.proto, sport |-> pkt.sport, dport |-> pkt.dport]
IsReverseOf(k, o) ==
    /\ k.proto = o.proto /\ k.src = o.dst /\ k.dst = o.src
    /\ k.sport = o.dport /\ k.dport = o.sport

\* The flow of the packet an ICMP error quotes: an echo must be a request.
ParseQuoted(q) ==
    IF \/ q = None \/ q.fragment
       \/ q.proto \notin {"tcp", "udp", "icmp"}
       \/ q.proto = "icmp" /\ q.type # "request"
    THEN None ELSE FlowKey(q)

ParseIcmp(pkt) ==
    LET quoted == ParseQuoted(pkt.quoted) IN
    CASE pkt.type \in {"request", "reply"} -> [key |-> FlowKey(pkt), kind |-> pkt.type, flags |-> {}]
      [] pkt.type = "error" /\ quoted # None ->
           IF quoted.src # pkt.dst THEN None ELSE [key |-> quoted, kind |-> "error", flags |-> {}]
      [] OTHER -> None

ParseTransport(pkt) ==
    IF pkt.proto = "tcp" /\ ~PlausibleTcpFlags(pkt.flags) THEN None
    ELSE [key |-> FlowKey(pkt), kind |-> pkt.proto, flags |-> pkt.flags]

ParseFlow(pkt) ==
    CASE pkt.fragment -> None
      [] pkt.proto \in {"tcp", "udp"} /\ ~pkt.fragment -> ParseTransport(pkt)
      [] pkt.proto = "icmp" /\ ~pkt.fragment -> ParseIcmp(pkt)
      [] OTHER -> None

BareSyn(parsed) == parsed.kind = "tcp" /\ "SYN" \in parsed.flags /\ "ACK" \notin parsed.flags
OpensNewFlow(parsed) == parsed.kind \in {"udp", "request"} \/ BareSyn(parsed)
IsClosing(parsed) == parsed.kind = "tcp" /\ parsed.flags \cap {"FIN", "RST"} # {}

-------------------------------------------------------------------------------
EffectiveTimeout(flow, closing) ==
    IF flow.proto \in {"udp", "icmp"} THEN Timeout[flow.proto]
    ELSE IF closing THEN Timeout["closing"] ELSE Timeout["tcp"]

Live(e) == e.expires > fwNow
OfPeer(es, p) == {e \in es : e.peer = p}

\* Mutant: a closing flow that is seen again gets its full timeout back.
RefreshedFully(e, parsed) ==
    [e EXCEPT !.seen = fwNow, !.closing = IsClosing(parsed),
              !.expires = fwNow + EffectiveTimeout(e.flow, IsClosing(parsed))]

\* The entry after a packet of its flow, in either direction.
Refreshed(e, parsed) ==
    LET closing == e.closing \/ IsClosing(parsed) IN
    [e EXCEPT !.seen = fwNow, !.closing = closing,
              !.expires = fwNow + EffectiveTimeout(e.flow, closing)]

NewEntry(p, key) ==
    [peer |-> p, flow |-> key, expires |-> fwNow + EffectiveTimeout(key, FALSE),
     seen |-> fwNow, closing |-> FALSE]

\* victim_owned_by: a closing flow first, then the one seen longest ago.
Before(a, b) == IF a.closing # b.closing THEN a.closing ELSE a.seen <= b.seen
VictimsOwnedBy(es, p) == {v \in OfPeer(es, p) : \A o \in OfPeer(es, p) : Before(v, o)}

\* fair_victim: at its quota a peer recycles its own entries, and otherwise the
\* peer with most of them gives one, if it has more than the requester.
FairVictims(es, n, p) ==
    LET larger == {q \in FwPeers : n[q] > n[p]}
        largest == {q \in larger : \A o \in larger : n[o] <= n[q]}
    IN  IF n[p] >= MaxPerPeer \/ larger = {} THEN VictimsOwnedBy(es, p)
        ELSE UNION {VictimsOwnedBy(es, q) : q \in largest}

\* collect_expired and rebuild_peer_counts.
Unexpired == {e \in entries : Live(e)}
Rebuilt == IF Unexpired = entries THEN counts
           ELSE [q \in FwPeers |-> Cardinality(OfPeer(Unexpired, q))]

\* replace: the counts move when the entry changes hands.
Moved(n, v, p) == IF v.peer = p THEN n ELSE [n EXCEPT ![v.peer] = @ - 1, ![p] = @ + 1]

\* Mutant: a full table takes the entry from whoever has most.
OpenFlowUnfair(p, key) ==
    LET e == NewEntry(p, key) IN
    IF Rebuilt[p] < MaxPerPeer /\ Cardinality(Unexpired) < MaxEntries
    THEN /\ entries' = Unexpired \cup {e}
         /\ counts' = [Rebuilt EXCEPT ![p] = @ + 1]
    ELSE \E q \in FwPeers, v \in Unexpired :
            /\ \A o \in FwPeers : Rebuilt[o] <= Rebuilt[q]
            /\ v.peer = q
            /\ entries' = (Unexpired \ {v}) \cup {e}
            /\ counts' = Moved(Rebuilt, v, p)

\* The part of observe_outbound after a packet that may open a flow: push while
\* the peer and the table have room, else take the place of a victim.  There is
\* one: a full table, or a peer at its quota, has entries (limits above zero).
OpenFlow(p, key) ==
    LET e == NewEntry(p, key) IN
    \/ /\ Rebuilt[p] < MaxPerPeer /\ Cardinality(Unexpired) < MaxEntries
       /\ entries' = Unexpired \cup {e}
       /\ counts' = [Rebuilt EXCEPT ![p] = @ + 1]
    \/ /\ Rebuilt[p] >= MaxPerPeer \/ Cardinality(Unexpired) >= MaxEntries
       /\ \E v \in FairVictims(Unexpired, Rebuilt, p) :
            /\ entries' = (Unexpired \ {v}) \cup {e}
            /\ counts' = Moved(Rebuilt, v, p)

Matching(p, key) == {e \in entries : e.peer = p /\ Live(e) /\ e.flow = key}

\* observe_outbound: a packet to peer p was encapsulated.
ObserveOutbound(p, pkt) ==
    LET parsed == ParseFlow(pkt)
        known == Matching(p, parsed.key)
    IN  /\ parsed # None /\ parsed.kind # "error"
        /\ opener' = IF OpensNewFlow(parsed) THEN {<<p, parsed.key>>} ELSE {}
        /\ UNCHANGED fwNow
        /\ \/ \E e \in known : /\ entries' = (entries \ {e}) \cup {Refreshed(e, parsed)}
                               /\ UNCHANGED counts
           \/ known = {} /\ OpensNewFlow(parsed) /\ OpenFlow(p, parsed.key)

\* allows_inbound: what peer p may send in is the reverse of a live flow, or an
\* error about one; an error leaves the table alone.
AllowsInbound(p, pkt) ==
    LET parsed == ParseFlow(pkt) IN
    /\ parsed # None
    /\ IF parsed.kind = "error" THEN Matching(p, parsed.key) # {}
       ELSE /\ ~BareSyn(parsed) /\ parsed.kind # "request"
            /\ \E e \in entries : e.peer = p /\ Live(e) /\ IsReverseOf(parsed.key, e.flow)

\* The admission of an inbound packet that refreshes its flow.
AdmitInbound(p, pkt) ==
    LET parsed == ParseFlow(pkt) IN
    /\ AllowsInbound(p, pkt) /\ parsed.kind # "error"
    /\ \E e \in entries : /\ e.peer = p /\ Live(e) /\ IsReverseOf(parsed.key, e.flow)
                          /\ entries' = (entries \ {e}) \cup {Refreshed(e, parsed)}
    /\ opener' = {} /\ UNCHANGED <<counts, fwNow>>

\* remove_peer: the peer leaves the engine or its policy changes.
RemoveFlows(p) ==
    /\ entries' = entries \ OfPeer(entries, p)
    /\ counts' = [counts EXCEPT ![p] = 0]
    /\ opener' = {} /\ UNCHANGED fwNow

FwTick ==
    /\ fwNow < MaxFwTime
    /\ fwNow' = fwNow + 1
    /\ opener' = {} /\ UNCHANGED <<entries, counts>>

FwInit ==
    /\ entries = {} /\ counts = [p \in FwPeers |-> 0]
    /\ fwNow = 0 /\ opener = {}

FwNext ==
    \/ FwTick
    \/ \E p \in FwPeers :
         \/ RemoveFlows(p)
         \/ \E pkt \in OutPackets : ObserveOutbound(p, pkt)
         \/ \E pkt \in InPackets : AdmitInbound(p, pkt)

FwSpec == FwInit /\ [][FwNext]_fwVars

-------------------------------------------------------------------------------
(* Properties.                                                               *)

\* The count kept for each peer is the number of its entries, no peer is above its
\* quota and the table not above its limit.
CountsExact ==
    /\ \A p \in FwPeers : counts[p] = Cardinality(OfPeer(entries, p)) /\ counts[p] <= MaxPerPeer
    /\ Cardinality(entries) <= MaxEntries

\* A way in is only opened from inside: what was not live becomes live only by
\* an outbound packet that may open a flow, and a flow seen closing never gets
\* rid of the mark while it lives (observe_outbound, allows_inbound).
LiveFlow(p, k) == \E e \in entries : e.peer = p /\ e.flow = k /\ Live(e)
Pinholes ==
    [][/\ \A e \in entries' : LiveFlow(e.peer, e.flow)' =>
            LiveFlow(e.peer, e.flow) \/ <<e.peer, e.flow>> \in opener'
       /\ \A e \in entries, f \in entries' :
            e.peer = f.peer /\ e.flow = f.flow /\ e.closing /\ Live(e) => f.closing]_fwVars

\* A live flow that goes while its peer stays was recycled by its own peer, or
\* belonged to a peer that had more flows than the one that took its place.
FairEviction ==
    \A e \in entries, o \in opener' :
      (Live(e) /\ e.peer # o[1] /\ ~LiveFlow(e.peer, e.flow)')
        => LET held(p) == Cardinality(OfPeer(Unexpired, p))
           IN  held(o[1]) < MaxPerPeer /\ held(o[1]) < held(e.peer)

\* The table is shared fairly, whatever was collected, replaced or removed before:
\* the counts that decide who gives way are exact, and nobody is pushed out by a
\* peer that had as many flows (fair_victim, rebuild_peer_counts, remove_peer).
SharedFairly == []CountsExact /\ [][FairEviction]_fwVars
===============================================================================
