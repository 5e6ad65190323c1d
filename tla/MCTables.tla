------------------------------- MODULE MCTables -------------------------------
(* Six parts of the engine that share no state, in one run: the tables every   *)
(* packet goes through, the pool of sessions, and budgets and deadlines.  A    *)
(* behaviour exercises one of them and leaves the others in their initial      *)
(* states, so their state spaces add up and do not multiply.                   *)
EXTENDS ReplayWindow, RouteTable, Firewall, RateLimiter, Timers, SessionTable, TLC

CONSTANTS
    MaxCounter,
    RelayedKeys,    \* the keys reached through the pinned peer
    Parts       \* the parts this instance exercises

VARIABLE part

MCCounters == 0..MaxCounter

P4(b) == [root |-> 0, bits |-> b]
MCCidrs == {P4(<<>>), P4(<<0, 1>>), P4(<<0, 1, 0>>), P4(<<0, 1, 1>>), P4(<<0, 0>>)}
MCAddresses == {P4(<<a, b, c>>) : a, b, c \in {0, 1}}

Pkt(src, dst, proto, port, flags, type, quoted) ==
    [src |-> src, dst |-> dst, proto |-> proto, sport |-> port, dport |-> port, flags |-> flags,
     type |-> type, quoted |-> quoted, fragment |-> FALSE]
Both(src, dst) ==
    {Pkt(src, dst, "tcp", 1, f, None, None) : f \in {{"SYN"}, {"ACK"}, {"FIN", "ACK"}, {"SYN", "FIN"}}}
    \cup {Pkt(src, dst, "udp", 1, {}, None, None)}
    \cup {Pkt(src, dst, "icmp", 1, {}, t, None) : t \in {"request", "reply"}}
MCOut == Both("l", "r")
MCIn == Both("r", "l") \cup {Pkt("r", "l", "icmp", 0, {}, "error", q) : q \in Both("l", "r")}
MCTimeout == [udp |-> 1, icmp |-> 1, tcp |-> 2, closing |-> 1]

MCSources == {[v6 |-> FALSE, net |-> 1, host |-> 1], [v6 |-> FALSE, net |-> 1, host |-> 2],
              [v6 |-> TRUE, net |-> 1, host |-> 1], [v6 |-> TRUE, net |-> 1, host |-> 2]}

MCRelayOf ==
    [k \in Keys |-> IF k \in RelayedKeys THEN CHOOSE pin \in Pinned : TRUE ELSE None]

Symmetry == Permutations(Slots) \cup Permutations(PeerIdx)

partVars == <<part, replayVars, routeVars, fwVars, rateVars, timerVars, vars>>

PartInit ==
    /\ part \in Parts
    /\ ReplayInit /\ RouteInit /\ FwInit /\ RateInit /\ TimersInit /\ Init

PartNext ==
    \/ /\ part = "replay" /\ ReplayNext
       /\ UNCHANGED <<part, routeVars, fwVars, rateVars, timerVars, vars>>
    \/ /\ part = "routes" /\ RouteNext
       /\ UNCHANGED <<part, replayVars, fwVars, rateVars, timerVars, vars>>
    \/ /\ part = "firewall" /\ FwNext
       /\ UNCHANGED <<part, replayVars, routeVars, rateVars, timerVars, vars>>
    \/ /\ part = "rate" /\ RateNext
       /\ UNCHANGED <<part, replayVars, routeVars, fwVars, timerVars, vars>>
    \/ /\ part = "timers" /\ TimersNext
       /\ UNCHANGED <<part, replayVars, routeVars, fwVars, rateVars, vars>>
    \/ /\ part = "sessions" /\ Next
       /\ UNCHANGED <<part, replayVars, routeVars, fwVars, rateVars, timerVars>>

\* Which of the unused indices a slot is given does not matter as long as the
\* map is exact: states that differ only in it are visited once.
View ==
    <<part, replayVars, routeVars, fwVars, rateVars, timerVars,
      [s \in Slots |-> [table.slot[s] EXCEPT !.index = None]],
      table.link, table.crossed, occupant, parked, IndexExact>>

PartSpec == PartInit /\ [][PartNext]_partVars
===============================================================================
