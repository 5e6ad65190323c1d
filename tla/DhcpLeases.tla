------------------------------ MODULE DhcpLeases ------------------------------
(* The DHCP server of the isolated fallback link: a fixed table of leases    *)
(* that lives as long as the device is up, and one receive slot.  Clients    *)
(* follow RFC 2131 and are external: they may stop, start over, lose         *)
(* packets, choose another server, and find an address already in use.       *)
EXTENDS Naturals, FiniteSets, Optional

CONSTANTS
    Hosts,          \* DHCP clients
    ClientKey,      \* the key a client is known by, cut to 16 bytes
    Slots,          \* DHCP_LEASE_CAPACITY addresses, numbered from zero
    MaxExchanges    \* bound: transactions per client

Outside == Slots    \* an address that is not of the pool
EmptyKey == "empty" \* ClientKey::EMPTY, which no client has

ASSUME DhcpAssumption ==
    /\ Slots \in Nat \ {0} /\ MaxExchanges \in Nat
    /\ \A h \in Hosts : ClientKey[h] \notin {EmptyKey, None}
    /\ None \notin 0..Slots
    /\ \A g, h \in Hosts : ClientKey[g] = ClientKey[h] => g = h

VARIABLES
    leases,     \* slot -> the key it is in use by, or None
    rx,         \* the packet in the socket's receive slot
    replies,    \* per client, the reply on its way
    hosts       \* per client: mode, address, transaction

dhcpVars == <<leases, rx, replies, hosts>>

Pool == 0..Slots - 1

-------------------------------------------------------------------------------
(* The lease table.                                                          *)

LowestOf(slots) == IF slots = {} THEN None ELSE CHOOSE s \in slots : \A t \in slots : s <= t

FindClientLease(t, key) == LowestOf({s \in Pool : t[s] = key})

ExistingOrAllocateLease(t, key) ==
    IF FindClientLease(t, key) # None THEN FindClientLease(t, key)
    ELSE LowestOf({s \in Pool : t[s] = None})

\* Mutant: the client's other lease is not given back.
AssignLeaseKeepsOthers(t, slot, key) == [t EXCEPT ![slot] = key]

AssignLease(t, slot, key) ==
    [s \in Pool |-> IF s = slot THEN key ELSE IF t[s] = key THEN None ELSE t[s]]

ReleaseLease(t, key) ==
    [s \in Pool |-> IF s = FindClientLease(t, key) THEN None ELSE t[s]]

\* A declined address stays out of the pool, and belongs to nobody.
DeclineLease(t, key) ==
    [s \in Pool |-> IF s = FindClientLease(t, key) THEN EmptyKey ELSE t[s]]

-------------------------------------------------------------------------------
(* One packet.  A relayed one, and one for another server, are dropped.      *)

Reply(p, kind, slot) ==
    replies' = [replies EXCEPT ![p.host] = [kind |-> kind, yiaddr |-> slot, xid |-> p.xid]]

ServeDiscover(p) ==
    LET slot == ExistingOrAllocateLease(leases, ClientKey[p.host])
    IN  IF slot = None THEN UNCHANGED <<leases, replies>>
        ELSE /\ leases' = [leases EXCEPT ![slot] = ClientKey[p.host]]
             /\ Reply(p, "OFFER", slot)

\* The requested-address option, else ciaddr, else the lease the client has.
RequestedIp(p) ==
    IF p.requested # None THEN p.requested
    ELSE IF p.ciaddr # None THEN p.ciaddr ELSE FindClientLease(leases, ClientKey[p.host])

ServeRequest(p) ==
    LET slot == RequestedIp(p)
        key == ClientKey[p.host]
    IN  \/ slot = None /\ UNCHANGED <<leases, replies>>
        \/ /\ slot \in Pool /\ leases[slot] \in {None, key}
           /\ leases' = AssignLease(leases, slot, key)
           /\ Reply(p, "ACK", slot)
        \/ /\ slot # None /\ ~(slot \in Pool /\ leases[slot] \in {None, key})
           /\ Reply(p, "NAK", None) /\ UNCHANGED leases

ServePacket ==
    /\ rx # None /\ rx' = None
    /\ IF rx.relayed \/ rx.server = "other" THEN UNCHANGED <<leases, replies>>
       ELSE CASE rx.kind = "DISCOVER" -> ServeDiscover(rx)
              [] rx.kind = "REQUEST" -> ServeRequest(rx)
              [] rx.kind = "RELEASE" -> leases' = ReleaseLease(leases, ClientKey[rx.host])
                                        /\ UNCHANGED replies
              [] rx.kind = "DECLINE" -> leases' = DeclineLease(leases, ClientKey[rx.host])
                                        /\ UNCHANGED replies
    /\ UNCHANGED hosts

-------------------------------------------------------------------------------
(* The clients.                                                              *)

Packet(h, kind, xid) == [host |-> h, kind |-> kind, xid |-> xid, requested |-> None,
                         ciaddr |-> None, server |-> None, relayed |-> FALSE]

\* A packet is lost on the link, or because the receive slot is taken.
Transmit(p) == rx' = rx \/ (rx = None /\ rx' = p)

HostBecomes(h, mode, address, xid) ==
    hosts' = [hosts EXCEPT ![h] = [mode |-> mode, address |-> address, xid |-> xid]]

Discover(h) ==
    LET xid == hosts[h].xid + 1
    IN  /\ hosts[h].mode = "init" /\ xid <= MaxExchanges
        /\ \E relayed \in BOOLEAN : Transmit([Packet(h, "DISCOVER", xid) EXCEPT !.relayed = relayed])
        /\ HostBecomes(h, "selecting", hosts[h].address, xid)
        /\ UNCHANGED <<leases, replies>>

\* After a restart the client asks for an address it had, here or on another
\* network, or names none.
RequestAgain(h) ==
    LET xid == hosts[h].xid + 1
    IN  /\ hosts[h].mode = "init" /\ xid <= MaxExchanges
        /\ \E asked \in Pool \cup {Outside, None} :
             Transmit([Packet(h, "REQUEST", xid) EXCEPT !.requested = asked])
        /\ HostBecomes(h, "requesting", hosts[h].address, xid)
        /\ UNCHANGED <<leases, replies>>

Renew(h) ==
    LET xid == hosts[h].xid + 1
    IN  /\ hosts[h].mode = "bound" /\ xid <= MaxExchanges
        /\ Transmit([Packet(h, "REQUEST", xid) EXCEPT !.ciaddr = hosts[h].address])
        /\ HostBecomes(h, "bound", hosts[h].address, xid)
        /\ UNCHANGED <<leases, replies>>

\* A reply of an earlier transaction is ignored.
TakeReply(h) ==
    LET reply == replies[h]
        host == hosts[h]
    IN  /\ reply # None
        /\ replies' = [replies EXCEPT ![h] = None]
        /\ \/ /\ reply.xid = host.xid /\ reply.kind = "OFFER" /\ host.mode = "selecting"
              /\ \E server \in {"us", "other"} :
                   /\ Transmit([Packet(h, "REQUEST", host.xid) EXCEPT
                                  !.requested = reply.yiaddr, !.server = server])
                   /\ HostBecomes(h, IF server = "us" THEN "requesting" ELSE "init", reply.yiaddr, host.xid)
           \/ /\ reply.xid = host.xid /\ reply.kind = "ACK" /\ host.mode \in {"requesting", "bound"}
              /\ HostBecomes(h, "bound", reply.yiaddr, host.xid) /\ UNCHANGED rx
           \/ /\ reply.xid = host.xid /\ reply.kind = "NAK" /\ host.mode \in {"requesting", "bound"}
              /\ HostBecomes(h, "init", None, host.xid) /\ UNCHANGED rx
           \/ /\ \/ reply.xid # host.xid
                 \/ reply.kind = "OFFER" /\ host.mode # "selecting"
                 \/ reply.kind # "OFFER" /\ host.mode \notin {"requesting", "bound"}
              /\ UNCHANGED <<rx, hosts>>
        /\ UNCHANGED leases

\* The client gives its address back, or reports that somebody uses it.
GiveUpAddress(h, kind) ==
    /\ hosts[h].mode = "bound"
    /\ Transmit(Packet(h, kind, hosts[h].xid))
    /\ HostBecomes(h, "init", hosts[h].address, hosts[h].xid)
    /\ UNCHANGED <<leases, replies>>

\* It starts over: no answer came, or the lease ran out.
StartOver(h) ==
    /\ hosts[h].mode # "init"
    /\ HostBecomes(h, "init", hosts[h].address, hosts[h].xid)
    /\ UNCHANGED <<leases, rx, replies>>

DhcpInit ==
    /\ leases = [s \in Pool |-> None] /\ rx = None
    /\ replies = [h \in Hosts |-> None]
    /\ hosts = [h \in Hosts |-> [mode |-> "init", address |-> None, xid |-> 0]]

DhcpNext ==
    \/ ServePacket
    \/ \E h \in Hosts : \/ Discover(h) \/ RequestAgain(h) \/ Renew(h) \/ TakeReply(h)
                        \/ GiveUpAddress(h, "RELEASE") \/ GiveUpAddress(h, "DECLINE")
                        \/ StartOver(h)

DhcpSpec == DhcpInit /\ [][DhcpNext]_dhcpVars

-------------------------------------------------------------------------------
\* The lease table (assign_lease, release_lease, decline_lease): a client that
\* uses an address is the one the table names for it, so no two use the same;
\* and a client never takes more than one address out of the pool, whatever it
\* asks for and whichever replies are lost.
LeasesExclusive ==
    /\ \A h \in Hosts : hosts[h].mode = "bound" => leases[hosts[h].address] = ClientKey[h]
    /\ \A h \in Hosts : Cardinality({s \in Pool : leases[s] = ClientKey[h]}) <= 1
===============================================================================
