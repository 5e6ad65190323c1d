----------------------------- MODULE SessionTable -----------------------------
(* The session pool of one engine and everything that points into it: the    *)
(* slots, the four generation links of every peer, the map from receiver     *)
(* indices to slots, the peer table and the packets parked for a handshake.  *)
(* A handler is one step.  Inside a step the pool changes several times      *)
(* (a victim is freed, a relay handshake takes its slot), so the operators   *)
(* below map a table to the set of tables the code can leave behind.         *)
EXTENDS FiniteSets, Optional

CONSTANTS
    Slots,      \* session slots (MAX_SESSIONS)
    PeerIdx,    \* entries of the peer table (MAX_PEERS)
    Indices,    \* receiver indices a slot can be addressed by on the wire
    Keys,       \* static public keys
    Pinned,     \* keys of configured peers, installed at start and never evicted
    RelayOf     \* the relay key configured for a key, or None

ASSUME PinnedAssumption == Pinned \subseteq Keys
ASSUME RelayAssumption == RelayOf \in [Keys -> Keys \cup {None}]
ASSUME NoneAssumption ==
    None \notin Slots \cup PeerIdx \cup Indices \cup Keys

VARIABLES
    table,      \* slots, links, and receiver indices
    occupant,   \* per peer entry, the key installed in it, or None
    parked      \* packets waiting for a handshake: <<peer entry, intended key>>

vars == <<table, occupant, parked>>

FreeSlot == [state |-> "Free", peer |-> None, index |-> None, key |-> None,
             confirmed |-> FALSE, old |-> FALSE]
NoLinks == [current |-> None, previous |-> None, next |-> None, handshake |-> None]

SlotType ==
    [state : {"Free", "Initiating", "Established"},
     peer : PeerIdx \cup {None},        \* owner, the backlink of the receive path
     index : Indices \cup {None},       \* our receiver index
     key : Keys \cup {None},            \* history: the key the Noise state is bound to
     confirmed : BOOLEAN,
     old : BOOLEAN]                     \* REJECT_AFTER_TIME has passed
LinkType == [current : Slots \cup {None}, previous : Slots \cup {None},
             next : Slots \cup {None}, handshake : Slots \cup {None}]
TableType ==
    [slot : [Slots -> SlotType],
     link : [PeerIdx -> LinkType],
     byIndex : [Indices -> Slots \cup {None}],
     crossed : SUBSET (Keys \X Keys)]   \* history: <<intended key, session key>>
                                        \* of packets sealed under the wrong one

TypeOK ==
    /\ table \in TableType
    /\ occupant \in [PeerIdx -> Keys \cup {None}]
    /\ parked \subseteq PeerIdx \X Keys

-------------------------------------------------------------------------------
(* Generation links of one peer (PeerSessions).                              *)

\* PeerSessions::slots
LinkedSlots(links) ==
    {links.current, links.previous, links.next, links.handshake} \ {None}

Unlink(links, s) ==
    LET Cut(x) == IF x = s THEN None ELSE x
    IN  [current |-> Cut(links.current), previous |-> Cut(links.previous),
         next |-> Cut(links.next), handshake |-> Cut(links.handshake)]

BeginHandshake(links, s) == [links EXCEPT !.handshake = s]

CommitResponderInstall(links, s) == [links EXCEPT !.next = s]

Rotate(links, s) == [links EXCEPT !.previous = links.current, !.current = s]

InstallInitiator(links, s) == Rotate([links EXCEPT !.handshake = None], s)

ConfirmResponder(links, s) == Rotate([links EXCEPT !.next = None], s)

-------------------------------------------------------------------------------
(* Slot pool.                                                                *)

\* free_slot: unlink, drop the receiver index, empty the slot.
Freed(t, s) ==
    IF t.slot[s].state = "Free" THEN t
    ELSE [slot |-> [t.slot EXCEPT ![s] = FreeSlot],
          link |-> [t.link EXCEPT ![t.slot[s].peer] = Unlink(@, s)],
          byIndex |-> [t.byIndex EXCEPT ![t.slot[s].index] = None],
          crossed |-> t.crossed]

\* An attempt, or a session not yet confirmed, of the peer in entry p
NewSlot(state, p, i) ==
    [state |-> state, peer |-> p, index |-> i, key |-> occupant[p],
     confirmed |-> FALSE, old |-> FALSE]

\* A session that just became current; its keys are young.
Confirmed(slot) ==
    [slot EXCEPT !.state = "Established", !.confirmed = TRUE, !.old = FALSE]

InState(t, state) == {s \in Slots : t.slot[s].state = state}

Unused(t) == {i \in Indices : t.byIndex[i] = None}

\* Mutant: the last resort may take the current session of a pinned peer.
AllocatableAny(t) ==
    LET free == InState(t, "Free")
        expired == {s \in InState(t, "Established") : t.slot[s].old}
        superseded == {t.link[p].previous : p \in PeerIdx} \ {None}
    IN  CASE free # {} -> free
          [] free = {} /\ expired # {} -> expired
          [] free = {} /\ expired = {} /\ superseded # {} -> superseded
          [] OTHER -> InState(t, "Established")

\* alloc_slot: the slots it may choose, by order of preference.  Which member
\* of the preferred class the code takes (first position, least recently
\* active peer) is left open.
Allocatable(t) ==
    LET free == InState(t, "Free")
        expired == {s \in InState(t, "Established") : t.slot[s].old}
        superseded == {t.link[p].previous : p \in PeerIdx} \ {None}
        unprotected == {s \in InState(t, "Established") :
                          ~ /\ t.slot[s].key \in Pinned
                            /\ t.link[t.slot[s].peer].current = s}
    IN  CASE free # {} -> free
          [] free = {} /\ expired # {} -> expired
          [] free = {} /\ expired = {} /\ superseded # {} -> superseded
          [] OTHER -> unprotected

CanSend(t, s) ==
    t.slot[s].state = "Established" /\ t.slot[s].confirmed /\ ~t.slot[s].old

\* usable_session
Usable(t, p) == t.link[p].current # None /\ CanSend(t, t.link[p].current)

\* Allocate a slot, build the initiation, commit: the peer's handshake is now
\* slot s under receiver index i.
Begun(t, p, s, i) ==
    [slot |-> [t.slot EXCEPT ![s] = NewSlot("Initiating", p, i)],
     link |-> [t.link EXCEPT ![p] = BeginHandshake(@, s)],
     byIndex |-> [t.byIndex EXCEPT ![i] = s],
     crossed |-> t.crossed]

\* stage_initiation.  It leaves the table alone when a handshake is in flight,
\* the peer has no endpoint or the pool is full; when building the message
\* fails, a victim has been freed for nothing.
Staged(t, p) ==
    IF t.link[p].handshake # None \/ Allocatable(t) = {} THEN {t}
    ELSE {t} \cup UNION {LET u == Freed(t, s)
                         IN  {u} \cup {Begun(u, p, s, i) : i \in Unused(u)} :
                         s \in Allocatable(t)}

-------------------------------------------------------------------------------
(* Sending.  A relayed peer is reached over the session with its relay.      *)

RelayIdx(p) == {r \in PeerIdx : occupant[r] # None /\ occupant[r] = RelayOf[occupant[p]]}

Relayed(p) == RelayOf[occupant[p]] # None

\* ensure_direct_handshake: never through another relay.
EnsureDirect(t, r) == IF Relayed(r) THEN {t} ELSE Staged(t, r)

\* seal_transport of a packet meant for key k under session s
Seal(t, k, s) ==
    [slot |-> t.slot, link |-> t.link, byIndex |-> t.byIndex,
     crossed |-> t.crossed \cup ({<<k, t.slot[s].key>>} \ {<<k, k>>})]

\* The hop to relay r: usable, it carries the message, and may be due a rekey;
\* unusable, a handshake with the relay is started and the message is lost.
ViaRelay(t, r) ==
    IF Relayed(r) THEN {t}
    ELSE IF Usable(t, r)
         THEN LET u == Seal(t, occupant[r], t.link[r].current)
              IN  {u} \cup EnsureDirect(u, r)
         ELSE EnsureDirect(t, r)

\* transmit_wire
Transmit(t, p) ==
    IF Relayed(p) /\ RelayIdx(p) # {}
    THEN UNION {ViaRelay(t, r) : r \in RelayIdx(p)}
    ELSE {t}

\* ensure_handshake: a new initiation is transmitted, otherwise nothing is.
EnsureHandshake(t, p) ==
    {t} \cup UNION {IF u.link[p].handshake = t.link[p].handshake
                    THEN {u} ELSE Transmit(u, p) : u \in Staged(t, p)}

\* encrypt_via_relay: the hop to relay r must be usable before the counter of
\* the inner session is spent, and either session may be due a rekey afterwards.
EncryptViaRelay(t, p, s, k, r) ==
    IF Relayed(r) THEN {t}
    ELSE IF ~Usable(t, r) THEN EnsureDirect(t, r)
    ELSE IF ~CanSend(t, s) THEN {t}
    ELSE LET sealed == Seal(Seal(t, k, s), occupant[r], t.link[r].current)
         IN  UNION {{u} \cup EnsureDirect(u, r) : u \in EnsureHandshake(sealed, p)}

\* encrypt_and_send of a packet meant for key k under session s of peer p.  The
\* session's owner is not looked at again.
EncryptAndSend(t, p, s, k) ==
    CASE ~Relayed(p) /\ CanSend(t, s) -> EnsureHandshake(Seal(t, k, s), p)
      [] ~Relayed(p) /\ ~CanSend(t, s) -> {t}
      [] Relayed(p) /\ RelayIdx(p) = {} -> {t}
      [] OTHER -> UNION {EncryptViaRelay(t, p, s, k, r) : r \in RelayIdx(p)}

-------------------------------------------------------------------------------
(* The stimuli.                                                              *)

Installed(p) == occupant[p] # None

Init ==
    /\ table = [slot |-> [s \in Slots |-> FreeSlot],
                link |-> [p \in PeerIdx |-> NoLinks],
                byIndex |-> [i \in Indices |-> None],
                crossed |-> {}]
    /\ occupant \in [PeerIdx -> Pinned \cup {None}]
    /\ \A k \in Pinned : \E p \in PeerIdx : occupant[p] = k
    /\ \A p, q \in PeerIdx : Installed(p) /\ occupant[p] = occupant[q] => p = q
    /\ parked = {}

\* send_to_peer: encrypt under the current session, or park the packet and make
\* sure a handshake is running.
SendInner(p) ==
    /\ Installed(p)
    /\ IF Usable(table, p)
       THEN /\ table' \in EncryptAndSend(table, p, table.link[p].current, occupant[p])
            /\ UNCHANGED parked
       ELSE /\ parked' = parked \cup {<<p, occupant[p]>>}
            /\ table' \in EnsureHandshake(table, p)
    /\ UNCHANGED occupant

\* Keepalive, persistent keepalive and missing-reply timers of a peer, and the
\* rekey that a data packet on an aged initiator session triggers.
PeerTimer(p) ==
    /\ Installed(p)
    /\ \/ /\ Usable(table, p)
          /\ table' \in EncryptAndSend(table, p, table.link[p].current, occupant[p])
       \/ table' \in EnsureHandshake(table, p)
    /\ UNCHANGED <<occupant, parked>>

\* The first half of session_indices.replace
Unindexed(t, s) ==
    [slot |-> t.slot, link |-> t.link,
     byIndex |-> [t.byIndex EXCEPT ![t.slot[s].index] = None],
     crossed |-> t.crossed]

Responded(t, p, s, i) ==
    [slot |-> [t.slot EXCEPT ![s] = NewSlot("Established", p, i)],
     link |-> [t.link EXCEPT ![p] = CommitResponderInstall(@, s)],
     byIndex |-> [t.byIndex EXCEPT ![i] = s],
     crossed |-> t.crossed]

\* respond_to_initiation: an unconfirmed `next' session is replaced in place
\* under a new receiver index; otherwise a slot is allocated, and a failure
\* after that leaves it free.
RespondToInitiation(p) ==
    /\ Installed(p)
    /\ LET next == table.link[p].next
       IN  IF next # None
           THEN \E i \in Unused(table) :
                  table' \in Transmit(Responded(Unindexed(table, next), p, next, i), p)
           ELSE \E s \in Allocatable(table) :
                  \/ table' = Freed(table, s)
                  \/ \E i \in Unused(Freed(table, s)) :
                       table' \in Transmit(Responded(Freed(table, s), p, s, i), p)
    /\ UNCHANGED <<occupant, parked>>

\* A session becomes current with the given links; the session that was in
\* `previous' is freed only after the rotation.
Rotated(t, s, links) ==
    LET p == t.slot[s].peer
        rotated == [slot |-> [t.slot EXCEPT ![s] = Confirmed(@)],
                    link |-> [t.link EXCEPT ![p] = links],
                    byIndex |-> t.byIndex,
                    crossed |-> t.crossed]
    IN  IF t.link[p].previous = None THEN rotated ELSE Freed(rotated, t.link[p].previous)

Completed(s) == Rotated(table, s, InstallInitiator(table.link[table.slot[s].peer], s))

\* Mutant: the parked packets of every peer are flushed through the new session.
RxResponseFlushesAll(s) ==
    /\ table.slot[s].state = "Initiating"
    /\ LET p == table.slot[s].peer
           waiting == {k \in Keys : \E q \in PeerIdx : <<q, k>> \in parked}
           toSend == IF waiting = {} THEN {occupant[p]} ELSE waiting
       IN  /\ \E k \in toSend : table' \in EncryptAndSend(Completed(s), p, s, k)
           /\ parked' = {w \in parked : w[1] # p}
    /\ UNCHANGED occupant

\* rx_response: install the session, then flush the packets parked for the peer
\* through it, or a keepalive.  A relay handshake started by the first packet
\* may take the slot before the second one is sent.
RxResponse(s) ==
    /\ table.slot[s].state = "Initiating"
    /\ LET p == table.slot[s].peer
           waiting == {k \in Keys : <<p, k>> \in parked}
           toSend == IF waiting = {} THEN {occupant[p]} ELSE waiting
       IN  /\ \E k \in toSend : \E first \in EncryptAndSend(Completed(s), p, s, k) :
                \/ table' = first
                \/ \E l \in toSend : table' \in EncryptAndSend(first, p, s, l)
           /\ parked' = {w \in parked : w[1] # p}
    /\ UNCHANGED occupant

\* rx_data on a session still in `next': the initiator has confirmed it.
Confirm(s) ==
    /\ table.slot[s].state = "Established" /\ ~table.slot[s].old
    /\ LET links == table.link[table.slot[s].peer]
       IN  /\ links.next = s
           /\ table' = Rotated(table, s, ConfirmResponder(links, s))
    /\ UNCHANGED <<occupant, parked>>

\* Slot timers: the attempt deadline, a retransmission (same slot and index; if
\* it cannot be rebuilt the attempt is dropped) and the age limit of a session.
HandshakeExpires(s) ==
    /\ table.slot[s].state = "Initiating"
    /\ table' = Freed(table, s)
    /\ parked' = {w \in parked : w[1] # table.slot[s].peer}
    /\ UNCHANGED occupant

Retransmit(s) ==
    /\ table.slot[s].state = "Initiating"
    /\ \/ table' \in Transmit(table, table.slot[s].peer)
       \/ table' = Freed(table, s)
    /\ UNCHANGED <<occupant, parked>>

SessionExpires(s) ==
    /\ table.slot[s].old
    /\ table' = Freed(table, s)
    /\ UNCHANGED <<occupant, parked>>

\* REJECT_AFTER_TIME passes for a session.
Age(s) ==
    /\ table.slot[s].state = "Established" /\ ~table.slot[s].old
    /\ table' = [slot |-> [table.slot EXCEPT ![s] = [@ EXCEPT !.old = TRUE]],
                 link |-> table.link, byIndex |-> table.byIndex, crossed |-> table.crossed]
    /\ UNCHANGED <<occupant, parked>>

\* pending.expire_one, or a packet pushed out of the full pool
DropParked ==
    /\ \E w \in parked : parked' = parked \ {w}
    /\ UNCHANGED <<table, occupant>>

InstallPeer(p, k) ==
    /\ ~Installed(p)
    /\ \A q \in PeerIdx : occupant[q] # k
    /\ occupant' = [occupant EXCEPT ![p] = k]
    /\ UNCHANGED <<table, parked>>

\* take_peer, and the freeing of its slots
WithoutPeer(t, p, own) ==
    [slot |-> [s \in Slots |-> IF s \in own THEN FreeSlot ELSE t.slot[s]],
     link |-> [t.link EXCEPT ![p] = NoLinks],
     byIndex |-> [i \in Indices |-> IF t.byIndex[i] \in own THEN None ELSE t.byIndex[i]],
     crossed |-> t.crossed]

\* Mutant: the unconfirmed session of the evicted peer keeps its slot.
EvictPeerForgetsNext(p) ==
    /\ Installed(p) /\ occupant[p] \notin Pinned
    /\ table' = WithoutPeer(table, p, LinkedSlots([table.link[p] EXCEPT !.next = None]))
    /\ occupant' = [occupant EXCEPT ![p] = None]
    /\ parked' = {w \in parked : w[1] # p}

\* evict_peer: free the peer's slots, its entry and its parked packets.
EvictPeer(p) ==
    /\ Installed(p) /\ occupant[p] \notin Pinned
    /\ table' = WithoutPeer(table, p, LinkedSlots(table.link[p]))
    /\ occupant' = [occupant EXCEPT ![p] = None]
    /\ parked' = {w \in parked : w[1] # p}

Next ==
    \/ \E p \in PeerIdx :
         \/ SendInner(p) \/ PeerTimer(p) \/ RespondToInitiation(p) \/ EvictPeer(p)
         \/ \E k \in Keys : InstallPeer(p, k)
    \/ \E s \in Slots :
         \/ RxResponse(s) \/ Confirm(s) \/ HandshakeExpires(s)
         \/ Retransmit(s) \/ SessionExpires(s) \/ Age(s)
    \/ DropParked

Spec == Init /\ [][Next]_vars

-------------------------------------------------------------------------------
\* An attempt is linked by the peer it names, as its handshake.
AttemptsLinked(t) ==
    \A p \in PeerIdx, s \in Slots :
      t.link[p].handshake = s <=> t.slot[s].state = "Initiating" /\ t.slot[s].peer = p

\* A session is linked by the peer it names, as one of its three generations.
SessionsLinked(t) ==
    \A p \in PeerIdx, s \in Slots :
      s \in {t.link[p].current, t.link[p].previous, t.link[p].next}
        <=> t.slot[s].state = "Established" /\ t.slot[s].peer = p

\* A session is in one generation: `next' until it is confirmed.
GenerationsApart(t) ==
    \A p \in PeerIdx, s \in Slots :
      /\ t.link[p].next = s => ~t.slot[s].confirmed
      /\ s \in {t.link[p].current, t.link[p].previous} => t.slot[s].confirmed
      /\ t.link[p].current = s => t.link[p].previous # s

\* The Noise state in a slot belongs to the key now installed in its peer entry.
OwnersInstalled(t) ==
    \A s \in Slots : t.slot[s].state # "Free" =>
      /\ t.slot[s].peer \in PeerIdx
      /\ t.slot[s].key # None
      /\ occupant[t.slot[s].peer] = t.slot[s].key

LinkedIn(t) ==
    /\ AttemptsLinked(t) /\ SessionsLinked(t)
    /\ GenerationsApart(t) /\ OwnersInstalled(t)

IndexedIn(t) ==
    \A s \in Slots :
      /\ t.slot[s].state # "Free" => t.slot[s].index \in Indices
      /\ \A i \in Indices :
           t.byIndex[i] = s <=> t.slot[s].state # "Free" /\ t.slot[s].index = i

\* Every slot in use is linked by exactly one generation of exactly the peer it
\* names as its owner, in the state that generation calls for, and the Noise state
\* in it belongs to the key now installed in that peer entry.
Linked == LinkedIn(table)

\* The receiver-index map is exactly the inverse of the indices the slots hold.
IndexExact == IndexedIn(table)

(* Slots, generation links and receiver indices agree in every direction:     *)
(* free_slot, evict_peer and the receive path rely on it, it is what makes    *)
(* their InternalInvariant returns unreachable, and a datagram never reaches  *)
(* a slot under an index the slot no longer uses.                             *)
TablesAgree == TypeOK /\ Linked /\ IndexExact

\* A packet is only ever sealed under a session with the key it was meant for.
SealedForOwner == table.crossed = {}

\* A packet waiting for a handshake waits for the peer it was routed to.
ParkedForOccupant == \A w \in parked : occupant[w[1]] = w[2]

(* What is meant for one peer never goes to another.  encrypt_and_send is     *)
(* handed a slot number that was looked up before relay handshakes could      *)
(* evict and reuse the slot, and a parked packet names a peer entry that may  *)
(* be given to another key: evicting a peer takes its packets along before    *)
(* the entry is reused.                                                       *)
RightPeer == SealedForOwner /\ ParkedForOccupant

(* No pressure on the pool costs a pinned peer its live current session: it  *)
(* may be superseded, but short of its age limit it is not given away.       *)
PinnedKept ==
    [][\A p \in PeerIdx :
         (occupant[p] \in Pinned /\ Usable(table, p)) => table'.link[p].current # None]_vars
===============================================================================
