------------------------- MODULE SessionTable_proofs --------------------------
(* The session pool stays consistent, whatever the capacities, the keys and  *)
(* the relay configuration.                                                  *)
EXTENDS SessionTable, TLAPS

-------------------------------------------------------------------------------
(* What each operator on tables does to a consistent table: freeing,         *)
(* beginning, responding, rotating and sealing keep slots, generation links  *)
(* and receiver indices in agreement, whatever the capacities, the keys and  *)
(* the relay configuration.                                                  *)

TableOK(t) == t \in TableType /\ LinkedIn(t) /\ IndexedIn(t)

OccupantOK == occupant \in [PeerIdx -> Keys \cup {None}]

\* None is no slot, peer, index or key.
LEMMA NoneOutside ==
    None \notin Slots /\ None \notin PeerIdx /\ None \notin Indices /\ None \notin Keys
BY NoneAssumption, Zenon

\* The parts of a table.
LEMMA TableParts ==
    ASSUME NEW t \in TableType
    PROVE  /\ t.slot \in [Slots -> SlotType]
           /\ t.link \in [PeerIdx -> LinkType]
           /\ t.byIndex \in [Indices -> Slots \cup {None}]
           /\ t.crossed \in SUBSET (Keys \X Keys)
BY Zenon DEF TableType

\* A free slot is a slot.
LEMMA FreeSlotType == FreeSlot \in SlotType
BY Zenon DEF FreeSlot, SlotType

\* free_slot keeps a consistent table consistent.
LEMMA FreedOK ==
    ASSUME OccupantOK, NEW t, TableOK(t), NEW s \in Slots
    PROVE  TableOK(Freed(t, s)) /\ Freed(t, s).slot[s].state = "Free"
<1> DEFINE u == Freed(t, s)
           p == t.slot[s].peer
           i == t.slot[s].index
<1>1. t \in TableType /\ LinkedIn(t) /\ IndexedIn(t)
  BY Zenon DEF TableOK
<1>2. CASE t.slot[s].state = "Free"
  BY <1>1, <1>2, Zenon DEF Freed, TableOK
<1>3. CASE t.slot[s].state # "Free"
  <2>1. p \in PeerIdx /\ i \in Indices
    BY <1>1, <1>3, Zenon DEF LinkedIn, OwnersInstalled, IndexedIn
  <2>2. /\ u.slot = [t.slot EXCEPT ![s] = FreeSlot]
        /\ u.link = [t.link EXCEPT ![p] = Unlink(t.link[p], s)]
        /\ u.byIndex = [t.byIndex EXCEPT ![i] = None]
        /\ u.crossed = t.crossed
        /\ u = [slot |-> u.slot, link |-> u.link, byIndex |-> u.byIndex, crossed |-> u.crossed]
    BY <1>3, Zenon DEF Freed
  <2> HIDE DEF u
  <2>3. t.link[p] \in LinkType /\ Unlink(t.link[p], s) \in LinkType
    BY <1>1, <2>1, TableParts DEF LinkType, Unlink
  <2>4. u \in TableType
    <3>1. /\ t.slot \in [Slots -> SlotType] /\ t.link \in [PeerIdx -> LinkType]
          /\ t.byIndex \in [Indices -> Slots \cup {None}] /\ u.crossed \in SUBSET (Keys \X Keys)
      BY <1>1, <2>2, TableParts, Zenon
    <3>2. u.slot \in [Slots -> SlotType]
      BY <2>2, <3>1, FreeSlotType, Zenon
    <3>3. u.link \in [PeerIdx -> LinkType]
      BY <2>2, <2>3, <3>1, Zenon
    <3>4. u.byIndex \in [Indices -> Slots \cup {None}]
      BY <2>2, <3>1, Zenon
    <3> QED BY <2>2, <3>1, <3>2, <3>3, <3>4, Zenon DEF TableType
  <2>5. /\ t.slot \in [Slots -> SlotType] /\ t.link \in [PeerIdx -> LinkType]
        /\ t.byIndex \in [Indices -> Slots \cup {None}]
    BY <1>1, TableParts, Zenon
  <2>6. AttemptsLinked(t) /\ SessionsLinked(t) /\ GenerationsApart(t) /\ OwnersInstalled(t)
    BY <1>1, Zenon DEF LinkedIn
  <2>7. u.slot[s].state = "Free" /\ \A r \in Slots : r # s => u.slot[r] = t.slot[r]
    BY <2>2, <2>5 DEF FreeSlot
  <2>8. \A q \in PeerIdx, r \in Slots :
          /\ u.link[q].current = r <=> t.link[q].current = r /\ r # s
          /\ u.link[q].previous = r <=> t.link[q].previous = r /\ r # s
          /\ u.link[q].next = r <=> t.link[q].next = r /\ r # s
          /\ u.link[q].handshake = r <=> t.link[q].handshake = r /\ r # s
    <3> SUFFICES ASSUME NEW q \in PeerIdx
                 PROVE  \A r \in Slots :
                          /\ u.link[q].current = r <=> t.link[q].current = r /\ r # s
                          /\ u.link[q].previous = r <=> t.link[q].previous = r /\ r # s
                          /\ u.link[q].next = r <=> t.link[q].next = r /\ r # s
                          /\ u.link[q].handshake = r <=> t.link[q].handshake = r /\ r # s
      BY Zenon
    <3>1. CASE q = p
      <4>1. u.link[q] = Unlink(t.link[q], s)
        BY <2>1, <2>2, <2>5, <3>1, Zenon
      <4> QED BY <4>1, NoneOutside DEF Unlink
    <3>2. CASE q # p
      <4>1. u.link[q] = t.link[q]
        BY <2>1, <2>2, <2>5, <3>2, Zenon
      <4>2. s \notin {t.link[q].current, t.link[q].previous, t.link[q].next, t.link[q].handshake}
        BY <2>6, <3>2, Zenon DEF AttemptsLinked, SessionsLinked
      <4> QED BY <4>1, <4>2, Zenon
    <3> QED BY <3>1, <3>2, Zenon
  <2>9. AttemptsLinked(u)
    BY <2>6, <2>7, <2>8 DEF AttemptsLinked
  <2>10. SessionsLinked(u)
    BY <2>6, <2>7, <2>8 DEF SessionsLinked
  <2>11. GenerationsApart(u)
    BY <2>6, <2>7, <2>8 DEF GenerationsApart
  <2>12. OwnersInstalled(u)
    BY <2>6, <2>7, Zenon DEF OwnersInstalled
  <2>13. IndexedIn(u)
    <3>1. \A j \in Indices : u.byIndex[j] = IF j = i THEN None ELSE t.byIndex[j]
      BY <2>1, <2>2, <2>5, Zenon
    <3> QED BY <1>1, <1>3, <2>1, <2>7, <3>1, NoneOutside DEF IndexedIn
  <2> QED
    BY <2>4, <2>7, <2>9, <2>10, <2>11, <2>12, <2>13, Zenon DEF TableOK, LinkedIn, u
<1> QED BY <1>2, <1>3, Zenon

\* commit_handshake_start in a free slot under an unused index
LEMMA BegunOK ==
    ASSUME OccupantOK, NEW t, TableOK(t), NEW p \in PeerIdx, Installed(p),
           NEW s \in Slots, t.slot[s].state = "Free", t.link[p].handshake = None,
           NEW i \in Unused(t)
    PROVE  TableOK(Begun(t, p, s, i))
<1> DEFINE u == Begun(t, p, s, i)
           slot == NewSlot("Initiating", p, i)
           links == BeginHandshake(t.link[p], s)
<1>1. /\ t \in TableType /\ LinkedIn(t) /\ IndexedIn(t)
      /\ i \in Indices /\ t.byIndex[i] = None /\ occupant[p] \in Keys
  BY Zenon DEF TableOK, Unused, Installed, OccupantOK
<1>2. /\ u.slot = [t.slot EXCEPT ![s] = slot]
      /\ u.link = [t.link EXCEPT ![p] = links]
      /\ u.byIndex = [t.byIndex EXCEPT ![i] = s]
      /\ u.crossed = t.crossed
      /\ u = [slot |-> u.slot, link |-> u.link, byIndex |-> u.byIndex, crossed |-> u.crossed]
  BY Zenon DEF Begun
<1> HIDE DEF u
<1>3. slot \in SlotType /\ slot.state = "Initiating" /\ slot.peer = p /\ slot.index = i
      /\ slot.key = occupant[p] /\ slot.confirmed = FALSE
  BY <1>1, Zenon DEF SlotType, NewSlot
<1>4. /\ links \in LinkType
      /\ links.current = t.link[p].current /\ links.previous = t.link[p].previous
      /\ links.next = t.link[p].next /\ links.handshake = s
  BY <1>1, TableParts DEF LinkType, BeginHandshake
<1> HIDE DEF slot, links
<1>5. u \in TableType
  BY <1>1, <1>2, <1>3, <1>4, TableParts DEF TableType
<1>6. /\ \A r \in Slots : u.slot[r] = IF r = s THEN slot ELSE t.slot[r]
      /\ \A q \in PeerIdx : u.link[q] = IF q = p THEN links ELSE t.link[q]
      /\ \A j \in Indices : u.byIndex[j] = IF j = i THEN s ELSE t.byIndex[j]
  BY <1>1, <1>2, TableParts
<1>7. AttemptsLinked(u)
  BY <1>1, <1>3, <1>4, <1>6, NoneOutside DEF AttemptsLinked, LinkedIn
<1>8. SessionsLinked(u)
  BY <1>1, <1>3, <1>4, <1>6, NoneOutside DEF SessionsLinked, LinkedIn
<1>9. GenerationsApart(u)
  BY <1>1, <1>3, <1>4, <1>6, NoneOutside DEF GenerationsApart, SessionsLinked, LinkedIn
<1>10. OwnersInstalled(u)
  BY <1>1, <1>3, <1>6, NoneOutside DEF OwnersInstalled, LinkedIn
<1>11. IndexedIn(u)
  BY <1>1, <1>3, <1>6, NoneOutside DEF IndexedIn
<1> QED BY <1>5, <1>7, <1>8, <1>9, <1>10, <1>11, Zenon DEF TableOK, LinkedIn, u

\* A response in a free slot, for a peer without an unconfirmed session
LEMMA RespondedOK ==
    ASSUME OccupantOK, NEW t, TableOK(t), NEW p \in PeerIdx, Installed(p),
           NEW s \in Slots, t.slot[s].state = "Free", t.link[p].next = None,
           NEW i \in Unused(t)
    PROVE  TableOK(Responded(t, p, s, i))
<1> DEFINE u == Responded(t, p, s, i)
           slot == NewSlot("Established", p, i)
           links == CommitResponderInstall(t.link[p], s)
<1>1. /\ t \in TableType /\ LinkedIn(t) /\ IndexedIn(t)
      /\ i \in Indices /\ t.byIndex[i] = None /\ occupant[p] \in Keys
  BY Zenon DEF TableOK, Unused, Installed, OccupantOK
<1>2. /\ u.slot = [t.slot EXCEPT ![s] = slot]
      /\ u.link = [t.link EXCEPT ![p] = links]
      /\ u.byIndex = [t.byIndex EXCEPT ![i] = s]
      /\ u.crossed = t.crossed
      /\ u = [slot |-> u.slot, link |-> u.link, byIndex |-> u.byIndex, crossed |-> u.crossed]
  BY Zenon DEF Responded
<1> HIDE DEF u
<1>3. slot \in SlotType /\ slot.state = "Established" /\ slot.peer = p /\ slot.index = i
      /\ slot.key = occupant[p] /\ slot.confirmed = FALSE
  BY <1>1, Zenon DEF SlotType, NewSlot
<1>4. /\ links \in LinkType
      /\ links.current = t.link[p].current /\ links.previous = t.link[p].previous
      /\ links.next = s /\ links.handshake = t.link[p].handshake
  BY <1>1, TableParts DEF LinkType, CommitResponderInstall
<1> HIDE DEF slot, links
<1>5. u \in TableType
  BY <1>1, <1>2, <1>3, <1>4, TableParts DEF TableType
<1>6. /\ \A r \in Slots : u.slot[r] = IF r = s THEN slot ELSE t.slot[r]
      /\ \A q \in PeerIdx : u.link[q] = IF q = p THEN links ELSE t.link[q]
      /\ \A j \in Indices : u.byIndex[j] = IF j = i THEN s ELSE t.byIndex[j]
  BY <1>1, <1>2, TableParts
<1>7. AttemptsLinked(u)
  BY <1>1, <1>3, <1>4, <1>6, NoneOutside DEF AttemptsLinked, LinkedIn
<1>8. SessionsLinked(u)
  BY <1>1, <1>3, <1>4, <1>6, NoneOutside DEF SessionsLinked, LinkedIn
<1>9. GenerationsApart(u)
  BY <1>1, <1>3, <1>4, <1>6, NoneOutside DEF GenerationsApart, SessionsLinked, LinkedIn
<1>10. OwnersInstalled(u)
  BY <1>1, <1>3, <1>6, NoneOutside DEF OwnersInstalled, LinkedIn
<1>11. IndexedIn(u)
  BY <1>1, <1>3, <1>6, NoneOutside DEF IndexedIn
<1> QED BY <1>5, <1>7, <1>8, <1>9, <1>10, <1>11, Zenon DEF TableOK, LinkedIn, u

\* A response that replaces the peer's unconfirmed session in place
LEMMA RespondedInPlaceOK ==
    ASSUME OccupantOK, NEW t, TableOK(t), NEW p \in PeerIdx, Installed(p),
           NEW s \in Slots, t.link[p].next = s, NEW i \in Unused(t)
    PROVE  TableOK(Responded(Unindexed(t, s), p, s, i))
<1> DEFINE u == Responded(Unindexed(t, s), p, s, i)
           slot == NewSlot("Established", p, i)
           links == CommitResponderInstall(t.link[p], s)
           old == t.slot[s].index
<1>1. /\ t \in TableType /\ LinkedIn(t) /\ IndexedIn(t)
      /\ i \in Indices /\ t.byIndex[i] = None /\ occupant[p] \in Keys
      /\ t.slot[s].state = "Established" /\ t.slot[s].peer = p /\ old \in Indices
  BY DEF TableOK, Unused, Installed, OccupantOK, LinkedIn, SessionsLinked, IndexedIn
<1>2. /\ u.slot = [t.slot EXCEPT ![s] = slot]
      /\ u.link = [t.link EXCEPT ![p] = links]
      /\ u.byIndex = [[t.byIndex EXCEPT ![old] = None] EXCEPT ![i] = s]
      /\ u.crossed = t.crossed
      /\ u = [slot |-> u.slot, link |-> u.link, byIndex |-> u.byIndex, crossed |-> u.crossed]
  BY Zenon DEF Responded, Unindexed
<1> HIDE DEF u
<1>3. slot \in SlotType /\ slot.state = "Established" /\ slot.peer = p /\ slot.index = i
      /\ slot.key = occupant[p] /\ slot.confirmed = FALSE
  BY <1>1, Zenon DEF SlotType, NewSlot
<1>4. /\ links \in LinkType
      /\ links.current = t.link[p].current /\ links.previous = t.link[p].previous
      /\ links.next = s /\ links.handshake = t.link[p].handshake
  BY <1>1, TableParts DEF LinkType, CommitResponderInstall
<1> HIDE DEF slot, links
<1>5. u \in TableType
  BY <1>1, <1>2, <1>3, <1>4, TableParts DEF TableType
<1>6. /\ \A r \in Slots : u.slot[r] = IF r = s THEN slot ELSE t.slot[r]
      /\ \A q \in PeerIdx : u.link[q] = IF q = p THEN links ELSE t.link[q]
      /\ \A j \in Indices :
           u.byIndex[j] = IF j = i THEN s ELSE IF j = old THEN None ELSE t.byIndex[j]
  BY <1>1, <1>2, TableParts
<1>7. AttemptsLinked(u)
  BY <1>1, <1>3, <1>4, <1>6, NoneOutside DEF AttemptsLinked, LinkedIn
<1>8. SessionsLinked(u)
  BY <1>1, <1>3, <1>4, <1>6, NoneOutside DEF SessionsLinked, LinkedIn
<1>9. GenerationsApart(u)
  BY <1>1, <1>3, <1>4, <1>6, NoneOutside DEF GenerationsApart, SessionsLinked, LinkedIn
<1>10. OwnersInstalled(u)
  BY <1>1, <1>3, <1>6, NoneOutside DEF OwnersInstalled, LinkedIn
<1>11. IndexedIn(u)
  BY <1>1, <1>3, <1>6, NoneOutside DEF IndexedIn
<1> QED BY <1>5, <1>7, <1>8, <1>9, <1>10, <1>11, Zenon DEF TableOK, LinkedIn, u

\* What the code relies on when it frees the session a rotation pushes out of
\* `previous': it is nobody's other generation.
LEMMA PreviousApart ==
    ASSUME OccupantOK, NEW t, TableOK(t), NEW p \in PeerIdx, NEW old \in Slots,
           t.link[p].previous = old
    PROVE  /\ t.slot[old].state = "Established" /\ t.slot[old].peer = p
           /\ t.slot[old].confirmed
           /\ t.link[p].current # old /\ t.link[p].next # old /\ t.link[p].handshake # old
<1>1. t.slot[old].state = "Established" /\ t.slot[old].peer = p
  BY DEF TableOK, LinkedIn, SessionsLinked
<1>2. t.slot[old].confirmed
  BY Zenon DEF TableOK, LinkedIn, GenerationsApart
<1>3. t.link[p].current # old
  BY Zenon DEF TableOK, LinkedIn, GenerationsApart
<1>4. t.link[p].next # old
  BY <1>2, Zenon DEF TableOK, LinkedIn, GenerationsApart
<1>5. t.link[p].handshake # old
  BY <1>1, Zenon DEF TableOK, LinkedIn, AttemptsLinked
<1> QED BY <1>1, <1>2, <1>3, <1>4, <1>5, Zenon

\* Two slots in use hold different receiver indices.
LEMMA IndicesApart ==
    ASSUME NEW t, TableOK(t), NEW r \in Slots, NEW s \in Slots, r # s,
           t.slot[r].state # "Free", t.slot[s].state # "Free"
    PROVE  t.slot[r].index \in Indices /\ t.slot[r].index # t.slot[s].index
<1>1. t.slot[r].index \in Indices /\ t.slot[s].index \in Indices
  BY Zenon DEF TableOK, IndexedIn
<1>2. t.byIndex[t.slot[r].index] = r /\ t.byIndex[t.slot[s].index] = s
  BY <1>1 DEF TableOK, IndexedIn
<1> QED BY <1>1, <1>2, Zenon

\* Rotation: slot s, an attempt or the unconfirmed session of peer p, becomes
\* its current session under the new links.
Rotates(t, p, s, links) ==
    /\ links \in LinkType /\ links.current = s /\ links.previous = t.link[p].current
    /\ \/ /\ t.slot[s].state = "Initiating"
          /\ links.next = t.link[p].next /\ links.handshake = None
       \/ /\ t.slot[s].state = "Established" /\ t.link[p].next = s
          /\ links.next = None /\ links.handshake = t.link[p].handshake

\* What rotating the generations of a peer (rotate_current) leaves of
\* the table: the new current slot, and the old previous one freed.
LEMMA RotatedParts ==
    ASSUME OccupantOK, NEW t, TableOK(t), NEW s \in Slots, NEW p \in PeerIdx,
           t.slot[s].peer = p, NEW links, Rotates(t, p, s, links)
    PROVE  LET u == Rotated(t, s, links)
               old == t.link[p].previous
           IN  /\ u = [slot |-> u.slot, link |-> u.link, byIndex |-> u.byIndex,
                       crossed |-> t.crossed]
               /\ u.slot \in [Slots -> SlotType] /\ u.link \in [PeerIdx -> LinkType]
               /\ u.byIndex \in [Indices -> Slots \cup {None}]
               /\ old # s
               /\ \A x \in Slots : u.slot[x] = IF x = old THEN FreeSlot
                                             ELSE IF x = s THEN Confirmed(t.slot[s])
                                             ELSE t.slot[x]
               /\ \A q \in PeerIdx : u.link[q] = IF q = p THEN links ELSE t.link[q]
               /\ \A j \in Indices :
                    u.byIndex[j] = IF old # None /\ j = t.slot[old].index
                                   THEN None ELSE t.byIndex[j]
<1> DEFINE u == Rotated(t, s, links)
           old == t.link[p].previous
           slot == Confirmed(t.slot[s])
           r == [slot |-> [t.slot EXCEPT ![s] = slot], link |-> [t.link EXCEPT ![p] = links],
                 byIndex |-> t.byIndex, crossed |-> t.crossed]
<1>1. t \in TableType /\ t.link[p] \in LinkType /\ t.slot[s] \in SlotType
  BY TableParts, Zenon DEF TableOK
<1>2. slot \in SlotType
  BY <1>1, Zenon DEF SlotType, Confirmed
<1> HIDE DEF slot
<1>3. links \in LinkType
  BY Zenon DEF Rotates
<1>4. old \in Slots \cup {None}
  BY <1>1, Zenon DEF LinkType
<1>5. CASE old = None
  <2>1. u = r
    BY <1>5, Zenon DEF Rotated, slot
  <2> HIDE DEF u
  <2> QED BY <1>1, <1>2, <1>3, <1>5, <2>1, TableParts, NoneOutside DEF u, slot
<1>6. CASE old \in Slots
  <2>1. /\ t.slot[old].state = "Established" /\ t.slot[old].peer = p /\ t.slot[old].confirmed
        /\ t.link[p].current # old /\ t.link[p].next # old /\ t.link[p].handshake # old
    BY <1>6, PreviousApart
  <2>2. old # s
    BY <2>1, Zenon DEF Rotates
  <2>3. t.slot[s].state # "Free"
    BY Zenon DEF Rotates
  <2>4. t.slot[old].index \in Indices
    BY <1>6, <2>1, <2>2, <2>3, IndicesApart, Zenon
  <2>5. u = Freed(r, old)
    BY <1>6, NoneOutside, Zenon DEF Rotated, slot
  <2>6. r.slot[old] = t.slot[old] /\ r.link[p] = links
    BY <1>1, <1>6, <2>2, TableParts, Zenon
  <2>7. Unlink(links, old) = links
    <3>1. old # None
      BY <1>6, NoneOutside, Zenon
    <3>2. links.current # old /\ links.previous # old /\ links.next # old /\ links.handshake # old
      BY <2>1, <2>2, <3>1, Zenon DEF Rotates
    <3> QED BY <1>3, <3>2, Zenon DEF Unlink, LinkType
  <2>8. u = [slot |-> [r.slot EXCEPT ![old] = FreeSlot],
             link |-> [r.link EXCEPT ![p] = links],
             byIndex |-> [t.byIndex EXCEPT ![t.slot[old].index] = None],
             crossed |-> t.crossed]
    <3>1. r.slot[old].state # "Free" /\ r.slot[old].peer = p
          /\ r.slot[old].index = t.slot[old].index
      BY <2>1, <2>6, Zenon
    <3>2. r.byIndex = t.byIndex /\ r.crossed = t.crossed
      BY Zenon
    <3> HIDE DEF r
    <3>3. Freed(r, old) = [slot |-> [r.slot EXCEPT ![old] = FreeSlot],
                           link |-> [r.link EXCEPT ![p] = Unlink(r.link[p], old)],
                           byIndex |-> [r.byIndex EXCEPT ![t.slot[old].index] = None],
                           crossed |-> r.crossed]
      BY <3>1, Zenon DEF Freed
    <3> QED BY <2>5, <2>6, <2>7, <3>2, <3>3, Zenon
  <2>9. r.slot = [t.slot EXCEPT ![s] = slot] /\ r.link = [t.link EXCEPT ![p] = links]
    BY Zenon
  <2> HIDE DEF u, r
  <2>10. old # None
    BY <1>6, NoneOutside, Zenon
  <2>11. /\ u.slot = [[t.slot EXCEPT ![s] = slot] EXCEPT ![old] = FreeSlot]
         /\ u.link = [[t.link EXCEPT ![p] = links] EXCEPT ![p] = links]
         /\ u.byIndex = [t.byIndex EXCEPT ![t.slot[old].index] = None]
         /\ u = [slot |-> u.slot, link |-> u.link, byIndex |-> u.byIndex, crossed |-> t.crossed]
    <3> DEFINE su == [r.slot EXCEPT ![old] = FreeSlot]
               lu == [r.link EXCEPT ![p] = links]
               bu == [t.byIndex EXCEPT ![t.slot[old].index] = None]
    <3>1. u = [slot |-> su, link |-> lu, byIndex |-> bu, crossed |-> t.crossed]
      BY <2>8, Zenon
    <3>2. su = [[t.slot EXCEPT ![s] = slot] EXCEPT ![old] = FreeSlot]
          /\ lu = [[t.link EXCEPT ![p] = links] EXCEPT ![p] = links]
      BY <2>9, Zenon
    <3> HIDE DEF su, lu, bu
    <3>3. u.slot = su /\ u.link = lu /\ u.byIndex = bu
      BY <3>1, Zenon
    <3> QED BY <3>1, <3>2, <3>3, Zenon DEF bu
  <2>12. /\ u.slot \in [Slots -> SlotType] /\ u.link \in [PeerIdx -> LinkType]
         /\ u.byIndex \in [Indices -> Slots \cup {None}]
    <3>1. /\ t.slot \in [Slots -> SlotType] /\ t.link \in [PeerIdx -> LinkType]
          /\ t.byIndex \in [Indices -> Slots \cup {None}]
      BY <1>1, TableParts, Zenon
    <3>2. u.slot \in [Slots -> SlotType]
      <4>1. PICK rotated \in [Slots -> SlotType] : rotated = [t.slot EXCEPT ![s] = slot]
        BY <1>2, <3>1, Zenon
      <4>2. [rotated EXCEPT ![old] = FreeSlot] \in [Slots -> SlotType]
        BY <1>6, FreeSlotType
      <4> QED BY <2>11, <4>1, <4>2, Zenon
    <3>3. u.link \in [PeerIdx -> LinkType]
      BY <1>3, <2>11, <3>1
    <3>4. u.byIndex \in [Indices -> Slots \cup {None}]
      BY <2>11, <3>1, Zenon
    <3> QED BY <3>2, <3>3, <3>4, Zenon
  <2>13. /\ \A x \in Slots : u.slot[x] = IF x = old THEN FreeSlot
                                        ELSE IF x = s THEN slot ELSE t.slot[x]
         /\ \A q \in PeerIdx : u.link[q] = IF q = p THEN links ELSE t.link[q]
         /\ \A j \in Indices : u.byIndex[j] = IF j = t.slot[old].index
                                             THEN None ELSE t.byIndex[j]
    <3>1. /\ t.slot \in [Slots -> SlotType] /\ t.link \in [PeerIdx -> LinkType]
          /\ t.byIndex \in [Indices -> Slots \cup {None}]
      BY <1>1, TableParts, Zenon
    <3>2. \A x \in Slots : u.slot[x] = IF x = old THEN FreeSlot
                                       ELSE IF x = s THEN slot ELSE t.slot[x]
      BY <2>11, <3>1, Zenon
    <3>3. \A q \in PeerIdx : u.link[q] = IF q = p THEN links ELSE t.link[q]
      BY <2>11, <3>1, Zenon
    <3>4. \A j \in Indices : u.byIndex[j] = IF j = t.slot[old].index
                                            THEN None ELSE t.byIndex[j]
      BY <2>11, <3>1, Zenon
    <3> QED BY <3>2, <3>3, <3>4, Zenon
  <2> QED BY <2>2, <2>10, <2>11, <2>12, <2>13, Zenon DEF u, slot
<1> QED BY <1>4, <1>5, <1>6, Zenon

\* A rotation keeps a consistent table consistent.
LEMMA RotatedOK ==
    ASSUME OccupantOK, NEW t, TableOK(t), NEW s \in Slots, NEW p \in PeerIdx,
           t.slot[s].peer = p, NEW links, Rotates(t, p, s, links)
    PROVE  TableOK(Rotated(t, s, links))
<1> DEFINE u == Rotated(t, s, links)
           slot == Confirmed(t.slot[s])
<1> SUFFICES ASSUME NEW old, old = t.link[p].previous
             PROVE  TableOK(u)
  BY Zenon
<1>1. /\ u = [slot |-> u.slot, link |-> u.link, byIndex |-> u.byIndex, crossed |-> t.crossed]
      /\ u.slot \in [Slots -> SlotType] /\ u.link \in [PeerIdx -> LinkType]
      /\ u.byIndex \in [Indices -> Slots \cup {None}]
  BY RotatedParts
<1>2. /\ old # s
      /\ \A x \in Slots : u.slot[x] = IF x = old THEN FreeSlot
                                    ELSE IF x = s THEN slot ELSE t.slot[x]
      /\ \A q \in PeerIdx : u.link[q] = IF q = p THEN links ELSE t.link[q]
      /\ \A j \in Indices : u.byIndex[j] = IF old # None /\ j = t.slot[old].index
                                          THEN None ELSE t.byIndex[j]
  BY RotatedParts
<1> HIDE DEF u
<1>3. /\ t \in TableType /\ LinkedIn(t) /\ IndexedIn(t)
      /\ t.link[p] \in LinkType /\ t.slot[s] \in SlotType
  BY TableParts, Zenon DEF TableOK
<1>4. u \in TableType
  BY <1>1, <1>3, TableParts, Zenon DEF TableType
<1>5. /\ slot.state = "Established" /\ slot.confirmed = TRUE
      /\ slot.peer = p /\ slot.key = t.slot[s].key /\ slot.index = t.slot[s].index
  BY <1>3, Zenon DEF SlotType, Confirmed
<1> HIDE DEF slot
<1>6. old \in Slots \cup {None}
  BY <1>3, Zenon DEF LinkType
<1>7. old \in Slots =>
        /\ t.slot[old].state = "Established" /\ t.slot[old].peer = p /\ t.slot[old].confirmed
        /\ t.link[p].current # old /\ t.link[p].next # old /\ t.link[p].handshake # old
  BY PreviousApart
<1>8. t.slot[s].state # "Free" /\ (t.link[p].handshake = s \/ t.link[p].next = s)
  BY <1>3, Zenon DEF Rotates, LinkedIn, AttemptsLinked
<1>14. AttemptsLinked(t) /\ SessionsLinked(t) /\ GenerationsApart(t) /\ OwnersInstalled(t)
  BY <1>3, Zenon DEF LinkedIn
<1>15. /\ u.slot[s] = slot /\ (old \in Slots => u.slot[old].state = "Free")
       /\ \A x \in Slots : x # s /\ x # old => u.slot[x] = t.slot[x]
  BY <1>2 DEF FreeSlot
<1>16. u.link[p] = links /\ \A q \in PeerIdx : q # p => u.link[q] = t.link[q]
  BY <1>2, Zenon
<1>17. /\ links.current = s /\ links.previous = t.link[p].current
       /\ \/ /\ t.slot[s].state = "Initiating"
             /\ links.next = t.link[p].next /\ links.handshake = None
          \/ /\ t.slot[s].state = "Established" /\ t.link[p].next = s
             /\ links.next = None /\ links.handshake = t.link[p].handshake
  BY Zenon DEF Rotates
<1>18. /\ t.link[p].current # s
       /\ \A q \in PeerIdx : q # p =>
            /\ s \notin {t.link[q].current, t.link[q].previous, t.link[q].next, t.link[q].handshake}
            /\ old \in Slots =>
                 old \notin {t.link[q].current, t.link[q].previous, t.link[q].next,
                             t.link[q].handshake}
  <2>1. t.link[p].current # s
    BY <1>14, <1>17 DEF SessionsLinked, GenerationsApart
  <2>2. \A q \in PeerIdx, x \in Slots : t.slot[x].peer = p /\ q # p =>
          x \notin {t.link[q].current, t.link[q].previous, t.link[q].next, t.link[q].handshake}
    BY <1>14 DEF AttemptsLinked, SessionsLinked
  <2> QED BY <1>7, <2>1, <2>2, Zenon
<1>9. AttemptsLinked(u)
  <2> SUFFICES ASSUME NEW q \in PeerIdx, NEW x \in Slots
               PROVE  u.link[q].handshake = x
                        <=> u.slot[x].state = "Initiating" /\ u.slot[x].peer = q
    BY Zenon DEF AttemptsLinked
  <2>1. t.link[q].handshake = x <=> t.slot[x].state = "Initiating" /\ t.slot[x].peer = q
    BY <1>14, Zenon DEF AttemptsLinked
  <2>2. t.link[p].handshake = s <=> t.slot[s].state = "Initiating"
    BY <1>14 DEF AttemptsLinked
  <2>3. CASE q = p
    <3>0. u.link[q] = links
      BY <1>16, <2>3, Zenon
    <3>1. CASE x = s
      BY <1>5, <1>15, <1>17, <2>2, <3>0, <3>1, NoneOutside
    <3>2. CASE x = old
      BY <1>7, <1>15, <1>17, <2>3, <3>0, <3>2, NoneOutside
    <3>3. CASE x # s /\ x # old
      BY <1>15, <1>17, <2>1, <2>2, <2>3, <3>0, <3>3, NoneOutside
    <3> QED BY <3>1, <3>2, <3>3, Zenon
  <2>4. CASE q # p
    BY <1>5, <1>15, <1>16, <1>18, <2>1, <2>4
  <2> QED BY <2>3, <2>4, Zenon
<1>10. SessionsLinked(u)
  <2> SUFFICES ASSUME NEW q \in PeerIdx, NEW x \in Slots
               PROVE  x \in {u.link[q].current, u.link[q].previous, u.link[q].next}
                        <=> u.slot[x].state = "Established" /\ u.slot[x].peer = q
    BY Zenon DEF SessionsLinked
  <2>1. x \in {t.link[q].current, t.link[q].previous, t.link[q].next}
          <=> t.slot[x].state = "Established" /\ t.slot[x].peer = q
    BY <1>14, Zenon DEF SessionsLinked
  <2>3. CASE q = p
    <3>0. u.link[q] = links
      BY <1>16, <2>3, Zenon
    <3>1. CASE x = s
      BY <1>5, <1>15, <1>17, <2>3, <3>0, <3>1, Zenon
    <3>2. CASE x = old
      BY <1>2, <1>7, <1>15, <1>17, <2>3, <3>0, <3>2, NoneOutside
    <3>3. CASE x # s /\ x # old
      <4>1. u.slot[x] = t.slot[x]
        BY <1>15, <3>3, Zenon
      <4>2. x \in {links.current, links.previous, links.next}
              <=> x \in {t.link[p].current, t.link[p].previous, t.link[p].next}
        BY <1>17, <3>3, NoneOutside, Zenon
      <4> QED BY <2>1, <2>3, <3>0, <4>1, <4>2, Zenon
    <3> QED BY <3>1, <3>2, <3>3, Zenon
  <2>4. CASE q # p
    BY <1>5, <1>15, <1>16, <1>18, <2>1, <2>4
  <2> QED BY <2>3, <2>4, Zenon
<1>11. GenerationsApart(u)
  <2> SUFFICES ASSUME NEW q \in PeerIdx, NEW x \in Slots
               PROVE  /\ u.link[q].next = x => ~u.slot[x].confirmed
                      /\ x \in {u.link[q].current, u.link[q].previous} => u.slot[x].confirmed
                      /\ u.link[q].current = x => u.link[q].previous # x
    BY Zenon DEF GenerationsApart
  <2>1. /\ t.link[q].next = x => ~t.slot[x].confirmed
        /\ x \in {t.link[q].current, t.link[q].previous} => t.slot[x].confirmed
        /\ t.link[q].current = x => t.link[q].previous # x
    BY <1>14, Zenon DEF GenerationsApart
  <2>2. t.slot[s].state = "Initiating" => t.link[p].next # s
    BY <1>14, Zenon DEF SessionsLinked
  <2>3. CASE q = p
    <3>1. u.link[q] = links
      BY <1>16, <2>3, Zenon
    <3>2. links.next = x => ~u.slot[x].confirmed
      BY <1>7, <1>15, <1>17, <2>1, <2>2, <2>3, NoneOutside
    <3>3. x \in {links.current, links.previous} => u.slot[x].confirmed
      BY <1>5, <1>7, <1>15, <1>17, <2>1, <2>3, Zenon
    <3>4. links.current = x => links.previous # x
      BY <1>17, <1>18, Zenon
    <3> QED BY <3>1, <3>2, <3>3, <3>4, Zenon
  <2>4. CASE q # p
    BY <1>15, <1>16, <1>18, <2>1, <2>4
  <2> QED BY <2>3, <2>4, Zenon
<1>12. OwnersInstalled(u)
  BY <1>5, <1>6, <1>8, <1>14, <1>15 DEF OwnersInstalled
<1>13. IndexedIn(u)
  <2>0. old \in Slots => t.slot[old].state # "Free"
    BY <1>7, Zenon
  <2>1. old \in Slots => t.slot[old].index \in Indices /\ t.slot[old].index # t.slot[s].index
    BY <1>2, <1>8, <2>0, IndicesApart
  <2> SUFFICES ASSUME NEW x \in Slots
               PROVE  /\ u.slot[x].state # "Free" => u.slot[x].index \in Indices
                      /\ \A i \in Indices :
                           u.byIndex[i] = x <=> u.slot[x].state # "Free" /\ u.slot[x].index = i
    BY Zenon DEF IndexedIn
  <2>2. /\ t.slot[x].state # "Free" => t.slot[x].index \in Indices
        /\ \A i \in Indices :
             t.byIndex[i] = x <=> t.slot[x].state # "Free" /\ t.slot[x].index = i
    BY <1>3, Zenon DEF IndexedIn
  <2>3. CASE x = old
    <3>1. \A i \in Indices : u.byIndex[i] # x
      <4>1. \A i \in Indices : t.byIndex[i] = x => t.slot[old].index = i
        BY <2>2, <2>3, Zenon
      <4>2. \A i \in Indices :
              u.byIndex[i] = IF i = t.slot[old].index THEN None ELSE t.byIndex[i]
        BY <1>2, <2>3, NoneOutside, Zenon
      <4> QED BY <4>1, <4>2, NoneOutside, Zenon
    <3> QED BY <1>15, <2>3, <3>1, Zenon
  <2>4. CASE x # old
    <3>1. /\ u.slot[x].state # "Free" <=> t.slot[x].state # "Free"
          /\ u.slot[x].index = t.slot[x].index
      BY <1>5, <1>8, <1>15, <2>4, Zenon
    <3>2. \A i \in Indices : u.byIndex[i] = x <=> t.byIndex[i] = x
      <4>1. old \in Slots => t.byIndex[t.slot[old].index] = old
        BY <1>3, <1>7, <2>1 DEF IndexedIn
      <4>2. CASE old = None
        BY <1>2, <4>2, Zenon
      <4>3. CASE old \in Slots
        <5>1. \A i \in Indices :
                u.byIndex[i] = IF i = t.slot[old].index THEN None ELSE t.byIndex[i]
          BY <1>2, <4>3, NoneOutside, Zenon
        <5> QED BY <2>4, <4>1, <4>3, <5>1, NoneOutside, Zenon
      <4> QED BY <1>6, <4>2, <4>3, Zenon
    <3> QED BY <2>2, <3>1, <3>2, Zenon
  <2> QED BY <2>3, <2>4, Zenon
<1> QED BY <1>4, <1>9, <1>10, <1>11, <1>12, <1>13, Zenon DEF TableOK, LinkedIn, u

-------------------------------------------------------------------------------
(* Handshakes started on the way, and sending, lose sessions and nothing     *)
(* else: a slot that is Established afterwards was the same session before,  *)
(* and no usable current session of a pinned peer is lost.                   *)

Preserved(t, u) ==
    /\ TableOK(u)
    /\ \A s \in Slots : u.slot[s].state = "Established" => u.slot[s] = t.slot[s]
    /\ \A p \in PeerIdx : occupant[p] \in Pinned /\ Usable(t, p) =>
         u.link[p].current = t.link[p].current /\ Usable(u, p)
    /\ t.crossed = {} => u.crossed = {}

\* A table is preserved by doing nothing.
LEMMA PreservedRefl == ASSUME NEW t, TableOK(t) PROVE Preserved(t, t)
BY Zenon DEF Preserved

\* What two steps preserve one after the other, they preserve together.
LEMMA PreservedTrans ==
    ASSUME NEW t, NEW u, NEW v, Preserved(t, u), Preserved(u, v)
    PROVE  Preserved(t, v)
BY Zenon DEF Preserved

\* The key of a peer's current session is the key installed in its entry.
LEMMA UsableOwned ==
    ASSUME OccupantOK, NEW t, TableOK(t), NEW p \in PeerIdx, Usable(t, p)
    PROVE  /\ t.link[p].current \in Slots
           /\ t.slot[t.link[p].current].state = "Established"
           /\ ~t.slot[t.link[p].current].old
           /\ t.slot[t.link[p].current].peer = p
           /\ t.slot[t.link[p].current].key = occupant[p]
<1>1. t.link[p] \in LinkType
  BY TableParts, Zenon DEF TableOK
<1>2. t.link[p].current \in Slots
  BY <1>1, Zenon DEF Usable, LinkType
<1>3. t.slot[t.link[p].current].state = "Established" /\ t.slot[t.link[p].current].peer = p
  BY <1>2, Zenon DEF TableOK, LinkedIn, SessionsLinked
<1> QED BY <1>2, <1>3, Zenon DEF TableOK, LinkedIn, OwnersInstalled, Usable, CanSend

\* What the allocator may take is a slot.
LEMMA AllocatableSlots ==
    ASSUME NEW t, TableOK(t)
    PROVE  Allocatable(t) \subseteq Slots
<1>1. \A p \in PeerIdx : t.link[p].previous \in Slots \cup {None}
  BY TableParts, Zenon DEF TableOK, LinkType
<1> QED BY <1>1, Zenon DEF Allocatable, InState

\* alloc_slot never takes the usable current session of a pinned peer.
LEMMA AllocatableSpares ==
    ASSUME OccupantOK, NEW t, TableOK(t), NEW s \in Allocatable(t),
           NEW p \in PeerIdx, occupant[p] \in Pinned, Usable(t, p)
    PROVE  t.link[p].current # s
<1> DEFINE c == t.link[p].current
<1>1. /\ c \in Slots /\ t.slot[c].state = "Established" /\ ~t.slot[c].old
      /\ t.slot[c].peer = p /\ t.slot[c].key = occupant[p]
  BY UsableOwned
<1>2. \A q \in PeerIdx : t.link[q].previous # c
  <2> SUFFICES ASSUME NEW q \in PeerIdx, t.link[q].previous = c PROVE FALSE
    BY Zenon
  <2>1. t.slot[c].peer = q /\ t.link[q].current # c
    BY <1>1, PreviousApart
  <2> QED BY <1>1, <2>1, Zenon
<1>3. c \notin InState(t, "Free")
  BY <1>1, Zenon DEF InState
<1>4. c \notin {x \in InState(t, "Established") : t.slot[x].old}
  BY <1>1, Zenon
<1>5. c \notin {t.link[q].previous : q \in PeerIdx} \ {None}
  BY <1>2, Zenon
<1>6. c \notin {x \in InState(t, "Established") :
                  ~(t.slot[x].key \in Pinned /\ t.link[t.slot[x].peer].current = x)}
  BY <1>1, Zenon
<1> HIDE DEF c
<1>7. s # c
  BY <1>3, <1>4, <1>5, <1>6, Zenon DEF Allocatable
<1> QED BY <1>7, Zenon DEF c

\* Freeing a slot that is not the live current one of a pinned peer.
LEMMA FreedPreserved ==
    ASSUME OccupantOK, NEW t, TableOK(t), NEW s \in Slots,
           \A p \in PeerIdx : occupant[p] \in Pinned /\ Usable(t, p) => t.link[p].current # s
    PROVE  Preserved(t, Freed(t, s))
<1> DEFINE u == Freed(t, s)
<1>1. TableOK(u)
  BY FreedOK, Zenon
<1>2. CASE t.slot[s].state = "Free"
  BY <1>1, <1>2, PreservedRefl, Zenon DEF Freed
<1>3. CASE t.slot[s].state # "Free"
  <2>1. t.slot[s].peer \in PeerIdx
    BY <1>3, Zenon DEF TableOK, LinkedIn, OwnersInstalled
  <2>2. /\ u.slot = [t.slot EXCEPT ![s] = FreeSlot]
        /\ u.link = [t.link EXCEPT ![t.slot[s].peer] = Unlink(@, s)]
        /\ u.crossed = t.crossed
    BY <1>3, Zenon DEF Freed
  <2> HIDE DEF u
  <2>3. \A r \in Slots : u.slot[r] = IF r = s THEN FreeSlot ELSE t.slot[r]
    BY <2>2, TableParts, Zenon DEF TableOK
  <2>4. \A r \in Slots : u.slot[r].state = "Established" => u.slot[r] = t.slot[r]
    BY <2>3 DEF FreeSlot
  <2>5. ASSUME NEW p \in PeerIdx, occupant[p] \in Pinned, Usable(t, p)
        PROVE  u.link[p].current = t.link[p].current /\ Usable(u, p)
    <3>1. t.link[p].current # s /\ t.link[p].current \in Slots
      BY <2>5, UsableOwned, Zenon
    <3>2. u.link[p] = t.link[p] \/ u.link[p] = Unlink(t.link[p], s)
      BY <2>1, <2>2, TableParts, Zenon DEF TableOK
    <3>3. u.link[p].current = t.link[p].current
      BY <3>1, <3>2 DEF Unlink
    <3>4. u.slot[t.link[p].current] = t.slot[t.link[p].current]
      BY <2>3, <3>1, Zenon
    <3> QED BY <2>5, <3>3, <3>4, Zenon DEF Usable, CanSend
  <2> QED BY <1>1, <2>2, <2>4, <2>5, Zenon DEF Preserved, u
<1> QED BY <1>2, <1>3, Zenon

\* Starting a handshake in a free slot of a peer that has none.
LEMMA BegunPreserved ==
    ASSUME OccupantOK, NEW t, TableOK(t), NEW p \in PeerIdx, Installed(p),
           NEW s \in Slots, t.slot[s].state = "Free", t.link[p].handshake = None,
           NEW i \in Unused(t)
    PROVE  Preserved(t, Begun(t, p, s, i))
<1> DEFINE u == Begun(t, p, s, i)
<1>1. TableOK(u)
  BY BegunOK, Zenon
<1>2. /\ u.slot = [t.slot EXCEPT ![s] = NewSlot("Initiating", p, i)]
      /\ u.link = [t.link EXCEPT ![p] = BeginHandshake(@, s)]
      /\ u.crossed = t.crossed
  BY Zenon DEF Begun
<1> HIDE DEF u
<1>3. \A r \in Slots : u.slot[r] = IF r = s THEN NewSlot("Initiating", p, i) ELSE t.slot[r]
  BY <1>2, TableParts, Zenon DEF TableOK
<1>4. \A r \in Slots : u.slot[r].state = "Established" => u.slot[r] = t.slot[r]
  BY <1>3 DEF NewSlot
<1>5. ASSUME NEW q \in PeerIdx, Usable(t, q)
      PROVE  u.link[q].current = t.link[q].current /\ Usable(u, q)
  <2>1. t.link[q].current # s /\ t.link[q].current \in Slots
    BY <1>5, UsableOwned
  <2>2. u.link[q] = t.link[q] \/ u.link[q] = BeginHandshake(t.link[q], s)
    BY <1>2, TableParts, Zenon DEF TableOK
  <2>3. t.link[q] \in LinkType
    BY TableParts, Zenon DEF TableOK
  <2>4. u.link[q].current = t.link[q].current
    BY <2>2, <2>3, Zenon DEF BeginHandshake, LinkType
  <2>5. u.slot[t.link[q].current] = t.slot[t.link[q].current]
    BY <1>3, <2>1, Zenon
  <2> QED BY <1>5, <2>4, <2>5, Zenon DEF Usable, CanSend
<1> QED BY <1>1, <1>2, <1>4, <1>5, Zenon DEF Preserved, u

\* Staging an initiation: a slot is found, freed if need be, and begun.
LEMMA StagedPreserved ==
    ASSUME OccupantOK, NEW t, TableOK(t), NEW p \in PeerIdx, Installed(p),
           NEW u \in Staged(t, p)
    PROVE  Preserved(t, u)
<1>1. CASE u = t
  BY <1>1, PreservedRefl, Zenon
<1>2. CASE u # t
  <2>1. t.link[p].handshake = None
    BY <1>2, Zenon DEF Staged
  <2>2. PICK s \in Allocatable(t) :
          u = Freed(t, s) \/ \E i \in Unused(Freed(t, s)) : u = Begun(Freed(t, s), p, s, i)
    BY <1>2, Zenon DEF Staged
  <2>3. s \in Slots
    BY AllocatableSlots, Zenon
  <2>4. Preserved(t, Freed(t, s)) /\ Freed(t, s).slot[s].state = "Free"
    BY <2>3, AllocatableSpares, FreedPreserved, FreedOK, Zenon
  <2>5. Freed(t, s).link[p].handshake = None
    <3>1. CASE t.slot[s].state = "Free"
      BY <2>1, <3>1, Zenon DEF Freed
    <3>2. CASE t.slot[s].state # "Free"
      <4>1. Freed(t, s).link = [t.link EXCEPT ![t.slot[s].peer] = Unlink(@, s)]
        BY <3>2, Zenon DEF Freed
      <4>2. t.slot[s].peer \in PeerIdx
        BY <2>3, <3>2, Zenon DEF TableOK, LinkedIn, OwnersInstalled
      <4>3. \/ Freed(t, s).link[p] = t.link[p]
            \/ Freed(t, s).link[p] = Unlink(t.link[p], s)
        BY <4>1, <4>2, TableParts, Zenon DEF TableOK
      <4> QED BY <2>1, <4>3 DEF Unlink
    <3> QED BY <3>1, <3>2, Zenon
  <2>6. TableOK(Freed(t, s))
    BY <2>4, Zenon DEF Preserved
  <2>7. \A i \in Unused(Freed(t, s)) : Preserved(Freed(t, s), Begun(Freed(t, s), p, s, i))
    BY <2>3, <2>4, <2>5, <2>6, BegunPreserved, Zenon
  <2> QED BY <2>2, <2>4, <2>7, PreservedTrans, Zenon
<1> QED BY <1>1, <1>2, Zenon

\* Sealing under a session of the key that was meant.
LEMMA SealPreserved ==
    ASSUME OccupantOK, NEW t, TableOK(t), NEW s, NEW k, t.slot[s].key = k
    PROVE  Preserved(t, Seal(t, k, s))
<1> DEFINE u == Seal(t, k, s)
<1>1. u.slot = t.slot /\ u.link = t.link /\ u.byIndex = t.byIndex /\ u.crossed = t.crossed
  BY Zenon DEF Seal
<1>2. u \in TableType
  BY <1>1, TableParts, Zenon DEF TableType, TableOK, Seal
<1> HIDE DEF u
<1>3. LinkedIn(t) /\ IndexedIn(t)
  BY Zenon DEF TableOK
<1>4. AttemptsLinked(u) /\ SessionsLinked(u)
  BY <1>1, <1>3 DEF LinkedIn, AttemptsLinked, SessionsLinked
<1>5. GenerationsApart(u) /\ OwnersInstalled(u)
  BY <1>1, <1>3 DEF LinkedIn, GenerationsApart, OwnersInstalled
<1>6. IndexedIn(u)
  BY <1>1, <1>3 DEF IndexedIn
<1>7. LinkedIn(u)
  BY <1>4, <1>5, Zenon DEF LinkedIn
<1> QED BY <1>1, <1>2, <1>6, <1>7, Zenon DEF Preserved, TableOK, Usable, CanSend, u

\* ensure_direct_handshake of a relay: never through another relay.
LEMMA EnsureDirectPreserved ==
    ASSUME OccupantOK, NEW t, TableOK(t), NEW r \in PeerIdx, Installed(r),
           NEW u \in EnsureDirect(t, r)
    PROVE  Preserved(t, u)
BY StagedPreserved, PreservedRefl, Zenon DEF EnsureDirect

\* Sending through a relay seals under its session, or starts its handshake.
LEMMA ViaRelayPreserved ==
    ASSUME OccupantOK, NEW t, TableOK(t), NEW r \in PeerIdx, Installed(r),
           NEW u \in ViaRelay(t, r)
    PROVE  Preserved(t, u)
<1> DEFINE v == Seal(t, occupant[r], t.link[r].current)
<1>1. CASE u = t
  BY <1>1, PreservedRefl, Zenon
<1>2. CASE ~Usable(t, r) /\ u \in EnsureDirect(t, r)
  BY <1>2, EnsureDirectPreserved, Zenon
<1>3. CASE Usable(t, r) /\ u \in {v} \cup EnsureDirect(v, r)
  <2>1. Preserved(t, v)
    BY <1>3, UsableOwned, SealPreserved
  <2> HIDE DEF v
  <2>2. TableOK(v)
    BY <2>1, Zenon DEF Preserved
  <2>3. u = v \/ Preserved(v, u)
    BY <1>3, <2>2, EnsureDirectPreserved, Zenon
  <2> QED BY <2>1, <2>3, PreservedTrans, Zenon
<1> QED BY <1>1, <1>2, <1>3, Zenon DEF ViaRelay

\* Transmitting to a peer, directly or through its relay.
LEMMA TransmitPreserved ==
    ASSUME OccupantOK, NEW t, TableOK(t), NEW p \in PeerIdx, NEW u \in Transmit(t, p)
    PROVE  Preserved(t, u)
<1>1. CASE u = t
  BY <1>1, PreservedRefl, Zenon
<1>2. CASE u # t
  <2>1. PICK r \in RelayIdx(p) : u \in ViaRelay(t, r)
    BY <1>2, Zenon DEF Transmit
  <2> QED BY <2>1, ViaRelayPreserved, Zenon DEF RelayIdx, Installed
<1> QED BY <1>1, <1>2, Zenon

\* ensure_handshake stages an initiation and transmits it.
LEMMA EnsureHandshakePreserved ==
    ASSUME OccupantOK, NEW t, TableOK(t), NEW p \in PeerIdx, Installed(p),
           NEW u \in EnsureHandshake(t, p)
    PROVE  Preserved(t, u)
<1>1. CASE u = t
  BY <1>1, PreservedRefl, Zenon
<1>2. CASE u # t
  <2>1. PICK v \in Staged(t, p) : u = v \/ u \in Transmit(v, p)
    BY <1>2, Zenon DEF EnsureHandshake
  <2>2. Preserved(t, v)
    BY StagedPreserved, Zenon
  <2>3. TableOK(v)
    BY <2>2, Zenon DEF Preserved
  <2>4. u = v \/ Preserved(v, u)
    BY <2>1, <2>3, TransmitPreserved, Zenon
  <2> QED BY <2>2, <2>4, PreservedTrans, Zenon
<1> QED BY <1>1, <1>2, Zenon

\* A packet sealed for the peer and then for its relay.
LEMMA EncryptViaRelayPreserved ==
    ASSUME OccupantOK, NEW t, TableOK(t), NEW p \in PeerIdx, Installed(p),
           NEW r \in PeerIdx, Installed(r), NEW s, NEW k,
           CanSend(t, s) => t.slot[s].key = k,
           NEW u \in EncryptViaRelay(t, p, s, k, r)
    PROVE  Preserved(t, u)
<1> DEFINE v == Seal(t, k, s)
           w == Seal(v, occupant[r], t.link[r].current)
<1>1. CASE u = t
  BY <1>1, PreservedRefl, Zenon
<1>2. CASE u \in EnsureDirect(t, r)
  BY <1>2, EnsureDirectPreserved, Zenon
<1>3. CASE Usable(t, r) /\ CanSend(t, s)
           /\ u \in UNION {{x} \cup EnsureDirect(x, r) : x \in EnsureHandshake(w, p)}
  <2>1. Preserved(t, v) /\ v.slot = t.slot /\ v.link = t.link
    BY <1>3, SealPreserved, Zenon DEF Seal
  <2>2. TableOK(v)
    BY <2>1, Zenon DEF Preserved
  <2>3. t.slot[t.link[r].current].key = occupant[r]
    BY <1>3, UsableOwned, Zenon
  <2> HIDE DEF v
  <2>4. Preserved(v, w)
    BY <2>1, <2>2, <2>3, SealPreserved, Zenon
  <2>5. TableOK(w) /\ Preserved(t, w)
    BY <2>1, <2>4, PreservedTrans, Zenon DEF Preserved
  <2> HIDE DEF w
  <2>6. PICK x \in EnsureHandshake(w, p) : u = x \/ u \in EnsureDirect(x, r)
    BY <1>3, Zenon
  <2>7. Preserved(w, x)
    BY <2>5, EnsureHandshakePreserved, Zenon
  <2>8. TableOK(x)
    BY <2>7, Zenon DEF Preserved
  <2>9. u = x \/ Preserved(x, u)
    BY <2>6, <2>8, EnsureDirectPreserved, Zenon
  <2> QED BY <2>5, <2>7, <2>9, PreservedTrans
<1> QED BY <1>1, <1>2, <1>3, Zenon DEF EncryptViaRelay

\* A packet sealed under a session of the key it is meant for crosses nothing.
LEMMA EncryptAndSendPreserved ==
    ASSUME OccupantOK, NEW t, TableOK(t), NEW p \in PeerIdx, Installed(p), NEW s, NEW k,
           CanSend(t, s) => t.slot[s].key = k,
           NEW u \in EncryptAndSend(t, p, s, k)
    PROVE  Preserved(t, u)
<1>1. CASE u = t
  BY <1>1, PreservedRefl, Zenon
<1>2. CASE CanSend(t, s) /\ u \in EnsureHandshake(Seal(t, k, s), p)
  <2>1. Preserved(t, Seal(t, k, s))
    BY <1>2, SealPreserved, Zenon
  <2>2. TableOK(Seal(t, k, s))
    BY <2>1, Zenon DEF Preserved
  <2>3. Preserved(Seal(t, k, s), u)
    BY <1>2, <2>2, EnsureHandshakePreserved, Zenon
  <2> QED BY <2>1, <2>3, PreservedTrans, Zenon
<1>3. CASE \E r \in RelayIdx(p) : u \in EncryptViaRelay(t, p, s, k, r)
  BY <1>3, EncryptViaRelayPreserved, Zenon DEF RelayIdx, Installed
<1> QED BY <1>1, <1>2, <1>3, Zenon DEF EncryptAndSend

-------------------------------------------------------------------------------
(* The inductive invariant.  No part of it is inductive alone: freeing a     *)
(* slot needs the links and the indices to agree, sealing for the right key  *)
(* needs the links, and flushing parked packets needs ParkedForOccupant.     *)

Inv ==
    /\ TypeOK /\ Linked /\ IndexExact
    /\ SealedForOwner /\ ParkedForOccupant

\* The step property behind PinnedKept
PinnedStep ==
    \A p \in PeerIdx :
      (occupant[p] \in Pinned /\ Usable(table, p)) => table'.link[p].current # None

\* The conjuncts of the invariant that speak of the table.
LEMMA InvTable == ASSUME Inv PROVE OccupantOK /\ TableOK(table) /\ table.crossed = {}
BY Zenon DEF Inv, TypeOK, Linked, IndexExact, SealedForOwner, OccupantOK, TableOK

\* A step that leaves the peer table alone and the session pool consistent
LEMMA PoolStep ==
    ASSUME Inv, TableOK(table'), table'.crossed = {}, UNCHANGED occupant,
           parked' \subseteq parked \cup {<<p, occupant[p]>> : p \in {q \in PeerIdx : Installed(q)}}
    PROVE  Inv'
<1>1. table' \in TableType /\ LinkedIn(table') /\ IndexedIn(table')
  BY Zenon DEF TableOK
<1>2. \A w \in parked' : w \in PeerIdx \X Keys /\ occupant[w[1]] = w[2]
  BY DEF Inv, TypeOK, ParkedForOccupant, Installed
<1>3. TypeOK'
  BY <1>1, <1>2, Zenon DEF Inv, TypeOK, TableType, SlotType, LinkType
<1>4. Linked'
  BY <1>1, Zenon DEF Linked, LinkedIn, AttemptsLinked, SessionsLinked, GenerationsApart,
              OwnersInstalled
<1>5. IndexExact'
  BY <1>1, Zenon DEF IndexExact, IndexedIn
<1>6. SealedForOwner' /\ ParkedForOccupant'
  BY <1>2, Zenon DEF SealedForOwner, ParkedForOccupant
<1> QED BY <1>3, <1>4, <1>5, <1>6, Zenon DEF Inv

\* A table that keeps the agreement makes a step that keeps the invariant.
LEMMA PreservedStep ==
    ASSUME Inv, Preserved(table, table'), UNCHANGED occupant,
           parked' \subseteq parked \cup {<<p, occupant[p]>> : p \in {q \in PeerIdx : Installed(q)}}
    PROVE  Inv' /\ PinnedStep
<1>1. TableOK(table') /\ table'.crossed = {}
  BY InvTable, Zenon DEF Preserved
<1>2. PinnedStep
  BY Zenon DEF PinnedStep, Preserved, Usable
<1> QED BY <1>1, <1>2, PoolStep, Zenon

\* Sending a packet, with the handshake it may begin.
LEMMA SendInnerStep == ASSUME Inv, NEW p \in PeerIdx, SendInner(p) PROVE Inv' /\ PinnedStep
<1>1. OccupantOK /\ TableOK(table)
  BY InvTable, Zenon
<1>2. CASE Usable(table, p)
  <2>1. table.slot[table.link[p].current].key = occupant[p]
    BY <1>1, <1>2, UsableOwned, Zenon
  <2>2. Preserved(table, table')
    BY <1>1, <1>2, <2>1, EncryptAndSendPreserved, Zenon DEF SendInner
  <2> QED BY <1>2, <2>2, PreservedStep, Zenon DEF SendInner
<1>3. CASE ~Usable(table, p)
  <2>1. Preserved(table, table')
    BY <1>1, <1>3, EnsureHandshakePreserved, Zenon DEF SendInner
  <2> QED BY <1>3, <2>1, PreservedStep, Zenon DEF SendInner
<1> QED BY <1>2, <1>3, Zenon

\* The timer of a peer, which may begin a handshake.
LEMMA PeerTimerStep == ASSUME Inv, NEW p \in PeerIdx, PeerTimer(p) PROVE Inv' /\ PinnedStep
<1>1. OccupantOK /\ TableOK(table)
  BY InvTable, Zenon
<1>2. CASE Usable(table, p) /\ table' \in EncryptAndSend(table, p, table.link[p].current, occupant[p])
  <2>1. table.slot[table.link[p].current].key = occupant[p]
    BY <1>1, <1>2, UsableOwned, Zenon
  <2>2. Preserved(table, table')
    BY <1>1, <1>2, <2>1, EncryptAndSendPreserved, Zenon DEF PeerTimer
  <2> QED BY <2>2, PreservedStep, Zenon DEF PeerTimer
<1>3. CASE table' \in EnsureHandshake(table, p)
  <2>1. Preserved(table, table')
    BY <1>1, <1>3, EnsureHandshakePreserved, Zenon DEF PeerTimer
  <2> QED BY <2>1, PreservedStep, Zenon DEF PeerTimer
<1> QED BY <1>2, <1>3, Zenon DEF PeerTimer

\* Slot s, not the live current session of a pinned peer, is freed.
LEMMA FreeStep ==
    ASSUME Inv, NEW s \in Slots, table' = Freed(table, s), UNCHANGED occupant,
           parked' \subseteq parked, table.slot[s].state = "Initiating" \/ table.slot[s].old
    PROVE  Inv' /\ PinnedStep
<1>1. OccupantOK /\ TableOK(table)
  BY InvTable, Zenon
<1>2. \A p \in PeerIdx : Usable(table, p) => table.link[p].current # s
  BY <1>1, UsableOwned
<1>3. Preserved(table, table')
  BY <1>1, <1>2, FreedPreserved, Zenon
<1> QED BY <1>3, PreservedStep, Zenon

\* What Responded does to the sessions other peers use
LEMMA RespondedKeeps ==
    ASSUME OccupantOK, NEW t, TableOK(t), NEW b, NEW p \in PeerIdx, NEW s \in Slots, NEW i,
           b.slot = t.slot /\ b.link = t.link /\ b.crossed = t.crossed,
           \A q \in PeerIdx : t.link[q].current # s
    PROVE  LET v == Responded(b, p, s, i)
           IN  /\ v.crossed = t.crossed
               /\ \A q \in PeerIdx : Usable(t, q) => Usable(v, q)
<1> DEFINE v == Responded(b, p, s, i)
<1>1. /\ v.slot = [t.slot EXCEPT ![s] = NewSlot("Established", p, i)]
      /\ v.link = [t.link EXCEPT ![p] = CommitResponderInstall(t.link[p], s)]
      /\ v.crossed = t.crossed
  BY Zenon DEF Responded
<1> HIDE DEF v
<1>2. ASSUME NEW q \in PeerIdx, Usable(t, q) PROVE Usable(v, q)
  <2>1. t.link[q].current # s /\ t.link[q].current \in Slots
    BY <1>2, UsableOwned, Zenon
  <2>2. v.link[q] = t.link[q] \/ v.link[q] = CommitResponderInstall(t.link[q], s)
    BY <1>1, TableParts, Zenon DEF TableOK
  <2>3. t.link[q] \in LinkType
    BY TableParts, Zenon DEF TableOK
  <2>4. v.link[q].current = t.link[q].current
    BY <2>2, <2>3, Zenon DEF CommitResponderInstall, LinkType
  <2>5. v.slot[t.link[q].current] = t.slot[t.link[q].current]
    BY <1>1, <2>1, TableParts, Zenon DEF TableOK
  <2> QED BY <1>2, <2>4, <2>5, Zenon DEF Usable, CanSend
<1> QED BY <1>1, <1>2, Zenon DEF v

\* Answering an initiation, with the slot it takes over.
LEMMA RespondStep ==
    ASSUME Inv, NEW p \in PeerIdx, RespondToInitiation(p) PROVE Inv' /\ PinnedStep
<1> DEFINE next == table.link[p].next
<1>1. OccupantOK /\ TableOK(table) /\ table.crossed = {} /\ Installed(p)
  BY InvTable, Zenon DEF RespondToInitiation
<1>2. ASSUME NEW v, TableOK(v), v.crossed = {}, table' \in Transmit(v, p),
             \A q \in PeerIdx : occupant[q] \in Pinned /\ Usable(table, q) => Usable(v, q)
      PROVE  Inv' /\ PinnedStep
  <2>1. Preserved(v, table')
    BY <1>1, <1>2, TransmitPreserved, Zenon
  <2>2. TableOK(table') /\ table'.crossed = {}
    BY <1>2, <2>1, Zenon DEF Preserved
  <2>3. PinnedStep
    BY <1>2, <2>1, Zenon DEF Preserved, PinnedStep, Usable
  <2> QED BY <2>2, <2>3, PoolStep, Zenon DEF RespondToInitiation
<1>3. CASE next # None
  <2>1. next \in Slots
    BY <1>1, <1>3, TableParts, Zenon DEF TableOK, LinkType
  <2>2. PICK i \in Unused(table) :
          table' \in Transmit(Responded(Unindexed(table, next), p, next, i), p)
    BY <1>3, Zenon DEF RespondToInitiation
  <2> DEFINE v == Responded(Unindexed(table, next), p, next, i)
  <2>3. TableOK(v)
    BY <1>1, <2>1, RespondedInPlaceOK, Zenon
  <2>4. \A q \in PeerIdx : table.link[q].current # next
    <3> SUFFICES ASSUME NEW q \in PeerIdx, table.link[q].current = next PROVE FALSE
      BY Zenon
    <3>1. table.slot[next].confirmed
      BY <1>1, <2>1, Zenon DEF TableOK, LinkedIn, GenerationsApart
    <3>2. ~table.slot[next].confirmed
      BY <1>1, <2>1, Zenon DEF TableOK, LinkedIn, GenerationsApart
    <3> QED BY <3>1, <3>2, Zenon
  <2>5. v.crossed = {} /\ \A q \in PeerIdx : Usable(table, q) => Usable(v, q)
    <3>1. /\ Unindexed(table, next).slot = table.slot
          /\ Unindexed(table, next).link = table.link
          /\ Unindexed(table, next).crossed = table.crossed
      BY Zenon DEF Unindexed
    <3> DEFINE b == Unindexed(table, next)
    <3>2. b.slot = table.slot /\ b.link = table.link /\ b.crossed = table.crossed
      BY <3>1, Zenon
    <3> HIDE DEF b, next
    <3>3. LET w == Responded(b, p, next, i)
          IN  /\ w.crossed = table.crossed
              /\ \A q \in PeerIdx : Usable(table, q) => Usable(w, q)
      BY <1>1, <2>1, <2>4, <3>2, RespondedKeeps, Zenon
    <3> QED BY <1>1, <3>3, Zenon DEF b
  <2> HIDE DEF v
  <2> QED BY <1>2, <2>2, <2>3, <2>5, Zenon DEF v
<1>4. CASE next = None
  <2>1. PICK s \in Allocatable(table) :
          \/ table' = Freed(table, s)
          \/ \E i \in Unused(Freed(table, s)) :
               table' \in Transmit(Responded(Freed(table, s), p, s, i), p)
    BY <1>4, Zenon DEF RespondToInitiation
  <2> DEFINE f == Freed(table, s)
  <2>2. s \in Slots
    BY <1>1, AllocatableSlots, Zenon
  <2>3. Preserved(table, f) /\ f.slot[s].state = "Free"
    BY <1>1, <2>2, AllocatableSpares, FreedPreserved, FreedOK, Zenon
  <2>4. TableOK(f) /\ f.crossed = {}
    BY <1>1, <2>3, Zenon DEF Preserved
  <2>5. CASE table' = f
    BY <2>3, <2>5, PreservedStep, Zenon DEF RespondToInitiation
  <2>6. CASE \E i \in Unused(f) : table' \in Transmit(Responded(f, p, s, i), p)
    <3>1. PICK i \in Unused(f) : table' \in Transmit(Responded(f, p, s, i), p)
      BY <2>6, Zenon
    <3>2. f.link[p].next = None
      <4>1. CASE table.slot[s].state = "Free"
        BY <1>4, <4>1, Zenon DEF Freed
      <4>2. CASE table.slot[s].state # "Free"
        <5>1. f.link = [table.link EXCEPT ![table.slot[s].peer] = Unlink(@, s)]
          BY <4>2, Zenon DEF Freed
        <5>2. f.link[p] = table.link[p] \/ f.link[p] = Unlink(table.link[p], s)
          BY <1>1, <5>1, TableParts, Zenon DEF TableOK
        <5> QED BY <1>4, <5>2 DEF Unlink
      <4> QED BY <4>1, <4>2, Zenon
    <3> HIDE DEF f
    <3> DEFINE v == Responded(f, p, s, i)
    <3>3. TableOK(v)
      BY <1>1, <2>2, <2>3, <2>4, <3>2, RespondedOK, Zenon
    <3>4. \A q \in PeerIdx : f.link[q].current # s
      BY <2>2, <2>3, <2>4, Zenon DEF TableOK, LinkedIn, SessionsLinked
    <3>5. v.crossed = {} /\ \A q \in PeerIdx : Usable(f, q) => Usable(v, q)
      BY <1>1, <2>2, <2>4, <3>4, RespondedKeeps
    <3>6. \A q \in PeerIdx : occupant[q] \in Pinned /\ Usable(table, q) => Usable(v, q)
      BY <2>3, <3>5, Zenon DEF Preserved
    <3> HIDE DEF v
    <3> QED BY <1>2, <3>1, <3>3, <3>5, <3>6, Zenon DEF v
  <2> QED BY <2>1, <2>5, <2>6, Zenon
<1> QED BY <1>3, <1>4, Zenon

\* A rotation keeps every current session of the others and makes s current.
LEMMA RotatedKeeps ==
    ASSUME OccupantOK, NEW t, TableOK(t), NEW s \in Slots, NEW p \in PeerIdx,
           t.slot[s].peer = p, NEW links, Rotates(t, p, s, links)
    PROVE  LET u == Rotated(t, s, links)
           IN  /\ TableOK(u) /\ u.crossed = t.crossed
               /\ u.slot[s].state = "Established" /\ u.slot[s].key = t.slot[s].key
               /\ u.link[p].current = s /\ Usable(u, p)
               /\ \A q \in PeerIdx : Usable(t, q) => Usable(u, q)
<1> DEFINE u == Rotated(t, s, links)
<1>1. TableOK(u)
  BY RotatedOK, Zenon
<1>2. /\ u.crossed = t.crossed /\ t.link[p].previous # s
      /\ \A x \in Slots : u.slot[x] = IF x = t.link[p].previous THEN FreeSlot
                                    ELSE IF x = s THEN Confirmed(t.slot[s]) ELSE t.slot[x]
      /\ \A q \in PeerIdx : u.link[q] = IF q = p THEN links ELSE t.link[q]
  BY RotatedParts
<1> HIDE DEF u
<1>3. /\ u.slot[s].state = "Established" /\ u.slot[s].key = t.slot[s].key
      /\ u.slot[s].confirmed /\ ~u.slot[s].old
  <2>1. u.slot[s] = Confirmed(t.slot[s])
    BY <1>2, Zenon
  <2> QED BY <2>1 DEF Confirmed
<1>4. u.link[p].current = s /\ Usable(u, p)
  BY <1>2, <1>3, NoneOutside DEF Rotates, Usable, CanSend
<1>5. ASSUME NEW q \in PeerIdx, q # p, Usable(t, q) PROVE Usable(u, q)
  <2>1. t.link[q].current \in Slots /\ t.slot[t.link[q].current].peer = q
    BY <1>5, UsableOwned, Zenon
  <2>2. t.link[q].current # t.link[p].previous
    BY <1>5, <2>1, PreviousApart
  <2>3. t.link[q].current # s
    BY <1>5, <2>1, Zenon
  <2>4. u.slot[t.link[q].current] = t.slot[t.link[q].current] /\ u.link[q] = t.link[q]
    BY <1>2, <1>5, <2>1, <2>2, <2>3, Zenon
  <2> QED BY <1>5, <2>4, Zenon DEF Usable, CanSend
<1> QED BY <1>1, <1>2, <1>3, <1>4, <1>5, Zenon DEF u

\* Taking a response, with the packets flushed into the new session.
LEMMA RxResponseStep ==
    ASSUME Inv, NEW s \in Slots, RxResponse(s) PROVE Inv' /\ PinnedStep
<1> DEFINE p == table.slot[s].peer
           c == Completed(s)
           links == InstallInitiator(table.link[p], s)
<1>1. OccupantOK /\ TableOK(table) /\ table.crossed = {} /\ table.slot[s].state = "Initiating"
  BY InvTable, Zenon DEF RxResponse
<1>2. p \in PeerIdx /\ occupant[p] = table.slot[s].key /\ Installed(p)
  BY <1>1, Zenon DEF TableOK, LinkedIn, OwnersInstalled, Installed
<1>3. Rotates(table, p, s, links)
  <2>1. table.link[p] \in LinkType
    BY <1>1, <1>2, TableParts, Zenon DEF TableOK
  <2> QED BY <1>1, <2>1, Zenon DEF Rotates, InstallInitiator, Rotate, LinkType
<1>4. c = Rotated(table, s, links)
  BY Zenon DEF Completed
<1>5. /\ TableOK(c) /\ c.crossed = {}
      /\ c.slot[s].key = occupant[p]
      /\ \A q \in PeerIdx : Usable(table, q) => Usable(c, q)
  <2>1. table.slot[s].peer = p
    BY Zenon
  <2> HIDE DEF c, p, links
  <2>2. LET u == Rotated(table, s, links)
        IN  /\ TableOK(u) /\ u.crossed = table.crossed
            /\ u.slot[s].key = table.slot[s].key
            /\ \A q \in PeerIdx : Usable(table, q) => Usable(u, q)
    BY <1>1, <1>2, <1>3, <2>1, RotatedKeeps
  <2> QED BY <1>1, <1>2, <1>4, <2>2, Zenon
<1>6. \A k \in Keys : <<p, k>> \in parked => k = occupant[p]
  BY Zenon DEF Inv, ParkedForOccupant
<1>7. PICK k, l : k = occupant[p] /\ l = occupant[p]
        /\ \E first \in EncryptAndSend(c, p, s, k) :
             table' = first \/ table' \in EncryptAndSend(first, p, s, l)
  <2> DEFINE toSend == IF {k \in Keys : <<p, k>> \in parked} = {} THEN {occupant[p]}
                       ELSE {k \in Keys : <<p, k>> \in parked}
  <2>1. \A k \in toSend : k = occupant[p]
    BY <1>6, Zenon
  <2>2. \E k \in toSend : \E first \in EncryptAndSend(c, p, s, k) :
          table' = first \/ \E l \in toSend : table' \in EncryptAndSend(first, p, s, l)
    BY Zenon DEF RxResponse
  <2> HIDE DEF toSend, c
  <2> QED BY <2>1, <2>2, Zenon
<1> HIDE DEF c
<1>8. PICK first \in EncryptAndSend(c, p, s, k) :
        table' = first \/ table' \in EncryptAndSend(first, p, s, l)
  BY <1>7, Zenon
<1>9. Preserved(c, first)
  BY <1>1, <1>2, <1>5, <1>7, EncryptAndSendPreserved, Zenon
<1>10. TableOK(first) /\ (CanSend(first, s) => first.slot[s].key = l)
  BY <1>5, <1>7, <1>9, Zenon DEF Preserved, CanSend
<1>11. Preserved(c, table')
  BY <1>1, <1>2, <1>8, <1>9, <1>10, EncryptAndSendPreserved, PreservedTrans, Zenon
<1>12. TableOK(table') /\ table'.crossed = {}
  BY <1>5, <1>11, Zenon DEF Preserved
<1>13. PinnedStep
  BY <1>5, <1>11, Zenon DEF Preserved, PinnedStep, Usable
<1>14. parked' \subseteq parked /\ UNCHANGED occupant
  BY Zenon DEF RxResponse
<1> QED BY <1>12, <1>13, <1>14, PoolStep, Zenon

\* The first packet of a session promotes it.
LEMMA ConfirmStep ==
    ASSUME Inv, NEW s \in Slots, Confirm(s) PROVE Inv' /\ PinnedStep
<1> DEFINE p == table.slot[s].peer
           links == ConfirmResponder(table.link[p], s)
<1>1. /\ OccupantOK /\ TableOK(table) /\ table.crossed = {}
      /\ table.slot[s].state = "Established" /\ table.link[p].next = s
      /\ table' = Rotated(table, s, links)
  BY InvTable, Zenon DEF Confirm
<1>2. p \in PeerIdx
  BY <1>1, Zenon DEF TableOK, LinkedIn, OwnersInstalled
<1>3. Rotates(table, p, s, links)
  <2>1. table.link[p] \in LinkType
    BY <1>1, <1>2, TableParts, Zenon DEF TableOK
  <2> QED BY <1>1, <2>1, Zenon DEF Rotates, ConfirmResponder, Rotate, LinkType
<1> SUFFICES ASSUME NEW l, l = links PROVE Inv' /\ PinnedStep
  BY Zenon
<1>6. PICK q \in PeerIdx : table.slot[s].peer = q /\ Rotates(table, q, s, l) /\ table' = Rotated(table, s, l)
  BY <1>1, <1>2, <1>3, Zenon
<1> HIDE DEF p, links
<1>4. /\ TableOK(table') /\ table'.crossed = {}
      /\ \A x \in PeerIdx : Usable(table, x) => Usable(table', x)
  BY <1>1, <1>6, RotatedKeeps
<1>5. PinnedStep
  <2>1. \A x \in PeerIdx : Usable(table', x) => table'.link[x].current # None
    BY Zenon DEF Usable
  <2> QED BY <1>4, <2>1, Zenon DEF PinnedStep
<1> QED BY <1>4, <1>5, PoolStep, Zenon DEF Confirm

\* A retransmission may begin a handshake with the relay it goes through, or give up.
LEMMA RetransmitStep ==
    ASSUME Inv, NEW s \in Slots, Retransmit(s) PROVE Inv' /\ PinnedStep
<1>1. OccupantOK /\ TableOK(table) /\ table.slot[s].state = "Initiating"
  BY InvTable, Zenon DEF Retransmit
<1>2. table.slot[s].peer \in PeerIdx /\ Installed(table.slot[s].peer)
  BY <1>1, Zenon DEF TableOK, LinkedIn, OwnersInstalled, Installed
<1>3. CASE table' \in Transmit(table, table.slot[s].peer)
  BY <1>1, <1>2, <1>3, TransmitPreserved, PreservedStep, Zenon DEF Retransmit
<1>4. CASE table' = Freed(table, s)
  BY <1>1, <1>4, FreeStep, Zenon DEF Retransmit
<1> QED BY <1>3, <1>4, Zenon DEF Retransmit

\* The expiry of a session frees its slot, its link and its index.
LEMMA AgeStep ==
    ASSUME Inv, NEW s \in Slots, Age(s) PROVE Inv' /\ PinnedStep
<1> DEFINE Aged == [table.slot[s] EXCEPT !.old = TRUE]
<1>1. /\ OccupantOK /\ TableOK(table) /\ table.crossed = {}
      /\ table.slot \in [Slots -> SlotType] /\ table.link \in [PeerIdx -> LinkType]
  BY InvTable, TableParts, Zenon DEF TableOK
<1>2. /\ table' = [slot |-> [table.slot EXCEPT ![s] = Aged], link |-> table.link,
                   byIndex |-> table.byIndex, crossed |-> table.crossed]
      /\ UNCHANGED <<occupant, parked>>
  BY Zenon DEF Age
<1>3. /\ Aged \in SlotType
      /\ Aged.state = table.slot[s].state /\ Aged.peer = table.slot[s].peer
      /\ Aged.index = table.slot[s].index /\ Aged.key = table.slot[s].key
      /\ Aged.confirmed = table.slot[s].confirmed
  <2>1. PICK x \in SlotType : x = table.slot[s]
    BY <1>1, Zenon
  <2>2. /\ [x EXCEPT !.old = TRUE] \in SlotType
        /\ [x EXCEPT !.old = TRUE].state = x.state /\ [x EXCEPT !.old = TRUE].peer = x.peer
        /\ [x EXCEPT !.old = TRUE].index = x.index /\ [x EXCEPT !.old = TRUE].key = x.key
        /\ [x EXCEPT !.old = TRUE].confirmed = x.confirmed
    BY Zenon DEF SlotType
  <2> QED BY <2>1, <2>2, Zenon
<1> HIDE DEF Aged
<1>4. /\ table'.slot = [table.slot EXCEPT ![s] = Aged] /\ table'.link = table.link
      /\ table'.byIndex = table.byIndex /\ table'.crossed = table.crossed
  BY <1>2, Zenon
<1>5. \A r \in Slots :
        /\ table'.slot[r].state = table.slot[r].state
        /\ table'.slot[r].peer = table.slot[r].peer
        /\ table'.slot[r].index = table.slot[r].index
        /\ table'.slot[r].key = table.slot[r].key
        /\ table'.slot[r].confirmed = table.slot[r].confirmed
  BY <1>1, <1>3, <1>4, Zenon
<1>6. table' \in TableType
  <2>1. [table.slot EXCEPT ![s] = Aged] \in [Slots -> SlotType]
    BY <1>1, <1>3, Zenon
  <2> QED BY <1>1, <1>2, <2>1, TableParts, Zenon DEF TableOK, TableType
<1>7. AttemptsLinked(table') /\ SessionsLinked(table')
  BY <1>1, <1>4, <1>5 DEF TableOK, LinkedIn, AttemptsLinked, SessionsLinked
<1>8. GenerationsApart(table')
  BY <1>1, <1>4, <1>5 DEF TableOK, LinkedIn, GenerationsApart
<1>9. OwnersInstalled(table')
  BY <1>1, <1>5 DEF TableOK, LinkedIn, OwnersInstalled
<1>10. IndexedIn(table')
  BY <1>1, <1>4, <1>5 DEF TableOK, IndexedIn
<1>11. TableOK(table') /\ table'.crossed = {}
  BY <1>1, <1>4, <1>6, <1>7, <1>8, <1>9, <1>10, Zenon DEF TableOK, LinkedIn
<1>12. PinnedStep
  BY <1>4, Zenon DEF PinnedStep, Usable
<1> QED BY <1>2, <1>11, <1>12, PoolStep, Zenon

\* A key takes a free peer entry.
LEMMA InstallPeerStep ==
    ASSUME Inv, NEW p \in PeerIdx, NEW k \in Keys, InstallPeer(p, k)
    PROVE  Inv' /\ PinnedStep
<1>1. /\ occupant' = [occupant EXCEPT ![p] = k] /\ occupant[p] = None
      /\ table' = table /\ parked' = parked
  BY Zenon DEF InstallPeer, Installed
<1>2. occupant' \in [PeerIdx -> Keys \cup {None}] /\ k # None
  BY <1>1, NoneOutside, Zenon DEF Inv, TypeOK
<1>3. \A q \in PeerIdx : occupant[q] # None => occupant'[q] = occupant[q]
  BY <1>1, InvTable, Zenon DEF OccupantOK
<1>4. OwnersInstalled(table)'
  BY <1>1, <1>3, Zenon DEF Inv, Linked, LinkedIn, OwnersInstalled
<1>5. Linked'
  BY <1>1, <1>4 DEF Inv, Linked, LinkedIn, AttemptsLinked, SessionsLinked, GenerationsApart
<1>6. ParkedForOccupant'
  BY <1>1, <1>3, NoneOutside DEF Inv, TypeOK, ParkedForOccupant
<1>7. TypeOK' /\ IndexExact' /\ SealedForOwner'
  BY <1>1, <1>2, Zenon DEF Inv, TypeOK, IndexExact, IndexedIn, SealedForOwner
<1>8. PinnedStep
  BY <1>1, Zenon DEF PinnedStep, Usable
<1> QED BY <1>5, <1>6, <1>7, <1>8, Zenon DEF Inv

\* What is left of the table when a peer and its sessions are taken out.
LEMMA WithoutPeerParts ==
    ASSUME OccupantOK, NEW t, TableOK(t), NEW p \in PeerIdx
    PROVE  LET u == WithoutPeer(t, p, LinkedSlots(t.link[p]))
           IN  /\ u \in TableType /\ u.crossed = t.crossed
               /\ \A s \in Slots : u.slot[s] = IF t.slot[s].state # "Free" /\ t.slot[s].peer = p
                                            THEN FreeSlot ELSE t.slot[s]
               /\ \A q \in PeerIdx : u.link[q] = IF q = p THEN NoLinks ELSE t.link[q]
               /\ \A i \in Indices :
                    u.byIndex[i] = IF t.byIndex[i] \in LinkedSlots(t.link[p])
                                   THEN None ELSE t.byIndex[i]
<1> DEFINE own == LinkedSlots(t.link[p])
           u == WithoutPeer(t, p, own)
<1>1. /\ t.slot \in [Slots -> SlotType] /\ t.link \in [PeerIdx -> LinkType]
      /\ t.byIndex \in [Indices -> Slots \cup {None}]
      /\ t.crossed \in SUBSET (Keys \X Keys)
  BY TableParts, Zenon DEF TableOK
<1>2. \A s \in Slots : s \in own <=> t.slot[s].state # "Free" /\ t.slot[s].peer = p
  <2> SUFFICES ASSUME NEW s \in Slots
               PROVE  s \in own <=> t.slot[s].state # "Free" /\ t.slot[s].peer = p
    BY Zenon
  <2>1. t.slot[s].state \in {"Free", "Initiating", "Established"}
    BY <1>1, Zenon DEF SlotType
  <2>2. t.link[p].handshake = s <=> t.slot[s].state = "Initiating" /\ t.slot[s].peer = p
    BY Zenon DEF TableOK, LinkedIn, AttemptsLinked
  <2>3. s \in {t.link[p].current, t.link[p].previous, t.link[p].next}
          <=> t.slot[s].state = "Established" /\ t.slot[s].peer = p
    BY Zenon DEF TableOK, LinkedIn, SessionsLinked
  <2>4. s # None
    BY NoneOutside, Zenon
  <2>5. s \in own <=> \/ s \in {t.link[p].current, t.link[p].previous, t.link[p].next}
                     \/ t.link[p].handshake = s
    BY <2>4, Zenon DEF LinkedSlots
  <2> HIDE DEF own
  <2> QED BY <2>1, <2>2, <2>3, <2>5, Zenon
<1> HIDE DEF own
<1>3. /\ u.slot = [s \in Slots |-> IF s \in own THEN FreeSlot ELSE t.slot[s]]
      /\ u.link = [t.link EXCEPT ![p] = NoLinks]
      /\ u.byIndex = [i \in Indices |-> IF t.byIndex[i] \in own THEN None ELSE t.byIndex[i]]
      /\ u.crossed = t.crossed
  BY Zenon DEF WithoutPeer
<1>4. u \in TableType
  <2>1. [s \in Slots |-> IF s \in own THEN FreeSlot ELSE t.slot[s]] \in [Slots -> SlotType]
    BY <1>1, FreeSlotType, Zenon
  <2>2. NoLinks \in LinkType
    BY Zenon DEF NoLinks, LinkType
  <2>3. [t.link EXCEPT ![p] = NoLinks] \in [PeerIdx -> LinkType]
    BY <1>1, <2>2, Zenon
  <2>4. [i \in Indices |-> IF t.byIndex[i] \in own THEN None ELSE t.byIndex[i]]
          \in [Indices -> Slots \cup {None}]
    BY <1>1, Zenon
  <2> QED BY <1>1, <2>1, <2>3, <2>4, Zenon DEF WithoutPeer, TableType
<1> HIDE DEF u
<1>5. \A s \in Slots : u.slot[s] = IF t.slot[s].state # "Free" /\ t.slot[s].peer = p
                                THEN FreeSlot ELSE t.slot[s]
  BY <1>2, <1>3, Zenon
<1>6. \A q \in PeerIdx : u.link[q] = IF q = p THEN NoLinks ELSE t.link[q]
  BY <1>1, <1>3, Zenon
<1>7. \A i \in Indices : u.byIndex[i] = IF t.byIndex[i] \in own THEN None ELSE t.byIndex[i]
  BY <1>3, Zenon
<1> QED BY <1>3, <1>4, <1>5, <1>6, <1>7, Zenon DEF u, own

\* Evicting a peer takes its sessions and parked packets with it.
LEMMA EvictPeerStep ==
    ASSUME Inv, NEW p \in PeerIdx, EvictPeer(p) PROVE Inv' /\ PinnedStep
<1>1. /\ OccupantOK /\ TableOK(table) /\ table.crossed = {} /\ occupant[p] \notin Pinned
      /\ table' = WithoutPeer(table, p, LinkedSlots(table.link[p]))
      /\ occupant' = [occupant EXCEPT ![p] = None]
      /\ parked' = {w \in parked : w[1] # p}
  BY InvTable, Zenon DEF EvictPeer
<1>2. /\ table' \in TableType /\ table'.crossed = {}
      /\ \A s \in Slots :
           table'.slot[s] = IF table.slot[s].state # "Free" /\ table.slot[s].peer = p
                            THEN FreeSlot ELSE table.slot[s]
      /\ \A q \in PeerIdx : table'.link[q] = IF q = p THEN NoLinks ELSE table.link[q]
      /\ \A i \in Indices :
           table'.byIndex[i] = IF table.byIndex[i] \in LinkedSlots(table.link[p])
                               THEN None ELSE table.byIndex[i]
  BY <1>1, WithoutPeerParts
<1>3. FreeSlot.state = "Free" /\ \A s \in Slots : s # None
  BY NoneOutside, Zenon DEF FreeSlot
<1>4. /\ AttemptsLinked(table) /\ SessionsLinked(table) /\ GenerationsApart(table)
      /\ OwnersInstalled(table) /\ IndexedIn(table)
  BY <1>1, Zenon DEF TableOK, LinkedIn
<1>5. AttemptsLinked(table)'
  BY <1>2, <1>3, <1>4 DEF AttemptsLinked, NoLinks
<1>6. SessionsLinked(table)'
  <2> SUFFICES ASSUME NEW q \in PeerIdx, NEW s \in Slots
               PROVE  s \in {table'.link[q].current, table'.link[q].previous, table'.link[q].next}
                        <=> table'.slot[s].state = "Established" /\ table'.slot[s].peer = q
    BY Zenon DEF SessionsLinked
  <2>1. CASE q = p
    <3>1. s \notin {table'.link[q].current, table'.link[q].previous, table'.link[q].next}
      BY <1>2, <1>3, <2>1 DEF NoLinks
    <3>2. ~(table'.slot[s].state = "Established" /\ table'.slot[s].peer = q)
      BY <1>2, <1>3, <2>1, Zenon
    <3> QED BY <3>1, <3>2, Zenon
  <2>2. CASE q # p
    <3>1. table'.link[q] = table.link[q]
      BY <1>2, <2>2, Zenon
    <3>2. table'.slot[s].state = "Established" /\ table'.slot[s].peer = q
            <=> table.slot[s].state = "Established" /\ table.slot[s].peer = q
      BY <1>2, <1>3, <2>2, Zenon
    <3> QED BY <1>4, <3>1, <3>2, Zenon DEF SessionsLinked
  <2> QED BY <2>1, <2>2, Zenon
<1>7. GenerationsApart(table)'
  <2> SUFFICES ASSUME NEW q \in PeerIdx, NEW s \in Slots
               PROVE  /\ table'.link[q].next = s => ~table'.slot[s].confirmed
                      /\ s \in {table'.link[q].current, table'.link[q].previous} =>
                           table'.slot[s].confirmed
                      /\ table'.link[q].current = s => table'.link[q].previous # s
    BY Zenon DEF GenerationsApart
  <2>1. CASE q = p
    BY <1>2, <1>3, <2>1 DEF NoLinks
  <2>2. CASE q # p
    <3>1. table'.link[q] = table.link[q]
      BY <1>2, <2>2, Zenon
    <3>2. s \in {table.link[q].current, table.link[q].previous, table.link[q].next} =>
            table'.slot[s] = table.slot[s]
      BY <1>2, <1>4, <2>2 DEF SessionsLinked
    <3> QED BY <1>4, <3>1, <3>2, Zenon DEF GenerationsApart
  <2> QED BY <2>1, <2>2, Zenon
<1>8. OwnersInstalled(table)'
  <2> SUFFICES ASSUME NEW s \in Slots, table'.slot[s].state # "Free"
               PROVE  /\ table'.slot[s].peer \in PeerIdx /\ table'.slot[s].key # None
                      /\ occupant'[table'.slot[s].peer] = table'.slot[s].key
    BY Zenon DEF OwnersInstalled
  <2>1. table'.slot[s] = table.slot[s] /\ table.slot[s].peer # p
    BY <1>2, <1>3, Zenon
  <2>2. /\ table.slot[s].peer \in PeerIdx /\ table.slot[s].key # None
        /\ occupant[table.slot[s].peer] = table.slot[s].key
    BY <1>4, <2>1, Zenon DEF OwnersInstalled
  <2>3. \A q \in PeerIdx : q # p => occupant'[q] = occupant[q]
    BY <1>1, Zenon DEF OccupantOK
  <2> QED BY <2>1, <2>2, <2>3, Zenon
<1>9. IndexedIn(table)'
  <2>1. \A s \in Slots : s \in LinkedSlots(table.link[p])
          <=> table.slot[s].state # "Free" /\ table.slot[s].peer = p
    <3> SUFFICES ASSUME NEW s \in Slots
                 PROVE  s \in LinkedSlots(table.link[p])
                          <=> table.slot[s].state # "Free" /\ table.slot[s].peer = p
      BY Zenon
    <3>1. table.slot[s].state \in {"Free", "Initiating", "Established"}
      BY <1>1, TableParts, Zenon DEF TableOK, SlotType
    <3>2. s \in LinkedSlots(table.link[p])
            <=> \/ s \in {table.link[p].current, table.link[p].previous, table.link[p].next}
                \/ table.link[p].handshake = s
      BY <1>3, Zenon DEF LinkedSlots
    <3> QED BY <1>4, <3>1, <3>2 DEF AttemptsLinked, SessionsLinked
  <2> SUFFICES ASSUME NEW s \in Slots
               PROVE  /\ table'.slot[s].state # "Free" => table'.slot[s].index \in Indices
                      /\ \A i \in Indices : table'.byIndex[i] = s
                           <=> table'.slot[s].state # "Free" /\ table'.slot[s].index = i
    BY Zenon DEF IndexedIn
  <2>2. CASE table.slot[s].state # "Free" /\ table.slot[s].peer = p
    BY <1>2, <1>3, <2>1, <2>2
  <2>3. CASE ~(table.slot[s].state # "Free" /\ table.slot[s].peer = p)
    BY <1>2, <1>3, <1>4, <2>1, <2>3 DEF IndexedIn
  <2> QED BY <2>2, <2>3, Zenon
<1>10. Linked' /\ IndexExact'
  BY <1>5, <1>6, <1>7, <1>8, <1>9, Zenon DEF Linked, IndexExact, LinkedIn
<1>11. TypeOK' /\ SealedForOwner' /\ ParkedForOccupant'
  BY <1>1, <1>2, Zenon DEF Inv, TypeOK, SealedForOwner, ParkedForOccupant, OccupantOK
<1>12. PinnedStep
  <2> SUFFICES ASSUME NEW q \in PeerIdx, occupant[q] \in Pinned, Usable(table, q)
               PROVE  table'.link[q].current # None
    BY Zenon DEF PinnedStep
  <2>1. q # p
    BY <1>1, Zenon
  <2> QED BY <1>2, <2>1, Zenon DEF Usable
<1> QED BY <1>10, <1>11, <1>12, Zenon DEF Inv

-------------------------------------------------------------------------------
\* At the start the pool is empty.
LEMMA InitInv == Init => Inv
<1> SUFFICES ASSUME Init PROVE Inv
  BY Zenon
<1> DEFINE slots == [s \in Slots |-> FreeSlot]
           links == [p \in PeerIdx |-> NoLinks]
           index == [i \in Indices |-> None]
<1>1. table = [slot |-> slots, link |-> links, byIndex |-> index, crossed |-> {}]
  BY Zenon DEF Init
<1>2. slots \in [Slots -> SlotType] /\ \A s \in Slots : slots[s] = FreeSlot
  BY FreeSlotType, Zenon
<1>3. links \in [PeerIdx -> LinkType] /\ \A p \in PeerIdx : links[p] = NoLinks
  BY Zenon DEF NoLinks, LinkType
<1>4. index \in [Indices -> Slots \cup {None}] /\ \A i \in Indices : index[i] = None
  BY Zenon
<1> HIDE DEF slots, links, index
<1>5. table.slot = slots /\ table.link = links /\ table.byIndex = index /\ table.crossed = {}
  BY <1>1, Zenon
<1>6. table \in TableType
  BY <1>1, <1>2, <1>3, <1>4, Zenon DEF TableType
<1>7. TypeOK
  BY <1>6, PinnedAssumption, Zenon DEF Init, TypeOK
<1>8. FreeSlot.state = "Free" /\ \A s \in Slots : s # None
  BY NoneOutside, Zenon DEF FreeSlot
<1>9. Linked
  BY <1>2, <1>3, <1>5, <1>8
     DEF Linked, LinkedIn, AttemptsLinked, SessionsLinked, GenerationsApart, OwnersInstalled, NoLinks
<1>10. IndexExact
  BY <1>2, <1>4, <1>5, <1>8, Zenon DEF IndexExact, IndexedIn
<1>11. SealedForOwner /\ ParkedForOccupant
  BY <1>5, Zenon DEF Init, SealedForOwner, ParkedForOccupant
<1> QED BY <1>7, <1>9, <1>10, <1>11, Zenon DEF Inv

\* Every step keeps the invariant and the sessions of pinned peers.
LEMMA NextInv == Inv /\ [Next]_vars => Inv' /\ (PinnedStep \/ UNCHANGED vars)
<1> SUFFICES ASSUME Inv, [Next]_vars PROVE Inv' /\ (PinnedStep \/ UNCHANGED vars)
  BY Zenon
<1>1. ASSUME NEW p \in PeerIdx, SendInner(p) PROVE Inv' /\ PinnedStep
  BY <1>1, SendInnerStep, Zenon
<1>2. ASSUME NEW p \in PeerIdx, PeerTimer(p) PROVE Inv' /\ PinnedStep
  BY <1>2, PeerTimerStep, Zenon
<1>3. ASSUME NEW p \in PeerIdx, RespondToInitiation(p) PROVE Inv' /\ PinnedStep
  BY <1>3, RespondStep, Zenon
<1>4. ASSUME NEW p \in PeerIdx, EvictPeer(p) PROVE Inv' /\ PinnedStep
  BY <1>4, EvictPeerStep, Zenon
<1>5. ASSUME NEW p \in PeerIdx, NEW k \in Keys, InstallPeer(p, k) PROVE Inv' /\ PinnedStep
  BY <1>5, InstallPeerStep, Zenon
<1>6. ASSUME NEW s \in Slots, RxResponse(s) PROVE Inv' /\ PinnedStep
  BY <1>6, RxResponseStep, Zenon
<1>7. ASSUME NEW s \in Slots, Confirm(s) PROVE Inv' /\ PinnedStep
  BY <1>7, ConfirmStep, Zenon
<1>8. ASSUME NEW s \in Slots, HandshakeExpires(s) PROVE Inv' /\ PinnedStep
  BY <1>8, FreeStep, Zenon DEF HandshakeExpires
<1>9. ASSUME NEW s \in Slots, Retransmit(s) PROVE Inv' /\ PinnedStep
  BY <1>9, RetransmitStep, Zenon
<1>10. ASSUME NEW s \in Slots, SessionExpires(s) PROVE Inv' /\ PinnedStep
  BY <1>10, FreeStep, Zenon DEF SessionExpires
<1>11. ASSUME NEW s \in Slots, Age(s) PROVE Inv' /\ PinnedStep
  BY <1>11, AgeStep, Zenon
<1>12. CASE DropParked
  <2>1. parked' \subseteq parked /\ UNCHANGED <<table, occupant>>
    BY <1>12, Zenon DEF DropParked
  <2>2. PinnedStep
    BY <2>1, Zenon DEF PinnedStep, Usable
  <2> QED BY <2>1, <2>2, InvTable, PoolStep, Zenon
<1>13. CASE UNCHANGED vars
  BY <1>13, InvTable, PoolStep, Zenon DEF vars
<1> QED
  BY <1>1, <1>2, <1>3, <1>4, <1>5, <1>6, <1>7, <1>8, <1>9, <1>10, <1>11, <1>12, <1>13, Zenon DEF Next

\* The inductive invariant holds always.
LEMMA InvHolds == Spec => []Inv
BY InitInv, NextInv, PTL DEF Spec

(* For every number of slots, peers and receiver indices, and every choice of *)
(* pinned keys and relays, the pool never holds anything but slots, links and *)
(* indices of the kinds the code indexes its arrays with.                     *)
THEOREM SpecTypeOK == Spec => []TypeOK
BY InvHolds, PTL DEF Inv

(* free_slot, evict_peer and the receive path find slots, generation links    *)
(* and receiver indices in agreement in every reachable state.                *)
THEOREM SpecTablesAgree == Spec => []TablesAgree
BY InvHolds, PTL DEF Inv, TablesAgree

(* encrypt_and_send never seals a packet under another peer's session, even   *)
(* though it trusts a slot number looked up before relay handshakes may have  *)
(* evicted and reused the slot; and a packet parked for a handshake waits for *)
(* the peer it was routed to, over any evictions and installs of its entry.   *)
THEOREM SpecRightPeer == Spec => []RightPeer
BY InvHolds, PTL DEF Inv, RightPeer

(* alloc_slot never takes the live current session of a pinned peer, in any   *)
(* handler and at any depth of relay handshakes.                              *)
THEOREM SpecPinnedKept == Spec => PinnedKept
<1>1. Inv /\ [Next]_vars =>
        [\A p \in PeerIdx : (occupant[p] \in Pinned /\ Usable(table, p)) =>
           table'.link[p].current # None]_vars
  BY NextInv, Zenon DEF PinnedStep
<1> QED BY InvHolds, <1>1, PTL DEF Spec, PinnedKept
===============================================================================
