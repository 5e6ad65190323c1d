--------------------------- MODULE Resolver_proofs ----------------------------
(* Lookups of the engine, for any keys, addresses and limits, whatever is    *)
(* asked, answered late or twice, or evicted. The invariant: entries are     *)
(* told apart by identifier and by question, nothing is parked without its   *)
(* lookup, the tables keep their bounds and a reserve for authenticated      *)
(* installs.                                                                 *)
EXTENDS Resolver, FiniteSetTheorems, TLAPS

-------------------------------------------------------------------------------

\* An entry: a marker has no identifier and nothing to emit, a lookup has one and
\* asks for an address or for a key, as its kind says.
EntryOK(r) ==
    /\ r.kind = "Negative" => r.id = None /\ r.emitted
    /\ r.kind # "Negative" => r.id \in Ids
    /\ r.kind = "Outbound" => \E a \in Addrs : r.query = ByAddr(a)
    /\ r.kind \in {"InstallAuth", "InstallRelay", "Reconcile"} => \E k \in Keys : r.query = ByKey(k)

\* Two entries that are not told apart: by identifier, by the question a lookup
\* asks, or by an address, are one.
SameEntry(r, s) ==
    \/ r.id = s.id /\ r.id # None
    \/ r.query = s.query /\ r.kind # "Negative" /\ s.kind # "Negative"
    \/ r.query = s.query /\ \E a \in Addrs : r.query = ByAddr(a)

ResolvesOK(R) ==
    /\ R \subseteq EntryType /\ IsFiniteSet(R) /\ Cardinality(R) <= MaxInflight
    /\ \A r \in R : EntryOK(r)
    /\ \A r, s \in R : SameEntry(r, s) => r = s

ParkedOK(R, waiting, initiations) ==
    /\ \A id \in waiting : \E r \in R : r.id = id /\ r.kind = "Outbound"
    /\ \A p \in initiations : \A r \in R :
         r.id = p.id => r.kind = "InstallAuth" /\ r.query = ByKey(p.key)
    /\ IsFiniteSet(initiations) /\ Cardinality(initiations) <= MaxInitiations

HeldIn(peers) == {k \in Keys : peers[k] # None}
PeersOK(peers, ghosts) ==
    /\ IsFiniteSet(HeldIn(peers)) /\ Cardinality(HeldIn(peers)) <= MaxPeers
    /\ ghosts \cap HeldIn(peers) = {}

Backlog(reconciles) == {k \in Keys : reconciles[k] # "none"}
BacklogOK(reconciles) ==
    IsFiniteSet(Backlog(reconciles)) /\ Cardinality(Backlog(reconciles)) <= MaxPeers

CoreOK(c) ==
    /\ c \in CoreType
    /\ ResolvesOK(c.resolves)
    /\ ParkedOK(c.resolves, c.waiting, c.initiations)
    /\ PeersOK(c.peers, c.ghosts)
    /\ BacklogOK(c.reconciles)

ResolverInv == CoreOK(core) /\ requests \subseteq [id : Ids, query : Queries]

-------------------------------------------------------------------------------
(* The resolve table as a set.                                               *)

\* Entries taken out.
LEMMA FewerResolves ==
    ASSUME NEW R, ResolvesOK(R), NEW Q, Q \subseteq R
    PROVE  ResolvesOK(Q)
<1>1. IsFiniteSet(Q) /\ Cardinality(Q) <= Cardinality(R)
  BY FS_Subset, Zenon DEF ResolvesOK
<1>2. Cardinality(Q) \in Nat /\ Cardinality(R) \in Nat /\ MaxInflight \in Nat
  BY <1>1, FS_CardinalityType, BoundsAssumption, Zenon DEF ResolvesOK
<1>3. Cardinality(Q) <= MaxInflight
  BY <1>1, <1>2 DEF ResolvesOK
<1> QED BY <1>1, <1>3, Zenon DEF ResolvesOK

\* An entry put in where there is room.
LEMMA OneMoreResolve ==
    ASSUME NEW R, ResolvesOK(R), Cardinality(R) < MaxInflight,
           NEW e \in EntryType, EntryOK(e), \A s \in R : ~SameEntry(e, s) /\ ~SameEntry(s, e)
    PROVE  ResolvesOK(R \cup {e})
<1>1. IsFiniteSet(R) /\ R \subseteq EntryType
  BY Zenon DEF ResolvesOK
<1>2. IsFiniteSet(R \cup {e}) /\ Cardinality(R \cup {e}) <= Cardinality(R) + 1
  <2>1. CASE e \in R
    <3>1. R \cup {e} = R
      BY <2>1, Zenon
    <3>2. Cardinality(R) \in Nat
      BY <1>1, FS_CardinalityType, Zenon
    <3>3. Cardinality(R) <= Cardinality(R) + 1
      BY <3>2
    <3> QED BY <1>1, <3>1, <3>3, Zenon
  <2>2. CASE e \notin R
    <3>1. IsFiniteSet(R \cup {e}) /\ Cardinality(R \cup {e}) = Cardinality(R) + 1
      BY <1>1, <2>2, FS_AddElement, Zenon
    <3>2. Cardinality(R) \in Nat
      BY <1>1, FS_CardinalityType, Zenon
    <3> QED BY <3>1, <3>2
  <2> QED BY <2>1, <2>2, Zenon
<1>3. Cardinality(R) \in Nat /\ Cardinality(R \cup {e}) \in Nat /\ MaxInflight \in Nat
  BY <1>1, <1>2, FS_CardinalityType, BoundsAssumption, Zenon
<1>4. Cardinality(R \cup {e}) <= MaxInflight
  BY <1>2, <1>3
<1>5. \A r, s \in R \cup {e} : SameEntry(r, s) => r = s
  BY Zenon DEF ResolvesOK
<1> QED BY <1>1, <1>2, <1>4, <1>5, Zenon DEF ResolvesOK

\* Taking out an entry makes room.
LEMMA RoomFor ==
    ASSUME NEW R, ResolvesOK(R), NEW n \in R
    PROVE  ResolvesOK(R \ {n}) /\ Cardinality(R \ {n}) < MaxInflight
<1>1. IsFiniteSet(R) /\ Cardinality(R) \in Nat /\ Cardinality(R) <= MaxInflight
  BY FS_CardinalityType, Zenon DEF ResolvesOK
<1>2. IsFiniteSet(R \ {n}) /\ Cardinality(R \ {n}) = Cardinality(R) - 1
  BY <1>1, FS_RemoveElement, Zenon
<1>3. MaxInflight \in Nat
  BY BoundsAssumption, Zenon
<1>4. ResolvesOK(R \ {n})
  BY FewerResolves, Zenon
<1> QED BY <1>1, <1>2, <1>3, <1>4

\* What an entry is does not depend on its flags.
LEMMA FlagsOnly ==
    ASSUME NEW r \in EntryType, EntryOK(r)
    PROVE  /\ [r EXCEPT !.emitted = TRUE] \in EntryType /\ EntryOK([r EXCEPT !.emitted = TRUE])
           /\ [r EXCEPT !.emitted = TRUE].id = r.id /\ [r EXCEPT !.emitted = TRUE].query = r.query
           /\ [r EXCEPT !.emitted = TRUE].kind = r.kind
           /\ [r EXCEPT !.due = TRUE] \in EntryType /\ EntryOK([r EXCEPT !.due = TRUE])
           /\ [r EXCEPT !.due = TRUE].id = r.id /\ [r EXCEPT !.due = TRUE].query = r.query
           /\ [r EXCEPT !.due = TRUE].kind = r.kind
<1>1. /\ [r EXCEPT !.emitted = TRUE] \in EntryType
      /\ [r EXCEPT !.emitted = TRUE].id = r.id /\ [r EXCEPT !.emitted = TRUE].query = r.query
      /\ [r EXCEPT !.emitted = TRUE].kind = r.kind /\ [r EXCEPT !.emitted = TRUE].emitted
  BY Zenon DEF EntryType
<1>2. /\ [r EXCEPT !.due = TRUE] \in EntryType
      /\ [r EXCEPT !.due = TRUE].id = r.id /\ [r EXCEPT !.due = TRUE].query = r.query
      /\ [r EXCEPT !.due = TRUE].kind = r.kind /\ [r EXCEPT !.due = TRUE].emitted = r.emitted
  BY Zenon DEF EntryType
<1>3. EntryOK([r EXCEPT !.emitted = TRUE])
  BY <1>1, Zenon DEF EntryOK
<1>4. EntryOK([r EXCEPT !.due = TRUE])
  BY <1>2, Zenon DEF EntryOK
<1> QED BY <1>1, <1>2, <1>3, <1>4, Zenon

Emitted(R) == {[r EXCEPT !.emitted = TRUE] : r \in R}

\* Every request is emitted.
LEMMA AllEmitted ==
    ASSUME NEW R, ResolvesOK(R), NEW Q, Q = Emitted(R)
    PROVE  /\ ResolvesOK(Q)
           /\ \A q \in Q : \E r \in R : q.id = r.id /\ q.query = r.query /\ q.kind = r.kind
           /\ \A r \in R : \E q \in Q : q.id = r.id /\ q.query = r.query /\ q.kind = r.kind
<1>1. IsFiniteSet(R) /\ R \subseteq EntryType /\ Cardinality(R) \in Nat
  BY FS_CardinalityType, Zenon DEF ResolvesOK
<1> DEFINE f == [r \in R |-> [r EXCEPT !.emitted = TRUE]]
<1>2. f \in Surjection(R, Q)
  BY Zenon DEF Surjection, Emitted
<1>3. IsFiniteSet(Q) /\ Cardinality(Q) <= Cardinality(R)
  BY <1>1, <1>2, FS_Surjection, Zenon
<1>4. \A r \in R : /\ [r EXCEPT !.emitted = TRUE] \in EntryType /\ EntryOK([r EXCEPT !.emitted = TRUE])
                    /\ [r EXCEPT !.emitted = TRUE].id = r.id /\ [r EXCEPT !.emitted = TRUE].query = r.query
                    /\ [r EXCEPT !.emitted = TRUE].kind = r.kind
  BY <1>1, FlagsOnly, Zenon DEF ResolvesOK
<1>5. ASSUME NEW q \in Q
      PROVE  q \in EntryType /\ EntryOK(q) /\ \E r \in R : q = [r EXCEPT !.emitted = TRUE] /\ q.id = r.id /\ q.query = r.query /\ q.kind = r.kind
  BY <1>4, Zenon DEF Emitted
<1>6. ASSUME NEW r \in R
      PROVE  \E q \in Q : q.id = r.id /\ q.query = r.query /\ q.kind = r.kind
  BY <1>4, Zenon DEF Emitted
<1>7. ASSUME NEW q \in Q, NEW p \in Q, SameEntry(q, p) PROVE q = p
  <2>1. PICK r \in R : q = [r EXCEPT !.emitted = TRUE] /\ q.id = r.id /\ q.query = r.query /\ q.kind = r.kind
    BY <1>5, Zenon
  <2>2. PICK s \in R : p = [s EXCEPT !.emitted = TRUE] /\ p.id = s.id /\ p.query = s.query /\ p.kind = s.kind
    BY <1>5, Zenon
  <2>3. SameEntry(r, s)
    BY <1>7, <2>1, <2>2, Zenon DEF SameEntry
  <2>4. r = s
    BY <2>3, Zenon DEF ResolvesOK
  <2> QED BY <2>1, <2>2, <2>4, Zenon
<1>8. Cardinality(Q) <= MaxInflight
  <2>1. Cardinality(Q) \in Nat /\ MaxInflight \in Nat /\ Cardinality(R) <= MaxInflight
    BY <1>3, FS_CardinalityType, BoundsAssumption, Zenon DEF ResolvesOK
  <2> QED BY <1>1, <1>3, <2>1
<1>9. ResolvesOK(Q)
  BY <1>3, <1>5, <1>7, <1>8, Zenon DEF ResolvesOK
<1> QED BY <1>5, <1>6, <1>9, Zenon

-------------------------------------------------------------------------------
(* One field of the tables at a time.                                        *)

\* A state of the engine with other lookups.
LEMMA SetResolves ==
    ASSUME NEW c \in CoreType, NEW R \in SUBSET EntryType, NEW d, d = [c EXCEPT !.resolves = R]
    PROVE  /\ d \in CoreType /\ d.resolves = R
           /\ d.peers = c.peers /\ d.waiting = c.waiting /\ d.initiations = c.initiations
           /\ d.reconciles = c.reconciles /\ d.ghosts = c.ghosts
BY Zenon DEF CoreType

\* A state of the engine with other parked packets.
LEMMA SetWaiting ==
    ASSUME NEW c \in CoreType, NEW W \in SUBSET Ids, NEW d, d = [c EXCEPT !.waiting = W]
    PROVE  /\ d \in CoreType /\ d.waiting = W
           /\ d.peers = c.peers /\ d.resolves = c.resolves /\ d.initiations = c.initiations
           /\ d.reconciles = c.reconciles /\ d.ghosts = c.ghosts
BY Zenon DEF CoreType

\* A state of the engine with other parked initiations.
LEMMA SetInitiations ==
    ASSUME NEW c \in CoreType, NEW I \in SUBSET [id : Ids, key : Keys], NEW d, d = [c EXCEPT !.initiations = I]
    PROVE  /\ d \in CoreType /\ d.initiations = I
           /\ d.peers = c.peers /\ d.resolves = c.resolves /\ d.waiting = c.waiting
           /\ d.reconciles = c.reconciles /\ d.ghosts = c.ghosts
BY Zenon DEF CoreType

\* A state of the engine with another backlog.
LEMMA SetReconciles ==
    ASSUME NEW c \in CoreType, NEW Q \in [Keys -> {"none", "waiting", "due"}],
           NEW d, d = [c EXCEPT !.reconciles = Q]
    PROVE  /\ d \in CoreType /\ d.reconciles = Q
           /\ d.peers = c.peers /\ d.resolves = c.resolves /\ d.waiting = c.waiting
           /\ d.initiations = c.initiations /\ d.ghosts = c.ghosts
BY Zenon DEF CoreType

WithPeers(c, P, G) == [c EXCEPT !.peers = P, !.ghosts = G]

\* A state of the engine with other peers.
LEMMA SetPeers ==
    ASSUME NEW c \in CoreType, NEW P \in [Keys -> Addrs \cup {None}], NEW G \in SUBSET Keys,
           NEW d, d = WithPeers(c, P, G)
    PROVE  /\ d \in CoreType /\ d.peers = P /\ d.ghosts = G
           /\ d.resolves = c.resolves /\ d.waiting = c.waiting
           /\ d.initiations = c.initiations /\ d.reconciles = c.reconciles
BY Zenon DEF CoreType, WithPeers

\* Only the resolve table changes.
LEMMA ResolvesChange ==
    ASSUME NEW c, CoreOK(c), NEW R, ResolvesOK(R), ParkedOK(R, c.waiting, c.initiations),
           NEW d, d = [c EXCEPT !.resolves = R]
    PROVE  CoreOK(d) /\ d.resolves = R /\ d.waiting = c.waiting /\ d.initiations = c.initiations
           /\ d.peers = c.peers /\ d.ghosts = c.ghosts /\ d.reconciles = c.reconciles
<1>1. c \in CoreType /\ R \in SUBSET EntryType
  BY Zenon DEF CoreOK, ResolvesOK
<1>2. /\ d \in CoreType /\ d.resolves = R
      /\ d.peers = c.peers /\ d.waiting = c.waiting /\ d.initiations = c.initiations
      /\ d.reconciles = c.reconciles /\ d.ghosts = c.ghosts
  BY <1>1, SetResolves
<1> QED BY <1>2, Zenon DEF CoreOK

\* Taking out entries nothing waits for.
LEMMA DropResolves ==
    ASSUME NEW c, CoreOK(c), NEW R, R \subseteq c.resolves,
           \A r \in c.resolves \ R : r.kind = "Outbound" => r.id \notin c.waiting,
           NEW d, d = [c EXCEPT !.resolves = R]
    PROVE  CoreOK(d) /\ d.resolves = R /\ d.waiting = c.waiting /\ d.initiations = c.initiations
           /\ d.peers = c.peers /\ d.ghosts = c.ghosts /\ d.reconciles = c.reconciles
<1>1. ResolvesOK(R)
  BY FewerResolves, Zenon DEF CoreOK
<1>2. ParkedOK(R, c.waiting, c.initiations)
  BY DEF CoreOK, ParkedOK
<1> QED BY <1>1, <1>2, ResolvesChange

\* Fewer packets wait.
LEMMA FewerWaiting ==
    ASSUME NEW c, CoreOK(c), NEW id, NEW d, d = DropWaiting(c, id)
    PROVE  /\ CoreOK(d) /\ d.resolves = c.resolves /\ d.waiting = c.waiting \ {id}
           /\ d.initiations = c.initiations /\ d.peers = c.peers /\ d.ghosts = c.ghosts
<1>0. PICK W : W = c.waiting \ {id}
  BY Zenon
<1>1. c \in CoreType /\ W \in SUBSET Ids
  BY <1>0, Zenon DEF CoreOK, CoreType
<1>2. d = [c EXCEPT !.waiting = W]
  BY <1>0, <1>1, Zenon DEF DropWaiting, CoreType
<1>3. /\ d \in CoreType /\ d.waiting = W
      /\ d.peers = c.peers /\ d.resolves = c.resolves /\ d.initiations = c.initiations
      /\ d.reconciles = c.reconciles /\ d.ghosts = c.ghosts
  BY <1>1, <1>2, SetWaiting
<1>4. ParkedOK(d.resolves, d.waiting, d.initiations)
  BY <1>0, <1>3 DEF CoreOK, ParkedOK
<1> QED BY <1>0, <1>3, <1>4, Zenon DEF CoreOK

\* A packet is parked behind a by-address lookup.
LEMMA MoreWaiting ==
    ASSUME NEW c, CoreOK(c), NEW r \in c.resolves, r.kind = "Outbound",
           NEW d, d = [c EXCEPT !.waiting = c.waiting \cup {r.id}]
    PROVE  CoreOK(d) /\ d.peers = c.peers /\ d.resolves = c.resolves
<1>1. c \in CoreType /\ c.waiting \cup {r.id} \in SUBSET Ids
  BY Zenon DEF CoreOK, CoreType, ResolvesOK, EntryOK
<1>2. /\ d \in CoreType /\ d.waiting = c.waiting \cup {r.id}
      /\ d.peers = c.peers /\ d.resolves = c.resolves /\ d.initiations = c.initiations
      /\ d.reconciles = c.reconciles /\ d.ghosts = c.ghosts
  BY <1>1, SetWaiting
<1>3. ParkedOK(d.resolves, d.waiting, d.initiations)
  BY <1>2 DEF CoreOK, ParkedOK
<1> QED BY <1>2, <1>3, Zenon DEF CoreOK

\* Initiations released.
LEMMA FewerInitiations ==
    ASSUME NEW c, CoreOK(c), NEW I, I \subseteq c.initiations,
           NEW d, d = [c EXCEPT !.initiations = I]
    PROVE  /\ CoreOK(d) /\ d.resolves = c.resolves /\ d.waiting = c.waiting
           /\ d.peers = c.peers /\ d.ghosts = c.ghosts
<1>0. c \in CoreType
  BY Zenon DEF CoreOK
<1>a. c.initiations \in SUBSET [id : Ids, key : Keys]
  BY <1>0, Zenon DEF CoreType
<1>1. c \in CoreType /\ I \in SUBSET [id : Ids, key : Keys] /\ d = [c EXCEPT !.initiations = I]
  BY <1>0, <1>a, Zenon
<1>2. /\ d \in CoreType /\ d.initiations = I
      /\ d.peers = c.peers /\ d.resolves = c.resolves /\ d.waiting = c.waiting
      /\ d.reconciles = c.reconciles /\ d.ghosts = c.ghosts
  BY <1>1, SetInitiations
<1>3. IsFiniteSet(c.initiations) /\ Cardinality(c.initiations) <= MaxInitiations
  BY Zenon DEF CoreOK, ParkedOK
<1>4. IsFiniteSet(I) /\ Cardinality(I) <= Cardinality(c.initiations)
  BY <1>3, FS_Subset, Zenon
<1>5. Cardinality(I) <= MaxInitiations
  BY <1>3, <1>4, FS_CardinalityType, BoundsAssumption
<1>6. ParkedOK(d.resolves, d.waiting, d.initiations)
  BY <1>2, <1>4, <1>5 DEF CoreOK, ParkedOK
<1> QED BY <1>2, <1>6, Zenon DEF CoreOK

\* Park, behind a lookup of the initiator.
LEMMA ParkKeeps ==
    ASSUME NEW c, CoreOK(c), NEW k \in Keys, NEW r \in c.resolves, r.kind = "InstallAuth", r.query = ByKey(k),
           NEW d, d = Park(c, r.id, k)
    PROVE  CoreOK(d) /\ d.peers = c.peers /\ d.resolves = c.resolves
<1>1. CASE ~(Cardinality(c.initiations) < MaxInitiations)
  BY <1>1, Zenon DEF Park
<1>2. CASE Cardinality(c.initiations) < MaxInitiations
  <2>1. PICK p : p = [id |-> r.id, key |-> k]
    BY Zenon
  <2>2. r.id \in Ids /\ p \in [id : Ids, key : Keys] /\ p.id = r.id /\ p.key = k
    BY <2>1, Zenon DEF CoreOK, ResolvesOK, EntryOK
  <2>3. PICK I : I = c.initiations \cup {p}
    BY Zenon
  <2>4. c \in CoreType /\ I \in SUBSET [id : Ids, key : Keys] /\ d = [c EXCEPT !.initiations = I]
    BY <1>2, <2>1, <2>2, <2>3, Zenon DEF CoreOK, CoreType, Park
  <2>5. /\ d \in CoreType /\ d.initiations = I
        /\ d.peers = c.peers /\ d.resolves = c.resolves /\ d.waiting = c.waiting
        /\ d.reconciles = c.reconciles /\ d.ghosts = c.ghosts
    BY <2>4, SetInitiations
  <2>6. IsFiniteSet(c.initiations) /\ Cardinality(c.initiations) \in Nat
    BY FS_CardinalityType, Zenon DEF CoreOK, ParkedOK
  <2>7. IsFiniteSet(I) /\ Cardinality(I) <= MaxInitiations
    <3>1. CASE p \in c.initiations
      <4>1. I = c.initiations
        BY <2>3, <3>1, Zenon
      <4> QED BY <2>6, <4>1, Zenon DEF CoreOK, ParkedOK
    <3>2. CASE p \notin c.initiations
      <4>1. IsFiniteSet(I) /\ Cardinality(I) = Cardinality(c.initiations) + 1
        BY <2>3, <2>6, <3>2, FS_AddElement, Zenon
      <4> QED BY <1>2, <2>6, <4>1, BoundsAssumption
    <3> QED BY <3>1, <3>2, Zenon
  <2>8. \A s \in c.resolves : s.id = r.id => s = r
    BY <2>2, ResolverNoneAssumption, Zenon DEF CoreOK, ResolvesOK, SameEntry
  <2>9. \A q \in I : \A s \in c.resolves : s.id = q.id => s.kind = "InstallAuth" /\ s.query = ByKey(q.key)
    BY <2>2, <2>3, <2>8 DEF CoreOK, ParkedOK
  <2>10. ParkedOK(d.resolves, d.waiting, d.initiations)
    BY <2>5, <2>7, <2>9 DEF CoreOK, ParkedOK
  <2> QED BY <2>5, <2>10, Zenon DEF CoreOK
<1> QED BY <1>1, <1>2, Zenon

-------------------------------------------------------------------------------
(* The operations on the tables.                                             *)

Same(d, c) == d.waiting = c.waiting /\ d.initiations = c.initiations /\ d.peers = c.peers /\ d.ghosts = c.ghosts

\* A question nobody asks gets a lookup; what makes way for it is a marker.
LEMMA InsertLookup ==
    ASSUME NEW c, CoreOK(c), NEW R, R \subseteq c.resolves,
           \A r \in c.resolves \ R : r.kind = "Negative", Cardinality(R) < MaxInflight,
           NEW e \in EntryType, EntryOK(e), e.kind # "Negative",
           \A s \in c.resolves : s.id # e.id, \A p \in c.initiations : p.id # e.id,
           \A s \in R : ~SameEntry(e, s) /\ ~SameEntry(s, e),
           NEW d, d = [c EXCEPT !.resolves = R \cup {e}]
    PROVE  CoreOK(d) /\ d.resolves = R \cup {e} /\ Same(d, c)
<1>1. PICK Q : Q = R \cup {e}
  BY Zenon
<1>2. ResolvesOK(R)
  BY FewerResolves, Zenon DEF CoreOK
<1>3. ResolvesOK(Q)
  BY <1>1, <1>2, OneMoreResolve, Zenon
<1>4. \A id \in c.waiting : \E r \in Q : r.id = id /\ r.kind = "Outbound"
  BY <1>1 DEF CoreOK, ParkedOK
<1>5. ParkedOK(Q, c.waiting, c.initiations)
  BY <1>1, <1>4 DEF CoreOK, ParkedOK
<1>6. d = [c EXCEPT !.resolves = Q]
  BY <1>1, Zenon
<1> QED BY <1>1, <1>3, <1>5, <1>6, ResolvesChange DEF Same

\* push_resolve.
LEMMA PushedKeeps ==
    ASSUME NEW c, CoreOK(c), NEW e \in EntryType, EntryOK(e), e.kind # "Negative",
           \A s \in c.resolves : s.id # e.id, \A p \in c.initiations : p.id # e.id,
           \A s \in c.resolves : ~SameEntry(e, s) /\ ~SameEntry(s, e),
           NEW d \in Pushed(c, e)
    PROVE  CoreOK(d) /\ e \in d.resolves /\ Same(d, c)
<1>1. CASE Cardinality(c.resolves) < MaxInflight
  <2>1. d = [c EXCEPT !.resolves = c.resolves \cup {e}]
    BY <1>1, Zenon DEF Pushed
  <2>2. CoreOK(d) /\ d.resolves = c.resolves \cup {e} /\ Same(d, c)
    BY <1>1, <2>1, InsertLookup
  <2> QED BY <2>2, Zenon
<1>2. CASE ~(Cardinality(c.resolves) < MaxInflight)
  <2>1. PICK n \in c.resolves : n.kind = "Negative" /\ d = [c EXCEPT !.resolves = (c.resolves \ {n}) \cup {e}]
    BY <1>2, Zenon DEF Pushed
  <2>2. PICK R : R = c.resolves \ {n}
    BY Zenon
  <2>3. Cardinality(R) < MaxInflight
    BY <2>2, RoomFor, Zenon DEF CoreOK
  <2>4. CoreOK(d) /\ d.resolves = R \cup {e} /\ Same(d, c)
    BY <2>1, <2>2, <2>3, InsertLookup
  <2> QED BY <2>4, Zenon
<1> QED BY <1>1, <1>2, Zenon

\* A new lookup's entry.
LEMMA NewEntry ==
    ASSUME NEW id \in Ids, NEW q \in Queries, NEW kind \in LookupKinds,
           kind = "Outbound" => \E a \in Addrs : q = ByAddr(a),
           kind # "Outbound" => \E k \in Keys : q = ByKey(k),
           NEW e, e = Entry(id, q, kind)
    PROVE  /\ e \in EntryType /\ EntryOK(e) /\ e.kind = kind /\ e.kind # "Negative" /\ e.id = id /\ e.query = q
<1>1. /\ e = [id |-> id, query |-> q, kind |-> kind, due |-> FALSE, emitted |-> FALSE]
      /\ e.kind = kind /\ e.id = id /\ e.query = q
  BY Zenon DEF Entry
<1>2. e \in EntryType
  BY <1>1 DEF EntryType
<1> QED BY <1>1, <1>2, Zenon DEF EntryOK, LookupKinds

\* mark_negative.
LEMMA MarkNegativeKeeps ==
    ASSUME NEW c, CoreOK(c), NEW q \in Queries,
           \A r \in c.resolves : r.query = q /\ r.kind = "Outbound" => r.id \notin c.waiting,
           NEW d, d = MarkNegative(c, q)
    PROVE  CoreOK(d) /\ Same(d, c) /\ \A r \in c.resolves : r.query # q => r \in d.resolves
<1>1. PICK R : R = {r \in c.resolves : r.query # q}
  BY Zenon
<1>2. PICK e : e = [Entry(None, q, "Negative") EXCEPT !.emitted = TRUE]
  BY Zenon
<1>3. e = [id |-> None, query |-> q, kind |-> "Negative", due |-> FALSE, emitted |-> TRUE]
  BY <1>2, Zenon DEF Entry
<1>4. e \in EntryType /\ e.id = None /\ e.query = q /\ e.kind = "Negative" /\ e.emitted
  BY <1>3, Zenon DEF EntryType
<1>5. EntryOK(e)
  BY <1>4, Zenon DEF EntryOK
<1>6. ResolvesOK(R)
  BY <1>1, FewerResolves, Zenon DEF CoreOK
<1>7. CASE Cardinality(R) < MaxInflight
  <2>1. d = [c EXCEPT !.resolves = R \cup {e}]
    BY <1>1, <1>2, <1>7, Zenon DEF MarkNegative
  <2>2. PICK Q : Q = R \cup {e}
    BY Zenon
  <2>3. ResolvesOK(Q)
    <3>1. \A s \in R : ~SameEntry(e, s) /\ ~SameEntry(s, e)
      BY <1>1, <1>4, Zenon DEF SameEntry
    <3> QED BY <1>4, <1>5, <1>6, <1>7, <2>2, <3>1, OneMoreResolve, Zenon
  <2>4. \A id \in c.waiting : \E r \in Q : r.id = id /\ r.kind = "Outbound"
    BY <1>1, <2>2 DEF CoreOK, ParkedOK
  <2>5. \A p \in c.initiations : p.id # None
    BY ResolverNoneAssumption, Zenon DEF CoreOK, CoreType
  <2>6. ParkedOK(Q, c.waiting, c.initiations)
    BY <1>1, <1>4, <2>2, <2>4, <2>5 DEF CoreOK, ParkedOK
  <2>7. d = [c EXCEPT !.resolves = Q]
    BY <2>1, <2>2, Zenon
  <2>8. /\ CoreOK(d) /\ d.resolves = Q /\ d.waiting = c.waiting /\ d.initiations = c.initiations
        /\ d.peers = c.peers /\ d.ghosts = c.ghosts
    BY <2>3, <2>6, <2>7, ResolvesChange
  <2> QED BY <1>1, <2>2, <2>8, Zenon DEF Same
<1>8. CASE ~(Cardinality(R) < MaxInflight)
  <2>1. d = [c EXCEPT !.resolves = R]
    BY <1>1, <1>2, <1>8, Zenon DEF MarkNegative
  <2>2. R \subseteq c.resolves /\ \A r \in c.resolves \ R : r.kind = "Outbound" => r.id \notin c.waiting
    BY <1>1, Zenon
  <2>3. /\ CoreOK(d) /\ d.resolves = R /\ d.waiting = c.waiting /\ d.initiations = c.initiations
        /\ d.peers = c.peers /\ d.ghosts = c.ghosts
    BY <2>1, <2>2, DropResolves
  <2> QED BY <1>1, <2>3, Zenon DEF Same
<1> QED BY <1>7, <1>8, Zenon

\* clear_negative removes a marker and no lookup.
LEMMA ClearNegativeKeeps ==
    ASSUME NEW c, CoreOK(c), NEW q, NEW d, d = ClearNegative(c, q)
    PROVE  CoreOK(d) /\ Same(d, c) /\ \A r \in c.resolves : r.kind # "Negative" => r \in d.resolves
<1>1. PICK R : R = {r \in c.resolves : ~(r.kind = "Negative" /\ r.query = q)}
  BY Zenon
<1>2. d = [c EXCEPT !.resolves = R]
  BY <1>1, Zenon DEF ClearNegative
<1> QED BY <1>1, <1>2, DropResolves DEF Same

\* A reconciliation is owed once per key, and the backlog has its bound.
LEMMA QueueReconcileKeeps ==
    ASSUME NEW c, CoreOK(c), NEW k \in Keys, NEW d, d = QueueReconcile(c, k)
    PROVE  CoreOK(d) /\ Same(d, c) /\ d.resolves = c.resolves
<1>0. PICK B : B = {l \in Keys : c.reconciles[l] # "none"}
  BY Zenon
<1>1. CASE ~(c.reconciles[k] = "none" /\ Cardinality(B) < MaxPeers)
  BY <1>0, <1>1, Zenon DEF QueueReconcile, Same
<1>2. CASE c.reconciles[k] = "none" /\ Cardinality(B) < MaxPeers
  <2>1. c \in CoreType /\ c.reconciles \in [Keys -> {"none", "waiting", "due"}]
    BY Zenon DEF CoreOK, CoreType
  <2>2. PICK Q \in [Keys -> {"none", "waiting", "due"}] : Q = [c.reconciles EXCEPT ![k] = "waiting"]
    BY <2>1, Zenon
  <2>3. d = [c EXCEPT !.reconciles = Q]
    BY <1>0, <1>2, <2>1, <2>2, Zenon DEF QueueReconcile, CoreType
  <2>4. /\ d \in CoreType /\ d.reconciles = Q
        /\ d.peers = c.peers /\ d.resolves = c.resolves /\ d.waiting = c.waiting
        /\ d.initiations = c.initiations /\ d.ghosts = c.ghosts
    BY <2>1, <2>3, SetReconciles
  <2>5. Backlog(Q) = B \cup {k} /\ k \notin B
    BY <1>0, <1>2, <2>1, <2>2, Zenon DEF Backlog
  <2>6. IsFiniteSet(B) /\ Cardinality(B) \in Nat
    BY <1>0, FS_CardinalityType, Zenon DEF CoreOK, BacklogOK, Backlog
  <2>7. IsFiniteSet(B \cup {k}) /\ Cardinality(B \cup {k}) = Cardinality(B) + 1
    BY <2>5, <2>6, FS_AddElement, Zenon
  <2>8. BacklogOK(Q)
    BY <1>2, <2>5, <2>6, <2>7, BoundsAssumption DEF BacklogOK
  <2> QED BY <2>4, <2>8, Zenon DEF CoreOK, Same
<1> QED BY <1>1, <1>2, Zenon

SetReconcile(c, k, v) == [c EXCEPT !.reconciles[k] = v]

\* The backlog does not grow.
LEMMA BacklogShrinks ==
    ASSUME NEW c, CoreOK(c), NEW k \in Keys, NEW v \in {"none", "waiting", "due"},
           v = "none" \/ c.reconciles[k] # "none",
           NEW d, d = SetReconcile(c, k, v)
    PROVE  CoreOK(d) /\ Same(d, c) /\ d.resolves = c.resolves
<1>1. c \in CoreType /\ c.reconciles \in [Keys -> {"none", "waiting", "due"}]
  BY Zenon DEF CoreOK, CoreType
<1>2. PICK Q \in [Keys -> {"none", "waiting", "due"}] : Q = [c.reconciles EXCEPT ![k] = v]
  BY <1>1, Zenon
<1>3. d = [c EXCEPT !.reconciles = Q]
  BY <1>1, <1>2, Zenon DEF CoreType, SetReconcile
<1>4. /\ d \in CoreType /\ d.reconciles = Q
      /\ d.peers = c.peers /\ d.resolves = c.resolves /\ d.waiting = c.waiting
      /\ d.initiations = c.initiations /\ d.ghosts = c.ghosts
  BY <1>1, <1>3, SetReconciles
<1>5. Backlog(Q) \subseteq Backlog(c.reconciles)
  BY <1>1, <1>2, Zenon DEF Backlog
<1>6. IsFiniteSet(Backlog(c.reconciles)) /\ Cardinality(Backlog(c.reconciles)) <= MaxPeers
  BY Zenon DEF CoreOK, BacklogOK
<1>7. IsFiniteSet(Backlog(Q)) /\ Cardinality(Backlog(Q)) <= Cardinality(Backlog(c.reconciles))
  BY <1>5, <1>6, FS_Subset, Zenon
<1>8. Cardinality(Backlog(Q)) <= MaxPeers
  BY <1>6, <1>7, FS_CardinalityType, BoundsAssumption
<1> QED BY <1>4, <1>7, <1>8, Zenon DEF CoreOK, Same, BacklogOK

\* The peers change, and the ghosts.
LEMMA PeersChange ==
    ASSUME NEW c, CoreOK(c), NEW P \in [Keys -> Addrs \cup {None}], NEW G \in SUBSET Keys, PeersOK(P, G),
           NEW d, d = WithPeers(c, P, G)
    PROVE  /\ CoreOK(d) /\ d.resolves = c.resolves /\ d.waiting = c.waiting /\ d.initiations = c.initiations
           /\ d.peers = P /\ d.ghosts = G
<1>1. c \in CoreType
  BY Zenon DEF CoreOK
<1>2. /\ d \in CoreType /\ d.peers = P /\ d.ghosts = G
      /\ d.resolves = c.resolves /\ d.waiting = c.waiting
      /\ d.initiations = c.initiations /\ d.reconciles = c.reconciles
  BY <1>1, SetPeers
<1> QED BY <1>2, Zenon DEF CoreOK

SetPeer(c, k, v) == [c EXCEPT !.peers[k] = v]

\* One peer's record changes: the key is held already, goes, or there is room for
\* it and it is no ghost.
LEMMA OnePeer ==
    ASSUME NEW c, CoreOK(c), NEW k \in Keys, NEW v \in Addrs \cup {None},
           \/ v = None \/ k \in Held(c)
           \/ k \notin Held(c) /\ k \notin c.ghosts /\ Cardinality(Held(c)) < MaxPeers,
           NEW d, d = SetPeer(c, k, v)
    PROVE  /\ CoreOK(d) /\ d.resolves = c.resolves /\ d.waiting = c.waiting /\ d.initiations = c.initiations
           /\ Held(d) = IF v = None THEN Held(c) \ {k} ELSE Held(c) \cup {k}
           /\ Cardinality(Held(d)) <= Cardinality(Held(c)) + (IF k \in Held(c) THEN 0 ELSE 1)
<1>1. c \in CoreType /\ c.peers \in [Keys -> Addrs \cup {None}] /\ c.ghosts \in SUBSET Keys
  BY Zenon DEF CoreOK, CoreType
<1>2. PICK P \in [Keys -> Addrs \cup {None}] : P = [c.peers EXCEPT ![k] = v]
  BY <1>1, Zenon
<1>3. PICK G \in SUBSET Keys : G = c.ghosts
  BY <1>1, Zenon
<1>4. d = WithPeers(c, P, G)
  BY <1>1, <1>2, <1>3, Zenon DEF CoreType, SetPeer, WithPeers
<1>5. PICK H : H = Held(c) /\ H = HeldIn(c.peers)
  BY Zenon DEF Held, HeldIn
<1>6. IsFiniteSet(H) /\ Cardinality(H) \in Nat /\ Cardinality(H) <= MaxPeers /\ c.ghosts \cap H = {} /\ MaxPeers \in Nat
  BY <1>5, FS_CardinalityType, BoundsAssumption, Zenon DEF CoreOK, PeersOK
<1>7. HeldIn(P) = IF v = None THEN H \ {k} ELSE H \cup {k}
  BY <1>1, <1>2, <1>5, Zenon DEF HeldIn
<1>8. /\ IsFiniteSet(HeldIn(P)) /\ Cardinality(HeldIn(P)) <= MaxPeers /\ G \cap HeldIn(P) = {}
      /\ Cardinality(HeldIn(P)) <= Cardinality(H) + (IF k \in H THEN 0 ELSE 1)
  <2>1. CASE v = None
    <3>1. HeldIn(P) \subseteq H
      BY <1>7, <2>1, Zenon
    <3>2. IsFiniteSet(HeldIn(P)) /\ Cardinality(HeldIn(P)) <= Cardinality(H) /\ Cardinality(HeldIn(P)) \in Nat
      BY <1>6, <3>1, FS_Subset, FS_CardinalityType, Zenon
    <3> QED BY <1>3, <1>6, <3>1, <3>2
  <2>2. CASE v # None /\ k \in Held(c)
    <3>1. HeldIn(P) = H
      BY <1>5, <1>7, <2>2, Zenon
    <3> QED BY <1>3, <1>6, <3>1
  <2>3. CASE v # None /\ k \notin Held(c) /\ k \notin c.ghosts /\ Cardinality(Held(c)) < MaxPeers
    <3>1. HeldIn(P) = H \cup {k} /\ k \notin H
      BY <1>5, <1>7, <2>3, Zenon
    <3>2. IsFiniteSet(HeldIn(P)) /\ Cardinality(HeldIn(P)) = Cardinality(H) + 1
      BY <1>6, <3>1, FS_AddElement
    <3> QED BY <1>3, <1>5, <1>6, <2>3, <3>1, <3>2
  <2> QED BY <2>1, <2>2, <2>3, Zenon
<1>9. PeersOK(P, G)
  BY <1>8, Zenon DEF PeersOK
<1>10. /\ CoreOK(d) /\ d.resolves = c.resolves /\ d.waiting = c.waiting /\ d.initiations = c.initiations
       /\ d.peers = P
  BY <1>4, <1>9, PeersChange
<1>11. Held(d) = HeldIn(P)
  BY <1>10, Zenon DEF Held, HeldIn
<1> QED BY <1>5, <1>7, <1>8, <1>10, <1>11, Zenon

Evicted(c, k, a, v) == [c EXCEPT !.peers = [@ EXCEPT ![v] = None, ![k] = a], !.ghosts = @ \cup {v}]

\* An idle peer makes way for a new one.
LEMMA Evicting ==
    ASSUME NEW c, CoreOK(c), NEW k \in Keys, NEW a \in Addrs, NEW v \in Held(c),
           k \notin Held(c), k \notin c.ghosts,
           NEW d, d = Evicted(c, k, a, v)
    PROVE  /\ CoreOK(d) /\ d.resolves = c.resolves /\ d.waiting = c.waiting /\ d.initiations = c.initiations
           /\ Cardinality(Held(d)) = Cardinality(Held(c))
<1>1. c \in CoreType /\ c.peers \in [Keys -> Addrs \cup {None}] /\ c.ghosts \in SUBSET Keys /\ v \in Keys
  BY Zenon DEF CoreOK, CoreType, Held
<1>2. PICK P \in [Keys -> Addrs \cup {None}] : P = [c.peers EXCEPT ![v] = None, ![k] = a]
  BY <1>1, Zenon
<1>3. PICK G \in SUBSET Keys : G = c.ghosts \cup {v}
  BY <1>1, Zenon
<1>4. d = WithPeers(c, P, G)
  BY <1>1, <1>2, <1>3, Zenon DEF CoreType, WithPeers, Evicted
<1>5. PICK H : H = Held(c) /\ H = HeldIn(c.peers)
  BY Zenon DEF Held, HeldIn
<1>6. IsFiniteSet(H) /\ Cardinality(H) \in Nat /\ Cardinality(H) <= MaxPeers /\ c.ghosts \cap H = {} /\ MaxPeers \in Nat
  BY <1>5, FS_CardinalityType, BoundsAssumption, Zenon DEF CoreOK, PeersOK
<1>7. HeldIn(P) = (H \ {v}) \cup {k} /\ k \notin H /\ v \in H
  BY <1>1, <1>2, <1>5, ResolverNoneAssumption DEF HeldIn
<1>8. IsFiniteSet(H \ {v}) /\ Cardinality(H \ {v}) = Cardinality(H) - 1
  BY <1>6, <1>7, FS_RemoveElement, Zenon
<1>a. PICK L : L = H \ {v} /\ k \notin L /\ HeldIn(P) = L \cup {k} /\ IsFiniteSet(L)
  BY <1>7, <1>8, Zenon
<1>9. IsFiniteSet(HeldIn(P)) /\ Cardinality(HeldIn(P)) = Cardinality(H \ {v}) + 1
  <2>1. IsFiniteSet(L \cup {k}) /\ Cardinality(L \cup {k}) = Cardinality(L) + 1
    BY <1>a, FS_AddElement, Zenon
  <2> QED BY <1>a, <2>1, Zenon
<1>10. Cardinality(HeldIn(P)) = Cardinality(H)
  BY <1>6, <1>8, <1>9
<1>11. G \cap HeldIn(P) = {}
  BY <1>3, <1>6, <1>7, Zenon
<1>12. PeersOK(P, G)
  BY <1>6, <1>9, <1>10, <1>11, Zenon DEF PeersOK
<1>13. /\ CoreOK(d) /\ d.resolves = c.resolves /\ d.waiting = c.waiting /\ d.initiations = c.initiations
       /\ d.peers = P
  BY <1>4, <1>12, PeersChange
<1>14. Held(d) = HeldIn(P)
  BY <1>13, Zenon DEF Held, HeldIn
<1> QED BY <1>5, <1>10, <1>13, <1>14, Zenon

\* Either no more keys are held, or the reserve is still free.
KeepsReserve(d, c) ==
    \/ Cardinality(Held(d)) <= Cardinality(Held(c))
    \/ MaxPeers - Cardinality(Held(d)) >= LazyReserve

\* The peers that are held are counted.
LEMMA CountHeld == ASSUME NEW c, CoreOK(c) PROVE Cardinality(Held(c)) \in Nat /\ Cardinality(Held(c)) <= MaxPeers
<1>1. Held(c) = HeldIn(c.peers)
  BY Zenon DEF Held, HeldIn
<1> QED BY <1>1, FS_CardinalityType, Zenon DEF CoreOK, PeersOK

\* upsert_peer_unchecked.
LEMMA InstalledKeeps ==
    ASSUME NEW c, CoreOK(c), NEW k \in Keys, NEW a \in Addrs, NEW admission, NEW d \in Installed(c, k, a, admission)
    PROVE  /\ CoreOK(d) /\ d.resolves = c.resolves /\ d.waiting = c.waiting /\ d.initiations = c.initiations
           /\ admission # "Auth" => KeepsReserve(d, c)
<1>0. Cardinality(Held(c)) \in Nat /\ MaxPeers \in Nat /\ LazyReserve \in Nat /\ a # None /\ a \in Addrs \cup {None}
  BY CountHeld, BoundsAssumption, ResolverNoneAssumption
<1>1. CASE k \in Held(c)
  <2>1. d = SetPeer(c, k, a)
    BY <1>1, Zenon DEF Installed, SetPeer
  <2>2. /\ CoreOK(d) /\ d.resolves = c.resolves /\ d.waiting = c.waiting /\ d.initiations = c.initiations
        /\ Held(d) = IF a = None THEN Held(c) \ {k} ELSE Held(c) \cup {k}
    BY <1>0, <1>1, <2>1, OnePeer
  <2>3. Held(d) = Held(c)
    BY <1>0, <1>1, <2>2, Zenon
  <2>4. KeepsReserve(d, c)
    BY <1>0, <2>3 DEF KeepsReserve
  <2> QED BY <2>2, <2>4, Zenon
<1>2. CASE k \notin Held(c) /\ k \notin c.ghosts /\ Fits(c, admission)
  <2>1. d = SetPeer(c, k, a)
    BY <1>2, Zenon DEF Installed, Admit, Admissible, SetPeer
  <2>2. Cardinality(Held(c)) < MaxPeers /\ (admission = "Auth" \/ MaxPeers - Cardinality(Held(c)) > LazyReserve)
    BY <1>2, Zenon DEF Fits
  <2>3. /\ CoreOK(d) /\ d.resolves = c.resolves /\ d.waiting = c.waiting /\ d.initiations = c.initiations
        /\ Cardinality(Held(d)) <= Cardinality(Held(c)) + (IF k \in Held(c) THEN 0 ELSE 1)
    BY <1>0, <1>2, <2>1, <2>2, OnePeer
  <2>4. Cardinality(Held(d)) \in Nat
    BY <2>3, CountHeld, Zenon
  <2>5. Cardinality(Held(d)) <= Cardinality(Held(c)) + 1
    BY <1>2, <2>3, Zenon
  <2>6. admission # "Auth" => KeepsReserve(d, c)
    BY <1>0, <2>2, <2>4, <2>5 DEF KeepsReserve
  <2> QED BY <2>3, <2>6, Zenon
<1>3. CASE k \notin Held(c) /\ k \notin c.ghosts /\ ~Fits(c, admission)
  <2>1. PICK v \in Held(c) : d = Evicted(c, k, a, v)
    BY <1>3, Zenon DEF Installed, Admit, Admissible, Evicted
  <2>2. /\ CoreOK(d) /\ d.resolves = c.resolves /\ d.waiting = c.waiting /\ d.initiations = c.initiations
        /\ Cardinality(Held(d)) = Cardinality(Held(c))
    BY <1>3, <2>1, Evicting
  <2> QED BY <1>0, <2>2 DEF KeepsReserve
<1>4. k \in Held(c) \/ k \notin c.ghosts
  BY Zenon DEF Installed, Admit
<1> QED BY <1>1, <1>2, <1>3, <1>4, Zenon

\* A key is no address.
LEMMA KeysAreNoAddresses == \A k \in Keys, a \in Addrs : ByKey(k) # ByAddr(a)
BY Zenon DEF ByKey, ByAddr

\* apply_held_answer.
LEMMA HeldAnswerKeeps ==
    ASSUME NEW c, CoreOK(c), NEW k \in Keys, NEW a \in Addrs, NEW outcome,
           NEW d, d = HeldAnswer(c, k, outcome, a)
    PROVE  CoreOK(d) /\ KeepsReserve(d, c)
<1>0. Cardinality(Held(c)) \in Nat /\ a # None /\ a \in Addrs \cup {None} /\ None \in Addrs \cup {None} /\ ByKey(k) \in Queries
  BY CountHeld, ResolverNoneAssumption, Zenon DEF Queries
<1>1. ASSUME NEW b, CoreOK(b)
      PROVE  /\ CoreOK(ForgetReconcile(b, k)) /\ Same(ForgetReconcile(b, k), b)
             /\ ForgetReconcile(b, k).resolves = b.resolves
  <2>1. ForgetReconcile(b, k) = SetReconcile(b, k, "none")
    BY Zenon DEF ForgetReconcile, SetReconcile
  <2> QED BY <1>1, <2>1, BacklogShrinks
<1>2. CASE k \notin Held(c)
  <2>1. d = ForgetReconcile(c, k)
    BY <1>2, Zenon DEF HeldAnswer
  <2>2. CoreOK(d) /\ Held(d) = Held(c)
    BY <1>1, <2>1, Zenon DEF Same, Held
  <2> QED BY <1>0, <2>2 DEF KeepsReserve
<1>3. CASE k \in Held(c) /\ outcome = "Found"
  <2>1. PICK b : b = SetPeer(c, k, a)
    BY Zenon
  <2>2. PICK e : e = ForgetReconcile(b, k)
    BY Zenon
  <2>3. d = ClearNegative(e, ByKey(k))
    BY <1>3, <2>1, <2>2, Zenon DEF HeldAnswer, SetPeer
  <2>4. CoreOK(b) /\ Held(b) = Held(c)
    <3>1. CoreOK(b) /\ Held(b) = IF a = None THEN Held(c) \ {k} ELSE Held(c) \cup {k}
      BY <1>0, <1>3, <2>1, OnePeer, Zenon
    <3> QED BY <1>0, <1>3, <3>1, Zenon
  <2>5. CoreOK(e) /\ Held(e) = Held(b)
    BY <1>1, <2>2, <2>4, Zenon DEF Same, Held
  <2>6. CoreOK(d) /\ Held(d) = Held(e)
    BY <2>3, <2>5, ClearNegativeKeeps DEF Same, Held
  <2> QED BY <1>0, <2>4, <2>5, <2>6 DEF KeepsReserve
<1>4. CASE k \in Held(c) /\ outcome = "NotFound"
  <2>1. PICK b : b = SetPeer(c, k, None)
    BY Zenon
  <2>2. PICK e : e = ForgetReconcile(b, k)
    BY Zenon
  <2>3. d = MarkNegative(e, ByKey(k))
    BY <1>4, <2>1, <2>2, Zenon DEF HeldAnswer, SetPeer
  <2>4. CoreOK(b) /\ Cardinality(Held(b)) <= Cardinality(Held(c))
    <3>1. CoreOK(b) /\ Cardinality(Held(b)) <= Cardinality(Held(c)) + (IF k \in Held(c) THEN 0 ELSE 1)
      BY <1>0, <1>4, <2>1, OnePeer, Zenon
    <3>2. Cardinality(Held(b)) \in Nat
      BY <3>1, CountHeld, Zenon
    <3> QED BY <1>0, <1>4, <3>1, <3>2
  <2>5. CoreOK(e) /\ Held(e) = Held(b)
    BY <1>1, <2>2, <2>4, Zenon DEF Same, Held
  <2>6. \A r \in e.resolves : r.kind = "Outbound" => r.query # ByKey(k)
    BY <2>5, KeysAreNoAddresses, Zenon DEF CoreOK, ResolvesOK, EntryOK
  <2>7. CoreOK(d) /\ Held(d) = Held(e)
    BY <1>0, <2>3, <2>5, <2>6, MarkNegativeKeeps DEF Same, Held
  <2> QED BY <1>0, <2>4, <2>5, <2>7, Zenon DEF KeepsReserve
<1>5. CASE k \in Held(c) /\ outcome # "Found" /\ outcome # "NotFound"
  <2>1. d = QueueReconcile(c, k)
    BY <1>5, Zenon DEF HeldAnswer
  <2>2. CoreOK(d) /\ Held(d) = Held(c)
    BY <2>1, QueueReconcileKeeps DEF Same, Held
  <2> QED BY <1>0, <2>2 DEF KeepsReserve
<1> QED BY <1>2, <1>3, <1>4, <1>5, Zenon

-------------------------------------------------------------------------------
(* Answers.                                                                  *)

\* A by-address lookup leaves the table together with its packets.
LEMMA OutboundDone ==
    ASSUME NEW c, CoreOK(c), NEW r \in c.resolves, NEW d, d = DropWaiting(Without(c, r), r.id)
    PROVE  /\ CoreOK(d) /\ d.resolves = c.resolves \ {r} /\ d.waiting = c.waiting \ {r.id}
           /\ d.initiations = c.initiations /\ d.peers = c.peers /\ d.ghosts = c.ghosts
<1>1. PICK b : b = DropWaiting(c, r.id)
  BY Zenon
<1>2. /\ CoreOK(b) /\ b.resolves = c.resolves /\ b.waiting = c.waiting \ {r.id}
      /\ b.initiations = c.initiations /\ b.peers = c.peers /\ b.ghosts = c.ghosts
  BY <1>1, FewerWaiting
<1>3. c \in CoreType
  BY Zenon DEF CoreOK
<1>4. PICK R : R = c.resolves \ {r}
  BY Zenon
<1>5. d = [b EXCEPT !.resolves = R]
  BY <1>1, <1>3, <1>4, Zenon DEF DropWaiting, Without, CoreType
<1>6. \A s \in b.resolves \ R : s.kind = "Outbound" => s.id \notin b.waiting
  BY <1>2, <1>4, Zenon
<1>7. R \subseteq b.resolves
  BY <1>2, <1>4, Zenon
<1>8. /\ CoreOK(d) /\ d.resolves = R /\ d.waiting = b.waiting /\ d.initiations = b.initiations
      /\ d.peers = b.peers /\ d.ghosts = b.ghosts
  BY <1>2, <1>5, <1>6, <1>7, DropResolves
<1> QED BY <1>2, <1>4, <1>8, Zenon

\* Any other entry leaves nothing waiting behind.
LEMMA OtherDone ==
    ASSUME NEW c, CoreOK(c), NEW r \in c.resolves, r.kind # "Outbound", NEW d, d = Without(c, r)
    PROVE  CoreOK(d) /\ d.resolves = c.resolves \ {r} /\ Same(d, c)
<1>1. PICK R : R = c.resolves \ {r}
  BY Zenon
<1>2. d = [c EXCEPT !.resolves = R]
  BY <1>1, Zenon DEF Without
<1>3. R \subseteq c.resolves /\ \A s \in c.resolves \ R : s.kind = "Outbound" => s.id \notin c.waiting
  BY <1>1, Zenon
<1>4. /\ CoreOK(d) /\ d.resolves = R /\ d.waiting = c.waiting /\ d.initiations = c.initiations
      /\ d.peers = c.peers /\ d.ghosts = c.ghosts
  BY <1>2, <1>3, DropResolves
<1> QED BY <1>1, <1>4, Zenon DEF Same

\* Peers that are the same hold the same keys.
LEMMA SameHeld ==
    ASSUME NEW c, NEW d, CoreOK(c), d.peers = c.peers
    PROVE  Held(d) = Held(c) /\ KeepsReserve(d, c)
<1>1. Held(d) = Held(c)
  BY Zenon DEF Held
<1> QED BY <1>1, CountHeld DEF KeepsReserve

\* resolved_outbound.
LEMMA ResolvedOutboundKeeps ==
    ASSUME NEW c, CoreOK(c), NEW r \in c.resolves, r.kind = "Outbound", NEW outcome, NEW k \in Keys, NEW a \in Addrs,
           NEW u \in ResolvedOutbound(Without(c, r), r, outcome, k, a)
    PROVE  CoreOK(u) /\ KeepsReserve(u, c)
<1>1. PICK done : done = DropWaiting(Without(c, r), r.id)
  BY Zenon
<1>2. /\ CoreOK(done) /\ done.resolves = c.resolves \ {r} /\ done.peers = c.peers
  BY <1>1, OutboundDone
<1>3. Held(done) = Held(c) /\ KeepsReserve(done, c)
  BY <1>2, SameHeld, Zenon
<1>4. r.query \in Queries /\ \E b \in Addrs : r.query = ByAddr(b)
  BY Zenon DEF CoreOK, ResolvesOK, EntryType, EntryOK
<1>5. \A s \in done.resolves : s.query # r.query
  BY <1>2, <1>4, Zenon DEF CoreOK, ResolvesOK, SameEntry
<1>6. CASE u = done
  BY <1>2, <1>3, <1>6, Zenon
<1>7. CASE u = MarkNegative(done, r.query)
  <2>1. CoreOK(u) /\ Same(u, done)
    BY <1>2, <1>4, <1>5, <1>7, MarkNegativeKeeps, Zenon
  <2>2. u.peers = c.peers
    BY <1>2, <2>1, Zenon DEF Same
  <2> QED BY <2>1, <2>2, SameHeld, Zenon
<1>8. CASE \E v \in Installed(done, k, a, "Outbound") : u = ClearNegative(v, r.query)
  <2>1. PICK v \in Installed(done, k, a, "Outbound") : u = ClearNegative(v, r.query)
    BY <1>8, Zenon
  <2>2. CoreOK(v) /\ KeepsReserve(v, done)
    BY <1>2, InstalledKeeps, Zenon
  <2>3. CoreOK(u) /\ u.peers = v.peers
    BY <2>1, <2>2, ClearNegativeKeeps, Zenon DEF Same
  <2>4. Held(u) = Held(v)
    BY <2>3, Zenon DEF Held
  <2> QED BY <1>3, <2>2, <2>3, <2>4, Zenon DEF KeepsReserve
<1> QED BY <1>1, <1>6, <1>7, <1>8, Zenon DEF ResolvedOutbound

\* resolved_install: for a relay destination, as for an address; for an
\* authenticated initiator every other lookup stays or nobody is installed.
LEMMA ResolvedInstallKeeps ==
    ASSUME NEW c, CoreOK(c), NEW r \in c.resolves, r.kind \in {"InstallAuth", "InstallRelay"},
           NEW outcome, NEW k \in Keys, NEW a \in Addrs,
           NEW u \in ResolvedInstall(Without(c, r), r, outcome, k, a)
    PROVE  /\ CoreOK(u)
           /\ \/ KeepsReserve(u, c)
              \/ /\ r.kind = "InstallAuth"
                 /\ \A s \in c.resolves \ {r} : s.kind # "Negative" => s \in u.resolves
<1>1. PICK b : b = Without(c, r)
  BY Zenon
<1>2. CoreOK(b) /\ b.resolves = c.resolves \ {r} /\ b.peers = c.peers
  BY <1>1, OtherDone DEF Same
<1>3. PICK done : done = IF r.kind = "InstallAuth"
                         THEN [b EXCEPT !.initiations = {p \in @ : p.id # r.id}] ELSE b
  BY Zenon
<1>4. CoreOK(done) /\ done.resolves = c.resolves \ {r} /\ done.peers = c.peers
  <2>1. CASE r.kind # "InstallAuth"
    BY <1>2, <1>3, <2>1, Zenon
  <2>2. CASE r.kind = "InstallAuth"
    <3>1. PICK I : I = {p \in b.initiations : p.id # r.id}
      BY Zenon
    <3>2. I \subseteq b.initiations /\ done = [b EXCEPT !.initiations = I]
      BY <1>3, <2>2, <3>1, Zenon
    <3>3. CoreOK(done) /\ done.resolves = b.resolves /\ done.peers = b.peers
      BY <1>2, <3>2, FewerInitiations
    <3> QED BY <1>2, <3>3, Zenon
  <2> QED BY <2>1, <2>2, Zenon
<1>5. Held(done) = Held(c) /\ KeepsReserve(done, c)
  BY <1>4, SameHeld, Zenon
<1>6. r.query \in Queries /\ \E l \in Keys : r.query = ByKey(l)
  BY Zenon DEF CoreOK, ResolvesOK, EntryType, EntryOK
<1>7. \A s \in done.resolves : s.kind = "Outbound" => s.query # r.query
  BY <1>4, <1>6, KeysAreNoAddresses DEF CoreOK, ResolvesOK, EntryOK
<1>8. CASE u = done
  BY <1>4, <1>5, <1>8, Zenon
<1>9. CASE u = MarkNegative(done, r.query)
  <2>1. CoreOK(u) /\ Same(u, done)
    BY <1>4, <1>6, <1>7, <1>9, MarkNegativeKeeps, Zenon
  <2>2. u.peers = c.peers
    BY <1>4, <2>1, Zenon DEF Same
  <2> QED BY <2>1, <2>2, SameHeld, Zenon
<1>10. CASE \E v \in Installed(done, k, a, IF r.kind = "InstallAuth" THEN "Auth" ELSE "Relay") : u = ClearNegative(v, r.query)
  <2>1. PICK how : how = IF r.kind = "InstallAuth" THEN "Auth" ELSE "Relay"
    BY Zenon
  <2>2. PICK v \in Installed(done, k, a, how) : u = ClearNegative(v, r.query)
    BY <1>10, <2>1, Zenon
  <2>3. CoreOK(v) /\ v.resolves = done.resolves /\ (how # "Auth" => KeepsReserve(v, done))
    BY <1>4, InstalledKeeps
  <2>4. CoreOK(u) /\ u.peers = v.peers /\ \A s \in v.resolves : s.kind # "Negative" => s \in u.resolves
    BY <2>2, <2>3, ClearNegativeKeeps, Zenon DEF Same
  <2>5. Held(u) = Held(v)
    BY <2>4, Zenon DEF Held
  <2>6. CASE r.kind = "InstallAuth"
    BY <1>4, <2>3, <2>4, <2>6, Zenon
  <2>7. CASE r.kind = "InstallRelay"
    BY <1>5, <2>1, <2>3, <2>4, <2>5, <2>7, Zenon DEF KeepsReserve
  <2> QED BY <2>6, <2>7, Zenon
<1> QED BY <1>1, <1>3, <1>8, <1>9, <1>10, Zenon DEF ResolvedInstall

-------------------------------------------------------------------------------
(* The stimuli.                                                              *)

\* flush_sink_output: emission changes flags of entries only, and what is asked
\* carries an identifier.
LEMMA CommitKeeps ==
    ASSUME NEW c, CoreOK(c), NEW U, U \subseteq [id : Ids, query : Queries], Commit(c, U)
    PROVE  /\ ResolverInv' /\ core'.peers = c.peers
           /\ \A s \in c.resolves : \E t \in core'.resolves : t.id = s.id
<1>1. CASE core' = c /\ requests' = U
  <2>1. ResolverInv'
    BY <1>1, Zenon DEF ResolverInv, CoreOK
  <2> QED BY <1>1, <2>1, Zenon
<1>2. CASE /\ core' = [c EXCEPT !.resolves = {[r EXCEPT !.emitted = TRUE] : r \in c.resolves}]
           /\ requests' = U \cup {[id |-> r.id, query |-> r.query] : r \in {r \in c.resolves : ~r.emitted}}
  <2>1. PICK Q : Q = Emitted(c.resolves)
    BY Zenon
  <2>2. ResolvesOK(c.resolves)
    BY Zenon DEF CoreOK
  <2>3. /\ ResolvesOK(Q)
        /\ \A q \in Q : \E r \in c.resolves : q.id = r.id /\ q.query = r.query /\ q.kind = r.kind
        /\ \A r \in c.resolves : \E q \in Q : q.id = r.id /\ q.query = r.query /\ q.kind = r.kind
    BY <2>1, <2>2, AllEmitted
  <2>4. \A id \in c.waiting : \E r \in Q : r.id = id /\ r.kind = "Outbound"
    BY <2>3 DEF CoreOK, ParkedOK
  <2>5. \A p \in c.initiations : \A r \in Q :
          r.id = p.id => r.kind = "InstallAuth" /\ r.query = ByKey(p.key)
    BY <2>3 DEF CoreOK, ParkedOK
  <2>6. ParkedOK(Q, c.waiting, c.initiations)
    BY <2>4, <2>5, Zenon DEF CoreOK, ParkedOK
  <2>7. PICK d : d = [c EXCEPT !.resolves = Q]
    BY Zenon
  <2>8. CoreOK(d) /\ d.resolves = Q /\ d.peers = c.peers
    BY <2>3, <2>6, <2>7, ResolvesChange
  <2>9. core' = d
    BY <1>2, <2>1, <2>7, Zenon DEF Emitted
  <2>10. ASSUME NEW r \in c.resolves, ~r.emitted PROVE r.id \in Ids /\ r.query \in Queries
    BY <2>2, <2>10, Zenon DEF ResolvesOK, EntryOK, EntryType
  <2>11. requests' \subseteq [id : Ids, query : Queries]
    BY <1>2, <2>10
  <2>12. ResolverInv'
    BY <2>8, <2>9, <2>11, Zenon DEF ResolverInv, CoreOK
  <2> QED BY <2>3, <2>8, <2>9, <2>12, Zenon
<1> QED BY <1>1, <1>2, Zenon DEF Commit

\* What every step keeps: the invariant, and the reserve unless no by-address or
\* relay lookup ends in it.
StepKeeps ==
    /\ ResolverInv'
    /\ \/ KeepsReserve(core', core)
       \/ \A r \in core.resolves :
            r.kind \in {"Outbound", "InstallRelay"} => \E s \in core'.resolves : s.id = r.id

\* A step that ends in flush_sink_output keeps what its handler keeps.
LEMMA CommitStep ==
    ASSUME ResolverInv, NEW c, CoreOK(c), KeepsReserve(c, core),
           NEW U, U \subseteq requests, Commit(c, U)
    PROVE  StepKeeps
<1>1. U \subseteq [id : Ids, query : Queries]
  BY Zenon DEF ResolverInv
<1>2. ResolverInv' /\ core'.peers = c.peers
  BY <1>1, CommitKeeps, Zenon
<1>3. Held(core') = Held(c)
  BY <1>2, Zenon DEF Held
<1> QED BY <1>2, <1>3, Zenon DEF StepKeeps, KeepsReserve

\* The same for a handler that leaves the peers alone.
LEMMA QuietCommit ==
    ASSUME ResolverInv, NEW c, CoreOK(c), c.peers = core.peers, Commit(c, requests)
    PROVE  StepKeeps
<1>1. CoreOK(core)
  BY Zenon DEF ResolverInv
<1>2. KeepsReserve(c, core)
  BY <1>1, SameHeld, Zenon
<1> QED BY <1>2, CommitStep, Zenon

\* A step without output.
LEMMA QuietStep ==
    ASSUME ResolverInv, CoreOK(core'), core'.peers = core.peers, requests' = requests
    PROVE  StepKeeps
<1>1. CoreOK(core)
  BY Zenon DEF ResolverInv
<1>2. KeepsReserve(core', core)
  BY <1>1, SameHeld, Zenon
<1>3. ResolverInv'
  BY Zenon DEF ResolverInv, CoreOK
<1> QED BY <1>2, <1>3, Zenon DEF StepKeeps

\* A fresh identifier names nothing in the tables.
LEMMA Fresh ==
    ASSUME NEW id \in FreshIds(core)
    PROVE  /\ id \in Ids /\ \A s \in core.resolves : s.id # id
           /\ \A p \in core.initiations : p.id # id
BY Zenon DEF FreshIds

\* A question that is not suppressed has no lookup in flight; asked by key, no
\* entry is taken for the new one.
LEMMA NotAsked ==
    ASSUME ResolverInv, NEW k \in Keys, ~Suppressed(core, ByKey(k)), NEW id \in FreshIds(core),
           NEW kind \in {"InstallAuth", "InstallRelay", "Reconcile"},
           NEW e, e = Entry(id, ByKey(k), kind)
    PROVE  /\ e \in EntryType /\ EntryOK(e) /\ e.kind = kind /\ e.kind # "Negative" /\ e.id = id /\ e.query = ByKey(k)
           /\ \A s \in core.resolves : s.id # e.id
           /\ \A p \in core.initiations : p.id # e.id
           /\ \A s \in core.resolves : ~SameEntry(e, s) /\ ~SameEntry(s, e)
<1>1. /\ id \in Ids /\ \A s \in core.resolves : s.id # id
      /\ \A p \in core.initiations : p.id # id
  BY Fresh, Zenon
<1>2. ByKey(k) \in Queries /\ kind \in LookupKinds /\ kind # "Outbound"
  BY Zenon DEF Queries, LookupKinds
<1>3. /\ e \in EntryType /\ EntryOK(e) /\ e.kind = kind /\ e.kind # "Negative" /\ e.id = id /\ e.query = ByKey(k)
  BY <1>1, <1>2, NewEntry
<1>4. ASSUME NEW s \in core.resolves PROVE ~SameEntry(e, s) /\ ~SameEntry(s, e)
  <2>1. s.query = ByKey(k) => s.kind = "Negative"
    BY Zenon DEF Suppressed
  <2> QED BY <1>1, <1>3, <2>1, KeysAreNoAddresses, Zenon DEF SameEntry
<1> QED BY <1>1, <1>3, <1>4, Zenon

\* queue_outbound_resolution.
LEMMA SendUnroutedStep ==
    ASSUME ResolverInv, NEW a \in Addrs, SendUnrouted(a)
    PROVE  StepKeeps
<1>0. CoreOK(core) /\ core \in CoreType
  BY Zenon DEF ResolverInv, CoreOK
<1>1. ASSUME NEW c, CoreOK(c), c.peers = core.peers, NEW r \in c.resolves, r.kind = "Outbound",
             Commit([c EXCEPT !.waiting = @ \cup {r.id}], requests)
      PROVE  StepKeeps
  <2>1. PICK d : d = [c EXCEPT !.waiting = c.waiting \cup {r.id}]
    BY Zenon
  <2>2. CoreOK(d) /\ d.peers = c.peers
    BY <1>1, <2>1, MoreWaiting, Zenon
  <2>3. Commit(d, requests)
    BY <1>1, <2>1, Zenon
  <2> QED BY <1>1, <2>2, <2>3, QuietCommit, Zenon
<1>2. ASSUME NEW id \in FreshIds(core), NEW e, e = Entry(id, ByAddr(a), "Outbound")
      PROVE  /\ e \in EntryType /\ EntryOK(e) /\ e.kind = "Outbound" /\ e.kind # "Negative" /\ e.id = id /\ e.query = ByAddr(a)
             /\ \A s \in core.resolves : s.id # e.id /\ s.id # id
             /\ \A p \in core.initiations : p.id # e.id
  <2>1. /\ id \in Ids /\ \A s \in core.resolves : s.id # id
        /\ \A p \in core.initiations : p.id # id
    BY Fresh, Zenon
  <2>2. ByAddr(a) \in Queries /\ "Outbound" \in LookupKinds
    BY Zenon DEF Queries, LookupKinds
  <2>3. /\ e \in EntryType /\ EntryOK(e) /\ e.kind = "Outbound" /\ e.kind # "Negative" /\ e.id = id /\ e.query = ByAddr(a)
    BY <1>2, <2>1, <2>2, NewEntry
  <2> QED BY <2>1, <2>3, Zenon
<1>3. CASE \E r \in core.resolves : r.query = ByAddr(a) /\ r.kind # "Negative"
                                    /\ Commit([core EXCEPT !.waiting = @ \cup {r.id}], requests)
  <2>1. PICK r \in core.resolves : r.query = ByAddr(a) /\ r.kind # "Negative"
                                    /\ Commit([core EXCEPT !.waiting = @ \cup {r.id}], requests)
    BY <1>3, Zenon
  <2>2. r.kind = "Outbound"
    <3>1. EntryOK(r) /\ r.kind \in LookupKinds
      BY <1>0, <2>1, Zenon DEF CoreOK, ResolvesOK, EntryType
    <3> QED BY <2>1, <3>1, KeysAreNoAddresses, Zenon DEF EntryOK, LookupKinds
  <2> QED BY <1>0, <1>1, <2>1, <2>2, Zenon
<1>4. CASE \E r \in core.resolves, id \in FreshIds(core) :
             /\ r.query = ByAddr(a) /\ r.kind = "Negative"
             /\ Commit([[core EXCEPT !.resolves = (@ \ {r}) \cup {Entry(id, ByAddr(a), "Outbound")}]
                          EXCEPT !.waiting = @ \cup {id}], requests)
  <2>1. PICK r \in core.resolves, id \in FreshIds(core) :
             /\ r.query = ByAddr(a) /\ r.kind = "Negative"
             /\ Commit([[core EXCEPT !.resolves = (@ \ {r}) \cup {Entry(id, ByAddr(a), "Outbound")}]
                          EXCEPT !.waiting = @ \cup {id}], requests)
    BY <1>4, Zenon
  <2>2. PICK e : e = Entry(id, ByAddr(a), "Outbound")
    BY Zenon
  <2>3. /\ e \in EntryType /\ EntryOK(e) /\ e.kind = "Outbound" /\ e.kind # "Negative" /\ e.id = id /\ e.query = ByAddr(a)
        /\ \A s \in core.resolves : s.id # e.id /\ s.id # id
        /\ \A p \in core.initiations : p.id # e.id
    BY <1>2, <2>2
  <2>4. PICK R : R = core.resolves \ {r}
    BY Zenon
  <2>5. R \subseteq core.resolves /\ (\A s \in core.resolves \ R : s.kind = "Negative") /\ Cardinality(R) < MaxInflight
    BY <1>0, <2>1, <2>4, RoomFor, Zenon DEF CoreOK
  <2>6. \A s \in R : s.query # ByAddr(a)
    BY <1>0, <2>1, <2>4, Zenon DEF CoreOK, ResolvesOK, SameEntry
  <2>7. \A s \in R : ~SameEntry(e, s) /\ ~SameEntry(s, e)
    BY <2>3, <2>4, <2>6, Zenon DEF SameEntry
  <2>8. PICK c : c = [core EXCEPT !.resolves = R \cup {e}]
    BY Zenon
  <2>9. CoreOK(c) /\ c.resolves = R \cup {e} /\ Same(c, core)
    BY <1>0, <2>3, <2>5, <2>7, <2>8, InsertLookup
  <2>10. e \in c.resolves /\ c.peers = core.peers
    BY <2>9, Zenon DEF Same
  <2>11. Commit([c EXCEPT !.waiting = @ \cup {e.id}], requests)
    BY <2>1, <2>2, <2>3, <2>4, <2>8, Zenon
  <2> QED BY <1>1, <2>3, <2>9, <2>10, <2>11, Zenon
<1>5. CASE /\ \A r \in core.resolves : r.query # ByAddr(a)
           /\ \E id \in FreshIds(core) :
                \E c \in Pushed(core, Entry(id, ByAddr(a), "Outbound")) :
                  Commit([c EXCEPT !.waiting = @ \cup {id}], requests)
  <2>1i. PICK id \in FreshIds(core) : \E c \in Pushed(core, Entry(id, ByAddr(a), "Outbound")) :
            Commit([c EXCEPT !.waiting = @ \cup {id}], requests)
    BY <1>5, Zenon
  <2>1. PICK c \in Pushed(core, Entry(id, ByAddr(a), "Outbound")) : Commit([c EXCEPT !.waiting = @ \cup {id}], requests)
    BY <2>1i, Zenon
  <2>2. PICK e : e = Entry(id, ByAddr(a), "Outbound")
    BY Zenon
  <2>3. /\ e \in EntryType /\ EntryOK(e) /\ e.kind = "Outbound" /\ e.kind # "Negative" /\ e.id = id /\ e.query = ByAddr(a)
        /\ \A s \in core.resolves : s.id # e.id /\ s.id # id
        /\ \A p \in core.initiations : p.id # e.id
    BY <1>2, <2>2
  <2>4. \A s \in core.resolves : ~SameEntry(e, s) /\ ~SameEntry(s, e)
    BY <1>5, <2>3, Zenon DEF SameEntry
  <2>5. CoreOK(c) /\ e \in c.resolves /\ Same(c, core)
    BY <1>0, <2>1, <2>2, <2>3, <2>4, PushedKeeps, Zenon
  <2>6. c.peers = core.peers /\ Commit([c EXCEPT !.waiting = @ \cup {e.id}], requests)
    BY <2>1, <2>3, <2>5, Zenon DEF Same
  <2> QED BY <1>1, <2>3, <2>5, <2>6, Zenon
<1> QED BY <1>3, <1>4, <1>5, Zenon DEF SendUnrouted

\* rx_initiation from a key that is not held.
LEMMA RxUnknownInitiationStep ==
    ASSUME ResolverInv, NEW k \in Keys, RxUnknownInitiation(k)
    PROVE  StepKeeps
<1>0. CoreOK(core)
  BY Zenon DEF ResolverInv
<1>1. ASSUME NEW c, CoreOK(c), c.peers = core.peers, NEW r \in c.resolves, r.kind = "InstallAuth", r.query = ByKey(k),
             Commit(Park(c, r.id, k), requests)
      PROVE  StepKeeps
  <2>1. PICK d : d = Park(c, r.id, k)
    BY Zenon
  <2>2. CoreOK(d) /\ d.peers = c.peers
    BY <1>1, <2>1, ParkKeeps, Zenon
  <2> QED BY <1>1, <2>1, <2>2, QuietCommit, Zenon
<1>2. CASE \E r \in InitiatorLookup(core, k) : Commit(Park(core, r.id, k), requests)
  BY <1>0, <1>1, <1>2, Zenon DEF InitiatorLookup, LiveLookups
<1>3. CASE /\ ~Suppressed(core, ByKey(k))
           /\ \E id \in FreshIds(core) :
                \E c \in Pushed(core, Entry(id, ByKey(k), "InstallAuth")) : Commit(Park(c, id, k), requests)
  <2>1i. PICK id \in FreshIds(core) : \E c \in Pushed(core, Entry(id, ByKey(k), "InstallAuth")) :
            Commit(Park(c, id, k), requests)
    BY <1>3, Zenon
  <2>1. PICK c \in Pushed(core, Entry(id, ByKey(k), "InstallAuth")) : Commit(Park(c, id, k), requests)
    BY <2>1i, Zenon
  <2>2. PICK e : e = Entry(id, ByKey(k), "InstallAuth")
    BY Zenon
  <2>3. /\ e \in EntryType /\ EntryOK(e) /\ e.kind = "InstallAuth" /\ e.kind # "Negative" /\ e.id = id /\ e.query = ByKey(k)
        /\ \A s \in core.resolves : s.id # e.id
        /\ \A p \in core.initiations : p.id # e.id
        /\ \A s \in core.resolves : ~SameEntry(e, s) /\ ~SameEntry(s, e)
    BY <1>3, <2>2, NotAsked
  <2>4. CoreOK(c) /\ e \in c.resolves /\ Same(c, core)
    BY <1>0, <2>1, <2>2, <2>3, PushedKeeps, Zenon
  <2>5. c.peers = core.peers /\ Commit(Park(c, e.id, k), requests)
    BY <2>1, <2>3, <2>4, Zenon DEF Same
  <2> QED BY <1>1, <2>3, <2>4, <2>5, Zenon
<1> QED BY <1>2, <1>3, Zenon DEF RxUnknownInitiation

\* request_relay_peer_install.
LEMMA RxRelayDestinationStep ==
    ASSUME ResolverInv, NEW k \in Keys, RxRelayDestination(k)
    PROVE  StepKeeps
<1>0. CoreOK(core)
  BY Zenon DEF ResolverInv
<1>1i. PICK id \in FreshIds(core) : \E c \in Pushed(core, Entry(id, ByKey(k), "InstallRelay")) :
          Commit(c, requests)
  BY Zenon DEF RxRelayDestination
<1>1. PICK c \in Pushed(core, Entry(id, ByKey(k), "InstallRelay")) : Commit(c, requests)
  BY <1>1i, Zenon
<1>2. PICK e : e = Entry(id, ByKey(k), "InstallRelay")
  BY Zenon
<1>a. ~Suppressed(core, ByKey(k))
  BY Zenon DEF RxRelayDestination
<1>3. /\ e \in EntryType /\ EntryOK(e) /\ e.kind = "InstallRelay" /\ e.kind # "Negative" /\ e.id = id /\ e.query = ByKey(k)
      /\ \A s \in core.resolves : s.id # e.id
      /\ \A p \in core.initiations : p.id # e.id
      /\ \A s \in core.resolves : ~SameEntry(e, s) /\ ~SameEntry(s, e)
  BY <1>a, <1>2, NotAsked
<1>4. CoreOK(c) /\ e \in c.resolves /\ Same(c, core)
  BY <1>0, <1>1, <1>2, <1>3, PushedKeeps, Zenon
<1>5. c.peers = core.peers
  BY <1>4, Zenon DEF Same
<1> QED BY <1>1, <1>4, <1>5, QuietCommit, Zenon

\* promote_due_reconcile.
LEMMA PromoteReconcileStep ==
    ASSUME ResolverInv, NEW k \in Keys, PromoteReconcile(k)
    PROVE  StepKeeps
<1>0. CoreOK(core) /\ core.reconciles[k] # "none"
  BY Zenon DEF ResolverInv, PromoteReconcile
<1>1. CASE Commit(ForgetReconcile(core, k), requests)
  <2>1. PICK c : c = SetReconcile(core, k, "none")
    BY Zenon
  <2>2. CoreOK(c) /\ Same(c, core)
    BY <1>0, <2>1, BacklogShrinks, Zenon
  <2>3. Commit(c, requests) /\ c.peers = core.peers
    BY <1>1, <2>1, <2>2, Zenon DEF SetReconcile, ForgetReconcile, Same
  <2> QED BY <2>2, <2>3, QuietCommit, Zenon
<1>2. CASE Commit([core EXCEPT !.reconciles[k] = "waiting"], requests)
  <2>1. PICK c : c = SetReconcile(core, k, "waiting")
    BY Zenon
  <2>2. CoreOK(c) /\ Same(c, core)
    BY <1>0, <2>1, BacklogShrinks, Zenon
  <2>3. Commit(c, requests) /\ c.peers = core.peers
    BY <1>2, <2>1, <2>2, Zenon DEF SetReconcile, Same
  <2> QED BY <2>2, <2>3, QuietCommit, Zenon
<1>3. CASE /\ ~Suppressed(core, ByKey(k))
           /\ \E id \in FreshIds(core) :
                \E c \in Pushed(core, Entry(id, ByKey(k), "Reconcile")) : Commit(ForgetReconcile(c, k), requests)
  <2>1. PICK id \in FreshIds(core) :
          \E c \in Pushed(core, Entry(id, ByKey(k), "Reconcile")) : Commit(ForgetReconcile(c, k), requests)
    BY <1>3, Zenon
  <2>2. PICK c \in Pushed(core, Entry(id, ByKey(k), "Reconcile")) : Commit(ForgetReconcile(c, k), requests)
    BY <2>1, Zenon
  <2>3. PICK e : e = Entry(id, ByKey(k), "Reconcile")
    BY Zenon
  <2>4. /\ e \in EntryType /\ EntryOK(e) /\ e.kind = "Reconcile" /\ e.kind # "Negative" /\ e.id = id /\ e.query = ByKey(k)
        /\ \A s \in core.resolves : s.id # e.id
        /\ \A p \in core.initiations : p.id # e.id
        /\ \A s \in core.resolves : ~SameEntry(e, s) /\ ~SameEntry(s, e)
    BY <1>3, <2>3, NotAsked
  <2>5. CoreOK(c) /\ e \in c.resolves /\ Same(c, core)
    BY <1>0, <2>2, <2>3, <2>4, PushedKeeps, Zenon
  <2>6. PICK d : d = SetReconcile(c, k, "none")
    BY Zenon
  <2>7. CoreOK(d) /\ Same(d, c)
    BY <2>5, <2>6, BacklogShrinks, Zenon
  <2>8. Commit(d, requests) /\ d.peers = core.peers
    BY <2>2, <2>5, <2>6, <2>7, Zenon DEF SetReconcile, ForgetReconcile, Same
  <2> QED BY <2>7, <2>8, QuietCommit, Zenon
<1> QED BY <1>1, <1>2, <1>3, Zenon DEF PromoteReconcile

\* Time passes a deadline, or a parked packet's time runs out.
LEMMA LapseReconcileStep ==
    ASSUME ResolverInv, NEW k \in Keys, LapseReconcile(k)
    PROVE  StepKeeps
<1>1. CoreOK(core) /\ core.reconciles[k] # "none" /\ core' = SetReconcile(core, k, "due") /\ requests' = requests
  BY Zenon DEF ResolverInv, LapseReconcile, SetReconcile
<1>2. PICK c : c = SetReconcile(core, k, "due")
  BY Zenon
<1>3. CoreOK(c) /\ Same(c, core)
  BY <1>1, <1>2, BacklogShrinks, Zenon
<1>4. CoreOK(core') /\ core'.peers = core.peers
  BY <1>1, <1>2, <1>3, Zenon DEF Same
<1> QED BY <1>1, <1>4, QuietStep, Zenon

\* A ghost's session ends.
LEMMA LapseGhostStep ==
    ASSUME ResolverInv, NEW k \in Keys, LapseGhost(k)
    PROVE  StepKeeps
<1>1. CoreOK(core) /\ core \in CoreType /\ requests' = requests
  BY Zenon DEF ResolverInv, CoreOK, LapseGhost
<1>2. core.peers \in [Keys -> Addrs \cup {None}] /\ core.ghosts \in SUBSET Keys
  BY <1>1, Zenon DEF CoreType
<1>3. PICK P \in [Keys -> Addrs \cup {None}] : P = core.peers
  BY <1>2, Zenon
<1>4. PICK G \in SUBSET Keys : G = core.ghosts \ {k}
  BY <1>2, Zenon
<1>5. PICK c : c = WithPeers(core, P, G)
  BY Zenon
<1>6. core' = c
  BY <1>1, <1>3, <1>4, <1>5, Zenon DEF LapseGhost, WithPeers, CoreType
<1>7. PeersOK(P, G)
  BY <1>1, <1>3, <1>4, Zenon DEF CoreOK, PeersOK
<1>8. CoreOK(c) /\ c.peers = P
  BY <1>1, <1>5, <1>7, PeersChange
<1> QED BY <1>1, <1>3, <1>6, <1>8, QuietStep, Zenon

\* A parked packet is dropped; its lookup goes on.
LEMMA ParkedPacketExpiresStep ==
    ASSUME ResolverInv, ParkedPacketExpires
    PROVE  StepKeeps
<1>1. PICK id \in core.waiting : core' = DropWaiting(core, id) /\ requests' = requests /\ CoreOK(core)
  BY Zenon DEF ResolverInv, ParkedPacketExpires
<1>2. PICK c : c = DropWaiting(core, id)
  BY Zenon
<1>3. CoreOK(c) /\ c.peers = core.peers
  BY <1>1, <1>2, FewerWaiting
<1> QED BY <1>1, <1>2, <1>3, QuietStep, Zenon

\* The deadline of a lookup or of a marker passes.
LEMMA LapseResolveStep ==
    ASSUME ResolverInv, NEW r \in core.resolves, LapseResolve(r)
    PROVE  StepKeeps
<1>0. CoreOK(core) /\ ResolvesOK(core.resolves) /\ requests' = requests
  BY Zenon DEF ResolverInv, CoreOK, LapseResolve
<1>1. PICK e : e = [r EXCEPT !.due = TRUE]
  BY Zenon
<1>2. e \in EntryType /\ EntryOK(e) /\ e.id = r.id /\ e.query = r.query /\ e.kind = r.kind
  BY <1>0, <1>1, FlagsOnly, Zenon DEF ResolvesOK
<1>3. PICK R : R = core.resolves \ {r}
  BY Zenon
<1>4. ResolvesOK(R) /\ Cardinality(R) < MaxInflight
  BY <1>0, <1>3, RoomFor, Zenon
<1>5. \A s \in R : ~SameEntry(r, s) /\ ~SameEntry(s, r)
  BY <1>0, <1>3, Zenon DEF ResolvesOK
<1>6. \A s \in R : ~SameEntry(e, s) /\ ~SameEntry(s, e)
  BY <1>2, <1>5, Zenon DEF SameEntry
<1>7. PICK Q : Q = R \cup {e}
  BY Zenon
<1>8. ResolvesOK(Q)
  BY <1>2, <1>4, <1>6, <1>7, OneMoreResolve, Zenon
<1>9. \A s \in core.resolves : \E t \in Q : t.id = s.id /\ t.kind = s.kind
  BY <1>2, <1>3, <1>7, Zenon
<1>10. \A t \in Q : \E s \in core.resolves : t.id = s.id /\ t.kind = s.kind /\ t.query = s.query
  BY <1>2, <1>3, <1>7, Zenon
<1>11. ParkedOK(Q, core.waiting, core.initiations)
  <2>1. ParkedOK(core.resolves, core.waiting, core.initiations)
    BY <1>0, Zenon DEF CoreOK
  <2>2. \A id \in core.waiting : \E t \in Q : t.id = id /\ t.kind = "Outbound"
    BY <1>9, <2>1 DEF ParkedOK
  <2>3. \A p \in core.initiations : \A t \in Q :
          t.id = p.id => t.kind = "InstallAuth" /\ t.query = ByKey(p.key)
    BY <1>10, <2>1 DEF ParkedOK
  <2> QED BY <2>1, <2>2, <2>3, Zenon DEF ParkedOK
<1>12. PICK c : c = [core EXCEPT !.resolves = Q]
  BY Zenon
<1>13. CoreOK(c) /\ c.peers = core.peers
  BY <1>0, <1>8, <1>11, <1>12, ResolvesChange
<1>14. core' = c
  BY <1>1, <1>3, <1>7, <1>12, Zenon DEF LapseResolve
<1> QED BY <1>0, <1>13, <1>14, QuietStep, Zenon

\* expire_one_resolve.
LEMMA ExpireResolveStep ==
    ASSUME ResolverInv, NEW r \in core.resolves, ExpireResolve(r)
    PROVE  StepKeeps
<1>0. CoreOK(core) /\ r.kind \in LookupKinds \cup {"Negative"} /\ EntryOK(r)
  BY Zenon DEF ResolverInv, CoreOK, ResolvesOK, EntryType
<1>1. PICK c : c = Without(core, r)
  BY Zenon
<1>2. r.kind # "Outbound" => CoreOK(c) /\ Same(c, core)
  BY <1>0, <1>1, OtherDone, Zenon
<1>3. CASE r.kind = "Outbound"
  <2>1. PICK d : d = DropWaiting(Without(core, r), r.id)
    BY Zenon
  <2>2. CoreOK(d) /\ d.peers = core.peers
    BY <1>0, <2>1, OutboundDone
  <2>3. Commit(d, requests)
    BY <1>3, <2>1, Zenon DEF ExpireResolve
  <2> QED BY <2>2, <2>3, QuietCommit, Zenon
<1>4. CASE r.kind = "InstallAuth"
  <2>1. PICK I : I = {p \in c.initiations : p.id # r.id}
    BY Zenon
  <2>2. I \subseteq c.initiations
    BY <2>1, Zenon
  <2>3. PICK d : d = [c EXCEPT !.initiations = I]
    BY Zenon
  <2>4. CoreOK(d) /\ d.peers = core.peers
    <3>1. CoreOK(c) /\ c.peers = core.peers
      BY <1>2, <1>4, Zenon DEF Same
    <3>2. CoreOK(d) /\ d.peers = c.peers
      BY <2>2, <2>3, <3>1, FewerInitiations, Zenon
    <3> QED BY <3>1, <3>2, Zenon
  <2>5. Commit(d, requests)
    BY <1>1, <1>4, <2>1, <2>3, Zenon DEF ExpireResolve
  <2> QED BY <2>4, <2>5, QuietCommit, Zenon
<1>5. CASE r.kind \notin {"Outbound", "InstallAuth"} /\ ~(r.kind = "Reconcile" /\ r.query[2] \in Held(c))
  <2>1. CoreOK(c) /\ c.peers = core.peers
    BY <1>2, <1>5, Zenon DEF Same
  <2>2. Commit(c, requests)
    BY <1>1, <1>5, Zenon DEF ExpireResolve
  <2> QED BY <2>1, <2>2, QuietCommit, Zenon
<1>6. CASE r.kind = "Reconcile" /\ r.query[2] \in Held(c)
  <2>1. PICK k : k = r.query[2] /\ k \in Keys
    BY <1>6, Zenon DEF Held
  <2>2. CoreOK(c) /\ c.peers = core.peers
    BY <1>2, <1>6, Zenon DEF Same
  <2>3. PICK d : d = QueueReconcile(c, k)
    BY Zenon
  <2>4. CoreOK(d) /\ d.peers = c.peers
    BY <2>1, <2>2, <2>3, QueueReconcileKeeps DEF Same
  <2>5. Commit(d, requests)
    BY <1>1, <1>6, <2>1, <2>3, Zenon DEF ExpireResolve
  <2> QED BY <2>2, <2>4, <2>5, QuietCommit, Zenon
<1> QED BY <1>3, <1>4, <1>5, <1>6, Zenon

\* peer_updated.
LEMMA PeerUpdatedStep ==
    ASSUME ResolverInv, NEW k \in Keys, NEW outcome \in Outcomes, NEW a \in Addrs, PeerUpdated(k, outcome, a)
    PROVE  StepKeeps
<1>1. CoreOK(core)
  BY Zenon DEF ResolverInv
<1>2. PICK c : c = HeldAnswer(core, k, outcome, a)
  BY Zenon
<1>3. CoreOK(c) /\ KeepsReserve(c, core)
  BY <1>1, <1>2, HeldAnswerKeeps, Zenon
<1>4. Commit(c, requests)
  BY <1>2, Zenon DEF PeerUpdated
<1> QED BY <1>3, <1>4, CommitStep, Zenon

\* resolved.
LEMMA ResolvedStep ==
    ASSUME ResolverInv, NEW request \in requests, NEW k \in Keys, NEW outcome \in Outcomes, NEW a \in Addrs,
           Resolved(request, outcome, k, a)
    PROVE  StepKeeps
<1>0. CoreOK(core)
  BY Zenon DEF ResolverInv
<1>1. PICK U : U = requests \ {request}
  BY Zenon
<1>2. U \subseteq requests /\ U \subseteq [id : Ids, query : Queries]
  BY <1>1, Zenon DEF ResolverInv
<1>3. CASE Commit(core, U)
  <2>1. KeepsReserve(core, core)
    BY <1>0, SameHeld, Zenon
  <2> QED BY <1>0, <1>2, <1>3, <2>1, CommitStep, Zenon
<1>4. ASSUME NEW r \in core.resolves, r.kind = "Outbound",
             NEW u \in ResolvedOutbound(Without(core, r), r, outcome, k, a), Commit(u, U)
      PROVE  StepKeeps
  <2>1. CoreOK(u) /\ KeepsReserve(u, core)
    BY <1>0, <1>4, ResolvedOutboundKeeps, Zenon
  <2> QED BY <1>2, <1>4, <2>1, CommitStep, Zenon
<1>5. ASSUME NEW r \in core.resolves, r.kind \in {"InstallAuth", "InstallRelay"},
             NEW u \in ResolvedInstall(Without(core, r), r, outcome, k, a), Commit(u, U)
      PROVE  StepKeeps
  <2>1. /\ CoreOK(u)
        /\ \/ KeepsReserve(u, core)
           \/ /\ r.kind = "InstallAuth"
              /\ \A s \in core.resolves \ {r} : s.kind # "Negative" => s \in u.resolves
    BY <1>0, <1>5, ResolvedInstallKeeps, Zenon
  <2>2. CASE KeepsReserve(u, core)
    BY <1>2, <1>5, <2>1, <2>2, CommitStep, Zenon
  <2>3. CASE /\ r.kind = "InstallAuth"
             /\ \A s \in core.resolves \ {r} : s.kind # "Negative" => s \in u.resolves
    <3>1. ResolverInv' /\ \A s \in u.resolves : \E t \in core'.resolves : t.id = s.id
      BY <1>2, <1>5, <2>1, CommitKeeps, Zenon
    <3>2. ASSUME NEW s \in core.resolves, s.kind \in {"Outbound", "InstallRelay"}
          PROVE  \E t \in core'.resolves : t.id = s.id
      <4>1. s # r /\ s.kind # "Negative"
        BY <2>3, <3>2, Zenon
      <4>2. s \in u.resolves
        BY <2>3, <4>1, Zenon
      <4> QED BY <3>1, <4>2, Zenon
    <3> QED BY <3>1, <3>2, Zenon DEF StepKeeps
  <2> QED BY <2>1, <2>2, <2>3, Zenon
<1>6. ASSUME NEW r \in core.resolves, r.kind = "Reconcile",
             Commit(HeldAnswer(Without(core, r), k, outcome, a), U)
      PROVE  StepKeeps
  <2>1. PICK c : c = Without(core, r)
    BY Zenon
  <2>2. r.kind # "Outbound"
    BY <1>6, Zenon
  <2>3. CoreOK(c) /\ c.peers = core.peers
    BY <1>0, <2>1, <2>2, OtherDone DEF Same
  <2>4. PICK d : d = HeldAnswer(c, k, outcome, a)
    BY Zenon
  <2>5. CoreOK(d) /\ KeepsReserve(d, c)
    BY <2>3, <2>4, HeldAnswerKeeps, Zenon
  <2>6. KeepsReserve(d, core)
    BY <2>3, <2>5, Zenon DEF KeepsReserve, Held
  <2>7. Commit(d, U)
    BY <1>6, <2>1, <2>4, Zenon
  <2> QED BY <1>2, <2>5, <2>6, <2>7, CommitStep, Zenon
<1>7. CASE \E r \in {r \in core.resolves : r.id = request.id} :
             LET c == Without(core, r)
             IN  CASE r.kind = "Outbound" ->
                        \E u \in ResolvedOutbound(c, r, outcome, k, a) : Commit(u, U)
                   [] r.kind \in {"InstallAuth", "InstallRelay"} ->
                        \E u \in ResolvedInstall(c, r, outcome, k, a) : Commit(u, U)
                   [] r.kind = "Reconcile" ->
                        /\ r.query = ByKey(k)
                        /\ Commit(HeldAnswer(c, k, outcome, a), U)
  <2>1. PICK r \in core.resolves :
             /\ r.id = request.id
             /\ LET c == Without(core, r)
                IN  CASE r.kind = "Outbound" ->
                           \E u \in ResolvedOutbound(c, r, outcome, k, a) : Commit(u, U)
                      [] r.kind \in {"InstallAuth", "InstallRelay"} ->
                           \E u \in ResolvedInstall(c, r, outcome, k, a) : Commit(u, U)
                      [] r.kind = "Reconcile" ->
                           /\ r.query = ByKey(k)
                           /\ Commit(HeldAnswer(c, k, outcome, a), U)
    BY <1>7, Zenon
  <2>2. r.kind \in {"Outbound", "InstallAuth", "InstallRelay", "Reconcile"}
    <3>1. request.id \in Ids
      BY Zenon DEF ResolverInv
    <3>2. EntryOK(r) /\ r.kind \in LookupKinds \cup {"Negative"}
      BY <1>0, Zenon DEF CoreOK, ResolvesOK, EntryType
    <3> QED BY <2>1, <3>1, <3>2, ResolverNoneAssumption, Zenon DEF EntryOK, LookupKinds
  <2>3. CASE r.kind = "Outbound"
    BY <1>4, <2>1, <2>3, Zenon
  <2>4. CASE r.kind \in {"InstallAuth", "InstallRelay"}
    <3>1. \E u \in ResolvedInstall(Without(core, r), r, outcome, k, a) : Commit(u, U)
      BY <2>1, <2>4, Zenon
    <3> QED BY <1>5, <2>4, <3>1, Zenon
  <2>5. CASE r.kind = "Reconcile"
    <3>1. Commit(HeldAnswer(Without(core, r), k, outcome, a), U)
      BY <2>1, <2>5, Zenon
    <3> QED BY <1>6, <2>5, <3>1, Zenon
  <2> QED BY <2>2, <2>3, <2>4, <2>5, Zenon
<1> QED BY <1>1, <1>3, <1>7, Zenon DEF Resolved

-------------------------------------------------------------------------------
(* The theorems.                                                             *)

\* The empty tables.
LEMMA ResolverStart == ResolverInit => ResolverInv
<1> SUFFICES ASSUME ResolverInit PROVE ResolverInv
  BY Zenon
<1>1. /\ core.peers = [k \in Keys |-> None] /\ core.resolves = {} /\ core.waiting = {}
      /\ core.initiations = {} /\ core.reconciles = [k \in Keys |-> "none"] /\ core.ghosts = {}
      /\ core \in CoreType /\ requests = {}
  BY Zenon DEF ResolverInit, CoreType
<1>2. IsFiniteSet({}) /\ Cardinality({}) = 0
  BY FS_EmptySet, Zenon
<1>3. ResolvesOK(core.resolves) /\ ParkedOK(core.resolves, core.waiting, core.initiations)
  BY <1>1, <1>2, BoundsAssumption DEF ResolvesOK, ParkedOK
<1>4. HeldIn(core.peers) = {} /\ Backlog(core.reconciles) = {}
  BY <1>1, Zenon DEF HeldIn, Backlog
<1>5. PeersOK(core.peers, core.ghosts) /\ BacklogOK(core.reconciles)
  BY <1>1, <1>2, <1>4, BoundsAssumption DEF PeersOK, BacklogOK
<1> QED BY <1>1, <1>3, <1>5, Zenon DEF ResolverInv, CoreOK

\* Every step.
LEMMA ResolverStep == ResolverInv /\ ResolverNext => StepKeeps
<1> SUFFICES ASSUME ResolverInv, ResolverNext PROVE StepKeeps
  BY Zenon
<1>1. CASE \E a \in Addrs : SendUnrouted(a)
  BY <1>1, SendUnroutedStep, Zenon
<1>2. ASSUME NEW k \in Keys, RxUnknownInitiation(k) \/ RxRelayDestination(k) \/ PromoteReconcile(k)
                      \/ LapseReconcile(k) \/ LapseGhost(k)
      PROVE  StepKeeps
  BY <1>2, RxUnknownInitiationStep, RxRelayDestinationStep, PromoteReconcileStep,
     LapseReconcileStep, LapseGhostStep, Zenon
<1>3. ASSUME NEW outcome \in Outcomes, NEW k \in Keys, NEW a \in Addrs,
             PeerUpdated(k, outcome, a) \/ \E request \in requests : Resolved(request, outcome, k, a)
      PROVE  StepKeeps
  BY <1>3, PeerUpdatedStep, ResolvedStep, Zenon
<1>4. CASE \E r \in core.resolves : LapseResolve(r) \/ ExpireResolve(r)
  BY <1>4, LapseResolveStep, ExpireResolveStep, Zenon
<1>5. CASE ParkedPacketExpires
  BY <1>5, ParkedPacketExpiresStep, Zenon
<1> QED BY <1>1, <1>2, <1>3, <1>4, <1>5, Zenon DEF ResolverNext

\* The invariant of the tables.
THEOREM SpecResolverInv == ResolverSpec => []ResolverInv
<1>1. ResolverInv /\ UNCHANGED resolverVars => ResolverInv'
  BY Zenon DEF ResolverInv, CoreOK, resolverVars
<1>2. ResolverInv /\ [ResolverNext]_resolverVars => ResolverInv'
  BY <1>1, ResolverStep, Zenon DEF StepKeeps
<1> QED BY <1>2, ResolverStart, PTL DEF ResolverSpec

\* A question is asked once at a time, and what is parked is owned.
LEMMA OwnedNow == ResolverInv => LookupsOwned
<1> SUFFICES ASSUME ResolverInv PROVE LookupsOwned
  BY Zenon
<1>1. CoreOK(core)
  BY Zenon DEF ResolverInv
<1>2. ResolverTypeOK
  BY <1>1, Zenon DEF ResolverInv, CoreOK, ResolvesOK, ParkedOK, PeersOK, BacklogOK, HeldIn, Backlog, ResolverTypeOK
<1>3. WaitingHasLookup /\ InitiationMatchesLookup
  BY <1>1, Zenon DEF CoreOK, ParkedOK, WaitingHasLookup, InitiationMatchesLookup
<1>4. ASSUME NEW q \in Queries PROVE Cardinality(LiveLookups(core, q)) <= 1
  <2>1. CASE LiveLookups(core, q) = {}
    BY <2>1, FS_EmptySet
  <2>2. CASE LiveLookups(core, q) # {}
    <3>1. PICK r : r \in LiveLookups(core, q)
      BY <2>2, Zenon
    <3>2. \A s \in LiveLookups(core, q) : s = r
      BY <1>1, <3>1, Zenon DEF CoreOK, ResolvesOK, SameEntry, LiveLookups
    <3>3. LiveLookups(core, q) = {r}
      BY <3>1, <3>2, Zenon
    <3>4. Cardinality({r}) = 1
      BY FS_Singleton, Zenon
    <3> QED BY <3>3, <3>4
  <2> QED BY <2>1, <2>2, Zenon
<1> QED BY <1>2, <1>3, <1>4, Zenon DEF LookupsOwned

\* Everything a lookup holds up is released by that lookup alone.
THEOREM SpecLookupsOwned == ResolverSpec => []LookupsOwned
BY SpecResolverInv, OwnedNow, PTL

\* Only an authenticated initiator takes a free entry out of the reserve, and no
\* key is both held and a ghost.
THEOREM SpecAdmissionKept == ResolverSpec => AdmissionKept
<1>1. ResolverInv => core.ghosts \cap Held(core) = {}
  BY Zenon DEF ResolverInv, CoreOK, PeersOK, Held, HeldIn
<1>2. ResolverInv /\ [ResolverNext]_resolverVars => [ReserveKept]_resolverVars
  <2> SUFFICES ASSUME ResolverInv, ResolverNext PROVE ReserveKept
    BY Zenon
  <2>1. StepKeeps
    BY ResolverStep, Zenon
  <2>2. /\ Cardinality(Held(core)) \in Nat /\ Cardinality(Held(core')) \in Nat
        /\ MaxPeers \in Nat /\ LazyReserve \in Nat
    BY <2>1, CountHeld, BoundsAssumption DEF StepKeeps, ResolverInv
  <2>3. CASE KeepsReserve(core', core)
    BY <2>2, <2>3 DEF KeepsReserve, ReserveKept
  <2>4. CASE \A r \in core.resolves :
               r.kind \in {"Outbound", "InstallRelay"} => \E s \in core'.resolves : s.id = r.id
    BY <2>4, Zenon DEF ReserveKept
  <2> QED BY <2>1, <2>3, <2>4, Zenon DEF StepKeeps
<1> QED BY <1>1, <1>2, SpecResolverInv, PTL DEF ResolverSpec, AdmissionKept
===============================================================================
