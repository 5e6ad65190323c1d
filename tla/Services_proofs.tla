--------------------------- MODULE Services_proofs ----------------------------
(* The services beside the tunnel: admission to the tracker, the CUSE        *)
(* session and the DHCP server of the dongle.                                *)
EXTENDS TrackerAdmission, CuseSession, DhcpLeases, TLAPS, FiniteSetTheorems, WellFoundedInduction

-------------------------------------------------------------------------------
(* No peer is locked out of the tracker by connections it no longer has, for *)
(* any callers, connections and limits, and any number of reloads.  The      *)
(* property is inductive with the types: the count of a key never passes the *)
(* number of its connections that hold a permit, although a permit may have  *)
(* been given without counting and a count may be forgotten with its entry.  *)

Stages == {"none", "upgrading", "admitted", "opening", "serving", "asking", "closing", "dropping"}
ConnState == [key : Callers \cup {None}, stage : Stages, seen : SUBSET Callers]
UsageEntry == [connections : Nat, tokens : Nat]

AdmissionTypes ==
    /\ configured \in SUBSET Callers /\ reloads \in Nat
    /\ conn \in [Conns -> ConnState]
    /\ usage \in [DOMAIN usage -> UsageEntry]

AdmissionInv == AdmissionTypes /\ NeverLockedOut

Permitted == {"serving", "asking", "closing", "dropping"}

\* The connections that hold a permit are finitely many.
LEMMA LiveFinite ==
    ASSUME NEW k
    PROVE  IsFiniteSet(Live(k)) /\ Cardinality(Live(k)) \in Nat
<1>1. Live(k) \in SUBSET Conns
  BY Zenon DEF Live
<1>2. IsFiniteSet(Live(k))
  BY <1>1, AdmissionAssumption, FS_Subset, Zenon
<1> QED BY <1>2, FS_CardinalityType, Zenon

\* The same after a step.
LEMMA LiveFiniteNext ==
    ASSUME NEW k
    PROVE  IsFiniteSet(Live(k)') /\ Cardinality(Live(k)') \in Nat
<1>1. Live(k)' \in SUBSET Conns
  BY Zenon DEF Live
<1>2. IsFiniteSet(Live(k)')
  BY <1>1, AdmissionAssumption, FS_Subset, Zenon
<1> QED BY <1>2, FS_CardinalityType, Zenon

\* A step that leaves the permits alone and raises no count keeps the property.
LEMMA CountsKept ==
    ASSUME AdmissionInv,
           usage' \in [DOMAIN usage' -> UsageEntry],
           \A k \in DOMAIN usage' :
             \/ usage'[k].connections = 0
             \/ k \in DOMAIN usage /\ usage'[k].connections <= usage[k].connections,
           \A k : Live(k) \subseteq Live(k)'
    PROVE  NeverLockedOut'
<1> SUFFICES ASSUME NEW k \in DOMAIN usage'
             PROVE  usage'[k].connections <= Cardinality(Live(k)')
  BY Zenon DEF NeverLockedOut
<1>1. /\ usage'[k].connections \in Nat
      /\ IsFiniteSet(Live(k)') /\ Cardinality(Live(k)') \in Nat /\ Cardinality(Live(k)) \in Nat
  BY LiveFinite, LiveFiniteNext, Zenon DEF UsageEntry
<1>2. Cardinality(Live(k)) <= Cardinality(Live(k)')
  <2>1. Live(k) \in SUBSET Live(k)'
    BY Zenon
  <2> QED BY <1>1, <2>1, FS_Subset, Zenon
<1>3. CASE usage'[k].connections = 0
  BY <1>1, <1>3
<1>4. CASE k \in DOMAIN usage /\ usage'[k].connections <= usage[k].connections
  <2>1. usage[k].connections \in Nat /\ usage[k].connections <= Cardinality(Live(k))
    BY <1>4, Zenon DEF AdmissionInv, AdmissionTypes, UsageEntry, NeverLockedOut
  <2> QED BY <1>1, <1>2, <1>4, <2>1
<1> QED BY <1>3, <1>4, Zenon

\* usage.retain drops idle entries of keys that are gone, and what it adds for
\* the caller starts from zero.
LEMMA RetainedCounts ==
    ASSUME AdmissionInv, NEW seen, NEW k
    PROVE  /\ Retained(seen, k) \in [DOMAIN Retained(seen, k) -> UsageEntry]
           /\ k \in DOMAIN Retained(seen, k)
           /\ \A j \in DOMAIN Retained(seen, k) :
                \/ j \in DOMAIN usage /\ Retained(seen, k)[j] = usage[j]
                \/ j \notin DOMAIN usage /\ Retained(seen, k)[j].connections = 0
<1> DEFINE kept == {j \in DOMAIN usage : usage[j].connections # 0 \/ j \in seen}
           R == [j \in kept \cup {k} |-> IF j \in DOMAIN usage THEN usage[j] ELSE NewUsage]
<1>1. Retained(seen, k) = R /\ DOMAIN R = kept \cup {k}
  BY Zenon DEF Retained
<1>2. NewUsage \in UsageEntry /\ NewUsage.connections = 0
  BY AdmissionAssumption, Zenon DEF NewUsage, UsageEntry
<1>3. \A j \in DOMAIN usage : usage[j] \in UsageEntry
  BY Zenon DEF AdmissionInv, AdmissionTypes
<1>4. ASSUME NEW j \in kept \cup {k}
      PROVE  /\ R[j] \in UsageEntry
             /\ \/ j \in DOMAIN usage /\ R[j] = usage[j]
                \/ j \notin DOMAIN usage /\ R[j].connections = 0
  <2>1. R[j] = IF j \in DOMAIN usage THEN usage[j] ELSE NewUsage
    BY Zenon
  <2> HIDE DEF R
  <2> QED BY <1>2, <1>3, <2>1, Zenon
<1>5. R \in [kept \cup {k} -> UsageEntry]
  <2> HIDE DEF kept
  <2> QED BY <1>4, Zenon
<1> QED BY <1>1, <1>4, <1>5, Zenon

-------------------------------------------------------------------------------
(* Who holds a permit after connection c moved to another state.             *)

\* Only connection c can have gained or lost its permit.
LEMMA LiveMoves ==
    ASSUME AdmissionInv, NEW c \in Conns, NEW s \in ConnState, conn' = [conn EXCEPT ![c] = s]
    PROVE  /\ conn' \in [Conns -> ConnState]
           /\ \A k : Live(k)' = IF s.key = k /\ s.stage \in Permitted
                                THEN Live(k) \cup {c} ELSE Live(k) \ {c}
<1>1. conn \in [Conns -> ConnState]
  BY Zenon DEF AdmissionInv, AdmissionTypes
<1>2. conn' \in [Conns -> ConnState]
  BY <1>1, Zenon
<1>3. \A d \in Conns : conn'[d] = IF d = c THEN s ELSE conn[d]
  BY <1>1, Zenon
<1>4. \A k : Live(k)' = {d \in Conns : conn'[d].key = k /\ conn'[d].stage \in Permitted}
  BY Zenon DEF Live, Permitted
<1>5. \A k : Live(k) = {d \in Conns : conn[d].key = k /\ conn[d].stage \in Permitted}
  BY Zenon DEF Live, Permitted
<1>6. ASSUME NEW k
      PROVE  Live(k)' = IF s.key = k /\ s.stage \in Permitted
                        THEN Live(k) \cup {c} ELSE Live(k) \ {c}
  BY <1>3, <1>4, <1>5, Zenon
<1> QED BY <1>2, <1>6, Zenon

\* A connection without a permit may change as it likes, if no count is raised.
LEMMA StepKept ==
    ASSUME AdmissionInv, NEW c \in Conns, NEW s \in ConnState, conn' = [conn EXCEPT ![c] = s],
           \/ conn[c].stage \notin Permitted
           \/ s.key = conn[c].key /\ s.stage \in Permitted,
           usage' \in [DOMAIN usage' -> UsageEntry],
           \A k \in DOMAIN usage' :
             \/ usage'[k].connections = 0
             \/ k \in DOMAIN usage /\ usage'[k].connections <= usage[k].connections,
           configured' \in SUBSET Callers, reloads' \in Nat
    PROVE  AdmissionInv'
<1>1. /\ conn' \in [Conns -> ConnState]
      /\ \A k : Live(k)' = IF s.key = k /\ s.stage \in Permitted
                           THEN Live(k) \cup {c} ELSE Live(k) \ {c}
  BY LiveMoves, Zenon
<1>2. ASSUME NEW k PROVE Live(k) \subseteq Live(k)'
  <2>1. c \in Live(k) => conn[c].key = k /\ conn[c].stage \in Permitted
    BY Zenon DEF Live, Permitted
  <2> QED BY <1>1, <2>1, Zenon
<1>3. NeverLockedOut'
  BY <1>2, CountsKept, Zenon
<1> QED BY <1>1, <1>3, Zenon DEF AdmissionInv, AdmissionTypes

\* The state of a connection, and what EXCEPT makes of it.
LEMMA ConnFields ==
    ASSUME AdmissionInv, NEW c \in Conns
    PROVE  /\ conn \in [Conns -> ConnState] /\ conn[c] \in ConnState
           /\ conn[c] = [key |-> conn[c].key, stage |-> conn[c].stage, seen |-> conn[c].seen]
           /\ conn[c].key \in Callers \cup {None} /\ conn[c].seen \in SUBSET Callers
<1>1. conn \in [Conns -> ConnState] /\ conn[c] \in ConnState
  BY Zenon DEF AdmissionInv, AdmissionTypes
<1> QED BY <1>1, Zenon DEF ConnState

\* Moving a connection to another stage leaves its other fields.
LEMMA StageMoves ==
    ASSUME AdmissionInv, NEW c \in Conns, NEW stage \in Stages
    PROVE  At(c, stage) = [conn EXCEPT ![c] = [key |-> conn[c].key, stage |-> stage, seen |-> conn[c].seen]]
<1>0. conn[c] \in [key : Callers \cup {None}, stage : Stages, seen : SUBSET Callers]
  BY ConnFields, Zenon DEF ConnState
<1>1. [conn[c] EXCEPT !.stage = stage] = [key |-> conn[c].key, stage |-> stage, seen |-> conn[c].seen]
  BY <1>0
<1>2. At(c, stage) = [conn EXCEPT ![c] = [conn[c] EXCEPT !.stage = stage]]
  BY ConnFields, Zenon DEF At
<1> QED BY <1>1, <1>2, Zenon

\* The same with the snapshot it was admitted under.
LEMMA StageAndSnapshot ==
    ASSUME AdmissionInv, NEW c \in Conns, NEW stage \in Stages, NEW seen \in SUBSET Callers
    PROVE  [conn EXCEPT ![c].stage = stage, ![c].seen = seen]
             = [conn EXCEPT ![c] = [key |-> conn[c].key, stage |-> stage, seen |-> seen]]
<1> DEFINE s == [key |-> conn[c].key, stage |-> stage, seen |-> conn[c].seen]
           t == [key |-> conn[c].key, stage |-> stage, seen |-> seen]
           g == [conn EXCEPT ![c] = s]
<1>1. [conn EXCEPT ![c].stage = stage] = g
  BY StageMoves, Zenon DEF At
<1>2. [s EXCEPT !.seen = seen] = t
  OBVIOUS
<1> HIDE DEF s, t
<1>3. g[c] = s
  BY ConnFields, Zenon
<1>4. [conn EXCEPT ![c].stage = stage, ![c].seen = seen] = [g EXCEPT ![c].seen = seen]
  BY <1>1, Zenon
<1>5. [g EXCEPT ![c].seen = seen] = [g EXCEPT ![c] = t]
  BY <1>2, <1>3, Zenon
<1>6. [g EXCEPT ![c] = t] = [conn EXCEPT ![c] = t]
  BY ConnFields, Zenon
<1> QED BY <1>4, <1>5, <1>6, Zenon DEF t

\* A connection that is not there has no permit.
LEMMA IdleState == Idle \in ConnState /\ Idle.stage = "none"
BY Zenon DEF Idle, ConnState, Stages

-------------------------------------------------------------------------------
(* One lemma per action.                                                     *)

\* A connection arrives: it has no permit yet.
LEMMA ArrivesKeeps ==
    ASSUME AdmissionInv, NEW c \in Conns, NEW k \in Callers, Arrives(c, k)
    PROVE  AdmissionInv'
<1> DEFINE s == [key |-> k, stage |-> "upgrading", seen |-> {}]
<1>1. s \in ConnState
  BY Zenon DEF ConnState, Stages
<1>2. /\ conn[c].stage \notin Permitted /\ conn' = [conn EXCEPT ![c] = s]
      /\ usage' = usage /\ configured' = configured /\ reloads' = reloads
  BY DEF Arrives, Idle, Permitted
<1> HIDE DEF s
<1>3. /\ usage' \in [DOMAIN usage' -> UsageEntry] /\ configured' \in SUBSET Callers /\ reloads' \in Nat
      /\ \A j \in DOMAIN usage' : j \in DOMAIN usage /\ usage'[j].connections <= usage[j].connections
  BY <1>2 DEF AdmissionInv, AdmissionTypes, UsageEntry
<1> QED BY <1>1, <1>2, <1>3, StepKept, Zenon

\* Its caller is looked up: it has no permit yet.
LEMMA CheckCallerKeeps ==
    ASSUME AdmissionInv, NEW c \in Conns, CheckCaller(c)
    PROVE  AdmissionInv'
<1>1. PICK s \in ConnState : conn' = [conn EXCEPT ![c] = s]
  <2>1. CASE conn' = At(c, "admitted")
    <3>1. [key |-> conn[c].key, stage |-> "admitted", seen |-> conn[c].seen] \in ConnState
      BY ConnFields, Zenon DEF ConnState, Stages
    <3> QED BY <2>1, <3>1, StageMoves, Zenon DEF Stages
  <2>2. CASE conn' = [conn EXCEPT ![c] = Idle]
    BY <2>2, IdleState, Zenon
  <2> QED BY <2>1, <2>2, Zenon DEF CheckCaller
<1>2. conn[c].stage \notin Permitted /\ usage' = usage /\ configured' = configured /\ reloads' = reloads
  BY Zenon DEF CheckCaller, Permitted
<1>3. /\ usage' \in [DOMAIN usage' -> UsageEntry] /\ configured' \in SUBSET Callers /\ reloads' \in Nat
      /\ \A j \in DOMAIN usage' : j \in DOMAIN usage /\ usage'[j].connections <= usage[j].connections
  BY <1>2 DEF AdmissionInv, AdmissionTypes, UsageEntry
<1> QED BY <1>1, <1>2, <1>3, StepKept, Zenon

\* A permit that was never counted only adds to those the count is compared with.
LEMMA ReadSnapshotKeeps ==
    ASSUME AdmissionInv, NEW c \in Conns, ReadSnapshot(c)
    PROVE  AdmissionInv'
<1>1. PICK s \in ConnState : conn' = [conn EXCEPT ![c] = s]
  <2>1. CASE conn[c].key \in configured
    <3> DEFINE s == [key |-> conn[c].key, stage |-> "opening", seen |-> configured]
    <3>1. s \in ConnState
      BY ConnFields, Zenon DEF ConnState, Stages, AdmissionInv, AdmissionTypes
    <3>2. conn' = [conn EXCEPT ![c].stage = "opening", ![c].seen = configured]
      BY <2>1, Zenon DEF ReadSnapshot
    <3>3. conn' = [conn EXCEPT ![c] = s]
      BY <3>2, StageAndSnapshot, Zenon DEF Stages, AdmissionInv, AdmissionTypes
    <3> QED BY <3>1, <3>3, Zenon
  <2>2. CASE conn[c].key \notin configured
    <3>1. [key |-> conn[c].key, stage |-> "serving", seen |-> conn[c].seen] \in ConnState
      BY ConnFields, Zenon DEF ConnState, Stages
    <3> QED BY <2>2, <3>1, StageMoves, Zenon DEF Stages, ReadSnapshot
  <2> QED BY <2>1, <2>2, Zenon
<1>2. conn[c].stage \notin Permitted /\ usage' = usage /\ configured' = configured /\ reloads' = reloads
  BY Zenon DEF ReadSnapshot, Permitted
<1>3. /\ usage' \in [DOMAIN usage' -> UsageEntry] /\ configured' \in SUBSET Callers /\ reloads' \in Nat
      /\ \A j \in DOMAIN usage' : j \in DOMAIN usage /\ usage'[j].connections <= usage[j].connections
  BY <1>2 DEF AdmissionInv, AdmissionTypes, UsageEntry
<1> QED BY <1>1, <1>2, <1>3, StepKept, Zenon

\* Counting raises the count of one key by one, with one more permit for it.
LEMMA CountKeeps ==
    ASSUME AdmissionInv, NEW c \in Conns, CountConnection(c)
    PROVE  AdmissionInv'
<1> DEFINE k == conn[c].key
           kept == Retained(conn[c].seen, k)
<1>1. /\ kept \in [DOMAIN kept -> UsageEntry] /\ k \in DOMAIN kept
      /\ \A j \in DOMAIN kept : \/ j \in DOMAIN usage /\ kept[j] = usage[j]
                                \/ j \notin DOMAIN usage /\ kept[j].connections = 0
  BY RetainedCounts, Zenon
<1>2. conn[c].stage \notin Permitted /\ configured' = configured /\ reloads' = reloads
  BY Zenon DEF CountConnection, Permitted
<1>3. configured' \in SUBSET Callers /\ reloads' \in Nat
  BY <1>2, Zenon DEF AdmissionInv, AdmissionTypes
<1>4. CASE kept[k].connections >= MaxConnections
  <2>1. usage' = kept /\ conn' = [conn EXCEPT ![c] = Idle]
    BY <1>4, Zenon DEF CountConnection
  <2> HIDE DEF kept
  <2>2. \A j \in DOMAIN usage' : \/ usage'[j].connections = 0
                                 \/ j \in DOMAIN usage /\ usage'[j].connections <= usage[j].connections
    BY <1>1, <2>1 DEF UsageEntry
  <2> QED BY <1>1, <1>2, <1>3, <2>1, <2>2, IdleState, StepKept, Zenon
<1>5. CASE ~(kept[k].connections >= MaxConnections)
  <2> DEFINE s == [key |-> k, stage |-> "serving", seen |-> {}]
  <2>1. /\ usage' = [kept EXCEPT ![k].connections = @ + 1]
        /\ conn' = [conn EXCEPT ![c].stage = "serving", ![c].seen = {}]
    BY <1>5, Zenon DEF CountConnection
  <2>2. s \in ConnState /\ s.key = k /\ s.stage \in Permitted
    BY ConnFields, Zenon DEF ConnState, Stages, Permitted
  <2>3. conn' = [conn EXCEPT ![c] = s]
    BY <2>1, StageAndSnapshot, Zenon DEF Stages
  <2> HIDE DEF kept, s
  <2>4. /\ usage' \in [DOMAIN kept -> UsageEntry]
        /\ \A j \in DOMAIN kept : usage'[j].connections =
              IF j = k THEN kept[j].connections + 1 ELSE kept[j].connections
    <3>1. \A j \in DOMAIN kept : kept[j] = [connections |-> kept[j].connections, tokens |-> kept[j].tokens]
                                 /\ kept[j].connections \in Nat /\ kept[j].tokens \in Nat
      BY <1>1, Zenon DEF UsageEntry
    <3>2. usage' = [kept EXCEPT ![k] = [connections |-> kept[k].connections + 1, tokens |-> kept[k].tokens]]
      <4>1. [kept[k] EXCEPT !.connections = @ + 1] = [connections |-> kept[k].connections + 1, tokens |-> kept[k].tokens]
        BY <1>1, <3>1
      <4>2. usage' = [kept EXCEPT ![k] = [kept[k] EXCEPT !.connections = @ + 1]]
        BY <2>1, Zenon
      <4> QED BY <4>1, <4>2, Zenon
    <3>3. [connections |-> kept[k].connections + 1, tokens |-> kept[k].tokens] \in UsageEntry
      BY <1>1, <3>1 DEF UsageEntry
    <3> QED BY <1>1, <3>2, <3>3, Zenon
  <2>5. conn' \in [Conns -> ConnState]
    BY <2>2, <2>3, LiveMoves, Zenon
  <2>6. ASSUME NEW j \in DOMAIN kept
        PROVE  usage'[j].connections <= Cardinality(Live(j)')
    <3>1. kept[j].connections \in Nat /\ kept[j].connections <= Cardinality(Live(j))
      <4>1. kept[j].connections \in Nat /\ Cardinality(Live(j)) \in Nat
        BY <1>1, LiveFinite, Zenon DEF UsageEntry
      <4>2. CASE j \in DOMAIN usage /\ kept[j] = usage[j]
        BY <4>1, <4>2, Zenon DEF AdmissionInv, NeverLockedOut
      <4>3. CASE kept[j].connections = 0
        BY <4>1, <4>3
      <4> QED BY <1>1, <4>2, <4>3, Zenon
    <3>2. IsFiniteSet(Live(j)) /\ Cardinality(Live(j)) \in Nat
      BY LiveFinite, Zenon
    <3>3. CASE j = k
      <4>1. Live(j)' = Live(j) \cup {c}
        BY <2>2, <2>3, <3>3, LiveMoves, Zenon
      <4>2. c \notin Live(j)
        BY <1>2, Zenon DEF Live, Permitted
      <4>3. Cardinality(Live(j)') = Cardinality(Live(j)) + 1
        BY <3>2, <4>1, <4>2, FS_AddElement, Zenon
      <4> QED BY <2>4, <3>1, <3>2, <3>3, <4>3
    <3>4. CASE j # k
      <4>1. Live(j)' = Live(j) \ {c}
        BY <2>2, <2>3, <3>4, LiveMoves, Zenon
      <4>2. c \notin Live(j)
        BY <1>2, Zenon DEF Live, Permitted
      <4>3. Live(j)' = Live(j)
        BY <4>1, <4>2, Zenon
      <4> QED BY <2>4, <3>1, <3>4, <4>3, Zenon
    <3> QED BY <3>3, <3>4, Zenon
  <2>7. DOMAIN usage' = DOMAIN kept
    BY <2>4, Zenon
  <2> QED BY <1>3, <2>4, <2>5, <2>6, <2>7, Zenon DEF AdmissionInv, AdmissionTypes, NeverLockedOut
<1> QED BY <1>4, <1>5, Zenon

\* What leaves the connections alone and raises no count keeps the invariant.
LEMMA CountsOnly ==
    ASSUME AdmissionInv, conn' = conn,
           usage' \in [DOMAIN usage' -> UsageEntry],
           \A k \in DOMAIN usage' :
             \/ usage'[k].connections = 0
             \/ k \in DOMAIN usage /\ usage'[k].connections <= usage[k].connections,
           configured' \in SUBSET Callers, reloads' \in Nat
    PROVE  AdmissionInv'
<1>1. \A k : Live(k) \subseteq Live(k)'
  BY Zenon DEF Live
<1>2. conn' \in [Conns -> ConnState]
  BY Zenon DEF AdmissionInv, AdmissionTypes
<1>3. NeverLockedOut'
  BY <1>1, <1>2, CountsKept, Zenon
<1> QED BY <1>2, <1>3, Zenon DEF AdmissionInv, AdmissionTypes

\* Replacing the number of tokens of one entry changes no count.
LEMMA TokensOnly ==
    ASSUME NEW D, NEW u \in [D -> UsageEntry], NEW k \in D, NEW n \in Nat
    PROVE  /\ [u EXCEPT ![k].tokens = n] \in [D -> UsageEntry]
           /\ \A j \in D : [u EXCEPT ![k].tokens = n][j].connections = u[j].connections
<1>1. u[k] \in [connections : Nat, tokens : Nat]
  BY Zenon DEF UsageEntry
<1> DEFINE e == [connections |-> u[k].connections, tokens |-> n]
<1>2. [u[k] EXCEPT !.tokens = n] = e
  BY <1>1
<1>3. e \in UsageEntry /\ e.connections = u[k].connections
  BY <1>1, Zenon DEF UsageEntry
<1>4. [u EXCEPT ![k].tokens = n] = [u EXCEPT ![k] = e]
  BY <1>2, Zenon
<1> HIDE DEF e
<1> QED BY <1>3, <1>4, Zenon

\* A session that makes a request keeps its permit.
LEMMA RequestKeeps ==
    ASSUME AdmissionInv, NEW c \in Conns, Request(c)
    PROVE  AdmissionInv'
<1> DEFINE s == [key |-> conn[c].key, stage |-> "asking", seen |-> configured]
<1>1. configured \in SUBSET Callers
  BY Zenon DEF AdmissionInv, AdmissionTypes
<1>2. s \in ConnState /\ s.key = conn[c].key /\ s.stage \in Permitted
  BY <1>1, ConnFields, Zenon DEF ConnState, Stages, Permitted
<1>3. [conn EXCEPT ![c].stage = "asking", ![c].seen = configured] = [conn EXCEPT ![c] = s]
  BY <1>1, StageAndSnapshot, Zenon DEF Stages
<1>4. conn' = [conn EXCEPT ![c] = s] /\ usage' = usage /\ configured' = configured /\ reloads' = reloads
  BY <1>3, Zenon DEF Request
<1> HIDE DEF s
<1>5. /\ usage' \in [DOMAIN usage' -> UsageEntry] /\ configured' \in SUBSET Callers /\ reloads' \in Nat
      /\ \A j \in DOMAIN usage' : j \in DOMAIN usage /\ usage'[j].connections <= usage[j].connections
  BY <1>4 DEF AdmissionInv, AdmissionTypes, UsageEntry
<1> QED BY <1>2, <1>4, <1>5, StepKept, Zenon

\* The charge takes a token and changes no count, however old the snapshot.
LEMMA ChargeRequestKeeps ==
    ASSUME AdmissionInv, NEW c \in Conns, ChargeRequest(c)
    PROVE  AdmissionInv'
<1> DEFINE k == conn[c].key
           kept == Retained(conn[c].seen, k)
           s == [key |-> conn[c].key, stage |-> "serving", seen |-> {}]
<1>1. /\ kept \in [DOMAIN kept -> UsageEntry] /\ k \in DOMAIN kept
      /\ \A j \in DOMAIN kept : \/ j \in DOMAIN usage /\ kept[j] = usage[j]
                                \/ j \notin DOMAIN usage /\ kept[j].connections = 0
  BY RetainedCounts, Zenon
<1>2. /\ configured' = configured /\ reloads' = reloads
      /\ conn' = [conn EXCEPT ![c].stage = "serving", ![c].seen = {}]
      /\ usage' = IF kept[k].tokens = 0 THEN kept ELSE [kept EXCEPT ![k].tokens = kept[k].tokens - 1]
  BY Zenon DEF ChargeRequest
<1>3. s \in ConnState /\ s.key = conn[c].key /\ s.stage \in Permitted
  BY ConnFields, Zenon DEF ConnState, Stages, Permitted
<1>4. conn' = [conn EXCEPT ![c] = s]
  BY <1>2, StageAndSnapshot, Zenon DEF Stages
<1> HIDE DEF kept, s
<1>5. /\ usage' \in [DOMAIN kept -> UsageEntry]
      /\ \A j \in DOMAIN kept : usage'[j].connections = kept[j].connections
  <2>1. CASE kept[k].tokens = 0
    BY <1>1, <1>2, <2>1, Zenon
  <2>2. CASE kept[k].tokens # 0
    <3>1. kept[k].tokens - 1 \in Nat
      BY <1>1, <2>2 DEF UsageEntry
    <3> HIDE DEF k
    <3> QED BY <1>1, <1>2, <2>2, <3>1, TokensOnly
  <2> QED BY <2>1, <2>2, Zenon
<1>6. DOMAIN usage' = DOMAIN kept
  BY <1>5, Zenon
<1>7. \A j \in DOMAIN usage' : \/ usage'[j].connections = 0
                               \/ j \in DOMAIN usage /\ usage'[j].connections <= usage[j].connections
  BY <1>1, <1>5, <1>6 DEF UsageEntry
<1>8. configured' \in SUBSET Callers /\ reloads' \in Nat /\ usage' \in [DOMAIN usage' -> UsageEntry]
  BY <1>2, <1>5, <1>6, Zenon DEF AdmissionInv, AdmissionTypes
<1> QED BY <1>3, <1>4, <1>7, <1>8, StepKept, Zenon

\* A refill changes no count.
LEMMA RefillKeeps ==
    ASSUME AdmissionInv, NEW k \in Callers, Refill(k)
    PROVE  AdmissionInv'
<1>1. usage \in [DOMAIN usage -> UsageEntry] /\ configured \in SUBSET Callers /\ reloads \in Nat
  BY Zenon DEF AdmissionInv, AdmissionTypes
<1>2. /\ k \in DOMAIN usage /\ conn' = conn /\ configured' = configured /\ reloads' = reloads
      /\ usage' = [usage EXCEPT ![k].tokens = usage[k].tokens + 1]
  BY Zenon DEF Refill
<1>3. usage[k].tokens + 1 \in Nat
  BY <1>1, <1>2 DEF UsageEntry
<1>4. /\ usage' \in [DOMAIN usage -> UsageEntry]
      /\ \A j \in DOMAIN usage : usage'[j].connections = usage[j].connections
  BY <1>1, <1>2, <1>3, TokensOnly
<1>5. DOMAIN usage' = DOMAIN usage
  BY <1>4, Zenon
<1>6. \A j \in DOMAIN usage' : j \in DOMAIN usage /\ usage'[j].connections <= usage[j].connections
  BY <1>1, <1>4, <1>5 DEF UsageEntry
<1> QED BY <1>1, <1>2, <1>4, <1>5, <1>6, CountsOnly, Zenon

\* A reload changes neither the usage table nor a connection.
LEMMA ReloadKeeps ==
    ASSUME AdmissionInv, NEW keys \in SUBSET Callers, Reload(keys)
    PROVE  AdmissionInv'
<1>1. usage \in [DOMAIN usage -> UsageEntry] /\ reloads \in Nat
  BY Zenon DEF AdmissionInv, AdmissionTypes
<1>2. conn' = conn /\ usage' = usage /\ configured' = keys /\ reloads' = reloads + 1
  BY Zenon DEF Reload
<1>3. \A j \in DOMAIN usage' : j \in DOMAIN usage /\ usage'[j].connections <= usage[j].connections
  BY <1>1, <1>2 DEF UsageEntry
<1> QED BY <1>1, <1>2, <1>3, CountsOnly

\* A session that ends keeps its permit until its close is counted.
LEMMA EndConnectionKeeps ==
    ASSUME AdmissionInv, NEW c \in Conns, EndConnection(c)
    PROVE  AdmissionInv'
<1> DEFINE stage == IF conn[c].key \in configured THEN "closing" ELSE "dropping"
           s == [key |-> conn[c].key, stage |-> stage, seen |-> conn[c].seen]
<1>1. stage \in Stages /\ stage \in Permitted
  BY Zenon DEF Stages, Permitted
<1>2. s \in ConnState /\ s.key = conn[c].key /\ s.stage \in Permitted
  BY <1>1, ConnFields, Zenon DEF ConnState
<1>3. conn' = [conn EXCEPT ![c] = s] /\ usage' = usage /\ configured' = configured /\ reloads' = reloads
  BY <1>1, StageMoves, Zenon DEF EndConnection
<1> HIDE DEF s
<1>4. /\ usage' \in [DOMAIN usage' -> UsageEntry] /\ configured' \in SUBSET Callers /\ reloads' \in Nat
      /\ \A j \in DOMAIN usage' : j \in DOMAIN usage /\ usage'[j].connections <= usage[j].connections
  BY <1>3 DEF AdmissionInv, AdmissionTypes, UsageEntry
<1> QED BY <1>2, <1>3, <1>4, StepKept, Zenon

\* Closing lowers the count of the key by one, if it was counted at all, with one
\* permit less for it.
LEMMA ClosedCounts ==
    ASSUME AdmissionInv, NEW k, NEW still \in BOOLEAN
    PROVE  LET u == Closed(k, still) IN
           /\ u \in [DOMAIN u -> UsageEntry] /\ DOMAIN u \subseteq DOMAIN usage
           /\ \A j \in DOMAIN u :
                u[j].connections = IF j # k \/ usage[j].connections = 0 THEN usage[j].connections
                                   ELSE usage[j].connections - 1
<1>1. usage \in [DOMAIN usage -> UsageEntry]
  BY Zenon DEF AdmissionInv, AdmissionTypes
<1>2. CASE k \notin DOMAIN usage
  BY <1>1, <1>2, Zenon DEF Closed
<1>3. CASE k \in DOMAIN usage
  <2> DEFINE left == IF usage[k].connections = 0 THEN 0 ELSE usage[k].connections - 1
             e == [connections |-> left, tokens |-> usage[k].tokens]
  <2>1. usage[k] \in [connections : Nat, tokens : Nat]
    BY <1>1, <1>3, Zenon DEF UsageEntry
  <2>2. left \in Nat /\ e \in UsageEntry /\ e.connections = left
    BY <2>1 DEF UsageEntry
  <2>3. CASE left = 0 /\ ~still
    <3>1. Closed(k, still) = [j \in DOMAIN usage \ {k} |-> usage[j]]
      BY <1>3, <2>3, Zenon DEF Closed, Restrict
    <3> QED BY <1>1, <3>1, Zenon
  <2>4. CASE ~(left = 0 /\ ~still)
    <3>1. Closed(k, still) = [usage EXCEPT ![k].connections = left]
      BY <1>3, <2>4, Zenon DEF Closed
    <3>2. [usage[k] EXCEPT !.connections = left] = e
      BY <2>1
    <3>3. Closed(k, still) = [usage EXCEPT ![k] = e]
      BY <3>1, <3>2, Zenon
    <3>4. \A j \in DOMAIN usage : Closed(k, still)[j] = IF j = k THEN e ELSE usage[j]
      BY <1>1, <3>3, Zenon
    <3>5. DOMAIN Closed(k, still) = DOMAIN usage /\ Closed(k, still) \in [DOMAIN usage -> UsageEntry]
      BY <1>1, <2>2, <3>3, Zenon
    <3> HIDE DEF e
    <3> QED BY <1>1, <2>2, <3>4, <3>5, Zenon
  <2> QED BY <2>3, <2>4, Zenon
<1> QED BY <1>2, <1>3, Zenon

\* The close gives back what the connection was counted for.
LEMMA CloseConnectionKeeps ==
    ASSUME AdmissionInv, NEW c \in Conns, CloseConnection(c)
    PROVE  AdmissionInv'
<1> DEFINE k == conn[c].key
           still == conn[c].stage = "closing"
           u == Closed(k, still)
<1>1. /\ conn[c].stage \in Permitted /\ usage' = u /\ conn' = [conn EXCEPT ![c] = Idle]
      /\ configured' = configured /\ reloads' = reloads
  BY Zenon DEF CloseConnection, Permitted
<1>2. still \in BOOLEAN
  BY Zenon
<1> HIDE DEF still
<1>3. /\ u \in [DOMAIN u -> UsageEntry] /\ DOMAIN u \subseteq DOMAIN usage
      /\ \A j \in DOMAIN u :
           u[j].connections = IF j # k \/ usage[j].connections = 0 THEN usage[j].connections
                              ELSE usage[j].connections - 1
  BY <1>2, ClosedCounts, Zenon
<1> HIDE DEF u
<1>4. /\ conn' \in [Conns -> ConnState] /\ \A j : Live(j)' = Live(j) \ {c}
  BY <1>1, IdleState, LiveMoves, Zenon DEF Permitted
<1>5. ASSUME NEW j \in DOMAIN u
      PROVE  u[j].connections <= Cardinality(Live(j)')
  <2>1. IsFiniteSet(Live(j)) /\ Cardinality(Live(j)) \in Nat
    BY LiveFinite, Zenon
  <2>2. usage[j].connections \in Nat /\ usage[j].connections <= Cardinality(Live(j))
    BY <1>3, Zenon DEF AdmissionInv, AdmissionTypes, UsageEntry, NeverLockedOut
  <2>3. CASE j = k
    <3>1. c \in Live(j)
      BY <1>1, <2>3, Zenon DEF Live, Permitted
    <3>2. Cardinality(Live(j)') = Cardinality(Live(j)) - 1
      BY <1>4, <2>1, <3>1, FS_RemoveElement, Zenon
    <3>3. Cardinality(Live(j)) # 0
      BY <2>1, <3>1, FS_EmptySet, Zenon
    <3> QED BY <1>3, <2>1, <2>2, <2>3, <3>2, <3>3
  <2>4. CASE j # k
    <3>1. c \notin Live(j)
      BY <2>4, Zenon DEF Live
    <3>2. Live(j)' = Live(j)
      BY <1>4, <3>1, Zenon
    <3> QED BY <1>3, <2>2, <2>4, <3>2, Zenon
  <2> QED BY <2>3, <2>4, Zenon
<1> QED BY <1>1, <1>3, <1>4, <1>5, Zenon DEF AdmissionInv, AdmissionTypes, NeverLockedOut

-------------------------------------------------------------------------------
\* At the start nobody is counted.
LEMMA AdmissionInitial == AdmissionInit => AdmissionInv
<1> SUFFICES ASSUME AdmissionInit PROVE AdmissionInv
  BY Zenon
<1>1. usage \in [DOMAIN usage -> UsageEntry] /\ DOMAIN usage = {}
  BY Zenon DEF AdmissionInit
<1>2. conn \in [Conns -> ConnState] /\ configured \in SUBSET Callers /\ reloads \in Nat
  BY IdleState, Zenon DEF AdmissionInit
<1> QED BY <1>1, <1>2, Zenon DEF AdmissionInv, AdmissionTypes, NeverLockedOut

\* Every step keeps the invariant.
LEMMA AdmissionStep == AdmissionInv /\ [AdmissionNext]_admissionVars => AdmissionInv'
<1> SUFFICES ASSUME AdmissionInv, [AdmissionNext]_admissionVars PROVE AdmissionInv'
  BY Zenon
<1>1. ASSUME NEW c \in Conns, NEW k \in Callers, Arrives(c, k) PROVE AdmissionInv'
  BY <1>1, ArrivesKeeps, Zenon
<1>2. ASSUME NEW c \in Conns, CheckCaller(c) PROVE AdmissionInv'
  BY <1>2, CheckCallerKeeps, Zenon
<1>3. ASSUME NEW c \in Conns, ReadSnapshot(c) PROVE AdmissionInv'
  BY <1>3, ReadSnapshotKeeps, Zenon
<1>4. ASSUME NEW c \in Conns, CountConnection(c) PROVE AdmissionInv'
  BY <1>4, CountKeeps, Zenon
<1>5. ASSUME NEW c \in Conns, Request(c) PROVE AdmissionInv'
  BY <1>5, RequestKeeps, Zenon
<1>6. ASSUME NEW c \in Conns, EndConnection(c) PROVE AdmissionInv'
  BY <1>6, EndConnectionKeeps, Zenon
<1>7. ASSUME NEW c \in Conns, CloseConnection(c) PROVE AdmissionInv'
  BY <1>7, CloseConnectionKeeps, Zenon
<1>8. ASSUME NEW k \in Callers, Refill(k) PROVE AdmissionInv'
  BY <1>8, RefillKeeps, Zenon
<1>9. ASSUME NEW keys \in SUBSET Callers, Reload(keys) PROVE AdmissionInv'
  BY <1>9, ReloadKeeps, Zenon
<1>10. ASSUME NEW c \in Conns, ChargeRequest(c) PROVE AdmissionInv'
  BY <1>10, ChargeRequestKeeps, Zenon
<1>11. CASE UNCHANGED admissionVars
  BY <1>11, Zenon DEF admissionVars, AdmissionInv, AdmissionTypes, NeverLockedOut, Live
<1> QED BY <1>1, <1>2, <1>3, <1>4, <1>5, <1>6, <1>7, <1>8, <1>9, <1>10, <1>11, Zenon DEF AdmissionNext

\* NeverLockedOut for any callers, connections, limits and history of reloads: the count
\* a peer is refused by never exceeds the permits its connections hold.
THEOREM SpecNeverLockedOut == AdmissionSpec => []NeverLockedOut
<1>1. AdmissionInv => NeverLockedOut
  BY Zenon DEF AdmissionInv
<1> QED BY <1>1, AdmissionInitial, AdmissionStep, PTL DEF AdmissionSpec

-------------------------------------------------------------------------------
(* Shutdown is clean for any number of requests, open files and calls of     *)
(* stop.  The invariant adds to TornDownCleanly what the order of finish     *)
(* rests on: a phase is entered only after the loop ended, replies are being *)
(* sent only while the session lives and under the read lock the write lock  *)
(* waits for, and a handle is registered from before its open is answered    *)
(* until somebody frees it.                                                  *)

Phases == {"running", "dropped", "killed", "drained", "done"}
Loops == {"checking", "entering", "reading", "ended"}
Replies == {"none", "parked", "moved", "registered", "sending", "failed", "answered", "dropped"}

FuseState == [loop : Loops, exit : BOOLEAN, files : SUBSET Opens, torn : BOOLEAN, late : BOOLEAN]
LifeState == [live : BOOLEAN, readers : SUBSET Requests, phase : Phases, stops : Nat]
SlotState == [made : Nat, freed : Nat]

CuseTypes ==
    /\ fuse \in FuseState /\ life \in LifeState
    /\ reply \in [Requests -> Replies] /\ handles \in SUBSET Opens
    /\ slots \in [Opens -> SlotState]

\* The phases of finish against the loop, the liveness flag and the replies under way.
PhasesOrdered ==
    /\ fuse.late = FALSE
    /\ fuse.torn = TRUE => life.phase = "done"
    /\ life.live = TRUE <=> life.phase \in {"running", "dropped"}
    /\ life.phase # "running" => fuse.loop = "ended"
    /\ \A r \in Requests : reply[r] = "sending" => r \in life.readers
    /\ life.live = FALSE => life.readers = {}
    /\ life.phase \in {"drained", "done"} => handles = {}

\* The handle of open h against its reply, the registry and the kernel's open files.
HandleRight(h) ==
    /\ slots[h].made \in {0, 1}
    /\ h \in handles => slots[h].made = 1 /\ slots[h].freed = 0
    /\ h \notin handles => slots[h].freed = slots[h].made
    /\ reply[h] \in {"none", "parked", "moved"} => slots[h].made = 0
    /\ reply[h] \in {"registered", "sending"} /\ life.live = TRUE => h \in handles
    /\ h \in fuse.files => reply[h] = "answered"
    /\ h \in fuse.files /\ life.live = TRUE => h \in handles

CuseInv == CuseTypes /\ PhasesOrdered /\ \A h \in Opens : HandleRight(h)

-------------------------------------------------------------------------------
\* What the invariant is for.
LEMMA CuseInvImplies == CuseInv => TornDownCleanly
<1> SUFFICES ASSUME CuseInv PROVE TornDownCleanly
  BY Zenon
<1>1. ~fuse.late
  BY Zenon DEF CuseInv, PhasesOrdered
<1>2. ASSUME NEW h \in Opens
      PROVE  /\ slots[h].freed <= slots[h].made /\ slots[h].made <= 1
             /\ fuse.loop # "ended" /\ h \in fuse.files => slots[h].freed = 0
             /\ life.phase = "done" => slots[h].freed = slots[h].made
  <2>1. HandleRight(h)
    BY <1>2, Zenon DEF CuseInv
  <2>2. slots[h].freed <= slots[h].made /\ slots[h].made <= 1
    BY <2>1 DEF HandleRight
  <2>3. fuse.loop # "ended" /\ h \in fuse.files => slots[h].freed = 0
    BY <2>1, Zenon DEF HandleRight, CuseInv, PhasesOrdered
  <2>4. life.phase = "done" => slots[h].freed = slots[h].made
    BY <2>1, Zenon DEF HandleRight, CuseInv, PhasesOrdered
  <2> QED BY <2>2, <2>3, <2>4, Zenon
<1> QED BY <1>1, <1>2, Zenon DEF TornDownCleanly

\* A call into libfuse while the session is there is not late.
LEMMA TouchedLive ==
    ASSUME CuseInv, life.phase # "done"
    PROVE  Touched(fuse) = fuse
<1>1. fuse \in [loop : Loops, exit : BOOLEAN, files : SUBSET Opens, torn : BOOLEAN, late : BOOLEAN]
  BY Zenon DEF CuseInv, CuseTypes, FuseState
<1>2. fuse.torn = FALSE /\ fuse.late = FALSE
  BY <1>1, Zenon DEF CuseInv, PhasesOrdered
<1>3. [fuse EXCEPT !.late = FALSE] = fuse
  BY <1>1, <1>2, Zenon
<1>4. (fuse.late \/ fuse.torn) = FALSE
  BY <1>2, Zenon
<1>5. Touched(fuse) = [fuse EXCEPT !.late = (fuse.late \/ fuse.torn)]
  BY Zenon DEF Touched
<1> QED BY <1>3, <1>4, <1>5, Zenon

\* Freeing counts every handle of the set once more.
LEMMA FreeCounts ==
    ASSUME NEW table \in [Opens -> SlotState], NEW hs
    PROVE  /\ Free(table, hs) \in [Opens -> SlotState]
           /\ \A h \in Opens : /\ Free(table, hs)[h].made = table[h].made
                               /\ h \in hs => Free(table, hs)[h].freed = table[h].freed + 1
                               /\ h \notin hs => Free(table, hs)[h].freed = table[h].freed
<1>1. ASSUME NEW h \in Opens, h \in hs
      PROVE  /\ Free(table, hs)[h] \in SlotState
             /\ Free(table, hs)[h].made = table[h].made /\ Free(table, hs)[h].freed = table[h].freed + 1
  <2>1. table[h] \in [made : Nat, freed : Nat]
    BY Zenon DEF SlotState
  <2>2. [table[h] EXCEPT !.freed = @ + 1] = [made |-> table[h].made, freed |-> table[h].freed + 1]
    BY <2>1
  <2>3. Free(table, hs)[h] = [made |-> table[h].made, freed |-> table[h].freed + 1]
    BY <1>1, <2>2, Zenon DEF Free
  <2> QED BY <2>1, <2>3 DEF SlotState
<1>2. ASSUME NEW h \in Opens, h \notin hs
      PROVE  Free(table, hs)[h] = table[h]
  BY <1>2, Zenon DEF Free
<1>3. DOMAIN Free(table, hs) = Opens /\ Free(table, hs) = [h \in Opens |-> Free(table, hs)[h]]
  BY Zenon DEF Free
<1>4. \A h \in Opens : Free(table, hs)[h] \in SlotState
  BY <1>1, <1>2, Zenon
<1>5. Free(table, hs) \in [Opens -> SlotState]
  BY <1>3, <1>4, Zenon
<1> QED BY <1>1, <1>2, <1>5, Zenon

\* Allocating counts one handle.
LEMMA AllocCounts ==
    ASSUME CuseInv, NEW h \in Opens
    PROVE  /\ Alloc(h) \in [Opens -> SlotState]
           /\ Alloc(h)[h].made = slots[h].made + 1 /\ Alloc(h)[h].freed = slots[h].freed
           /\ \A g \in Opens : g # h => Alloc(h)[g] = slots[g]
<1>1. slots \in [Opens -> SlotState] /\ slots[h] \in [made : Nat, freed : Nat]
  BY Zenon DEF CuseInv, CuseTypes, SlotState
<1> DEFINE e == [made |-> slots[h].made + 1, freed |-> slots[h].freed]
<1>2. [slots[h] EXCEPT !.made = @ + 1] = e
  BY <1>1
<1>3. e \in SlotState /\ e.made = slots[h].made + 1 /\ e.freed = slots[h].freed
  BY <1>1 DEF SlotState
<1>4. Alloc(h) = [slots EXCEPT ![h] = e]
  BY <1>2, Zenon DEF Alloc
<1> HIDE DEF e
<1> QED BY <1>1, <1>3, <1>4, Zenon

\* The fields of the session after the loop moved or the open files changed.
LEMMA FuseMoves ==
    ASSUME CuseInv, NEW l \in Loops, NEW files \in SUBSET Opens,
           fuse' = [fuse EXCEPT !.loop = l, !.files = files]
    PROVE  /\ fuse' \in FuseState /\ fuse'.loop = l /\ fuse'.files = files
           /\ fuse'.late = fuse.late /\ fuse'.torn = fuse.torn
<1>1. fuse \in [loop : Loops, exit : BOOLEAN, files : SUBSET Opens, torn : BOOLEAN, late : BOOLEAN]
  BY Zenon DEF CuseInv, CuseTypes, FuseState
<1>2. fuse' = [loop |-> l, exit |-> fuse.exit, files |-> files, torn |-> fuse.torn, late |-> fuse.late]
  BY <1>1, Zenon
<1> QED BY <1>1, <1>2, Zenon DEF FuseState

-------------------------------------------------------------------------------
(* One lemma per group of actions.                                           *)

\* The loop looks at the exit flag and enters its read: nothing else moves.
LEMMA LoopKeeps ==
    ASSUME CuseInv, LoopChecks \/ LoopBlocks
    PROVE  CuseInv'
<1>1. fuse \in [loop : Loops, exit : BOOLEAN, files : SUBSET Opens, torn : BOOLEAN, late : BOOLEAN]
  BY Zenon DEF CuseInv, CuseTypes, FuseState
<1>2. PICK l \in Loops : fuse' = [fuse EXCEPT !.loop = l]
  BY Zenon DEF LoopChecks, LoopBlocks, Loops
<1>3. fuse.loop # "ended" /\ life' = life /\ reply' = reply /\ handles' = handles /\ slots' = slots
  BY Zenon DEF LoopChecks, LoopBlocks
<1>4. fuse' = [loop |-> l, exit |-> fuse.exit, files |-> fuse.files, torn |-> fuse.torn, late |-> fuse.late]
  BY <1>1, <1>2, Zenon
<1>5. fuse' \in FuseState /\ fuse'.files = fuse.files /\ fuse'.late = fuse.late /\ fuse'.torn = fuse.torn
  BY <1>1, <1>4, Zenon DEF FuseState
<1>6. life.phase = "running"
  BY <1>3, Zenon DEF CuseInv, PhasesOrdered
<1>7. CuseTypes'
  BY <1>3, <1>5, Zenon DEF CuseInv, CuseTypes
<1>8. PhasesOrdered'
  BY <1>3, <1>5, <1>6, Zenon DEF CuseInv, PhasesOrdered
<1>9. \A h \in Opens : HandleRight(h)'
  BY <1>3, <1>5, Zenon DEF CuseInv, HandleRight
<1> QED BY <1>7, <1>8, <1>9, Zenon DEF CuseInv

\* While the loop runs nothing has been shut down.
LEMMA RunningLive ==
    ASSUME CuseInv, fuse.loop # "ended"
    PROVE  life.phase = "running" /\ life.live = TRUE
BY Zenon DEF CuseInv, PhasesOrdered

\* A request is dispatched or interrupted: an open has no handle yet at that time.
LEMMA DispatchKeeps ==
    ASSUME CuseInv, NEW r \in Requests, Dispatch(r) \/ Interrupt(r)
    PROVE  CuseInv'
<1>1. life.phase = "running" /\ life.live = TRUE
  BY RunningLive, Zenon DEF Dispatch, Interrupt
<1>2. fuse' = [fuse EXCEPT !.loop = "checking"]
  BY <1>1, TouchedLive, Zenon DEF Dispatch, Interrupt
<1>3. handles' = handles /\ slots' = slots /\ life' = life
  BY Zenon DEF Dispatch, Interrupt
<1>4. PICK state \in {"answered", "parked", "moved"} :
        /\ reply' = [reply EXCEPT ![r] = state]
        /\ \/ reply[r] = "none"
           \/ reply[r] = "parked" /\ state = "answered"
  BY Zenon DEF Dispatch, Interrupt
<1>5. reply \in [Requests -> Replies]
  BY Zenon DEF CuseInv, CuseTypes
<1>6. reply' \in [Requests -> Replies] /\ \A q \in Requests : reply'[q] = IF q = r THEN state ELSE reply[q]
  BY <1>4, <1>5, Zenon DEF Replies
<1>7. /\ fuse' \in FuseState /\ fuse'.files = fuse.files /\ fuse'.late = fuse.late /\ fuse'.torn = fuse.torn
  <2>1. fuse \in [loop : Loops, exit : BOOLEAN, files : SUBSET Opens, torn : BOOLEAN, late : BOOLEAN]
    BY Zenon DEF CuseInv, CuseTypes, FuseState
  <2>2. fuse' = [loop |-> "checking", exit |-> fuse.exit, files |-> fuse.files, torn |-> fuse.torn,
                 late |-> fuse.late]
    BY <1>2, <2>1, Zenon
  <2> QED BY <2>1, <2>2, Zenon DEF FuseState, Loops
<1>8. CuseTypes'
  BY <1>3, <1>6, <1>7, Zenon DEF CuseInv, CuseTypes
<1>9. PhasesOrdered'
  BY <1>1, <1>3, <1>4, <1>6, <1>7, Zenon DEF CuseInv, PhasesOrdered
<1>10. ASSUME NEW h \in Opens PROVE HandleRight(h)'
  <2>1. HandleRight(h) /\ h \in Requests
    BY Zenon DEF CuseInv, Requests
  <2> QED BY <1>3, <1>4, <1>6, <1>7, <2>1, Zenon DEF HandleRight
<1> QED BY <1>8, <1>9, <1>10, Zenon DEF CuseInv

\* The kernel releases a file: its handle was registered, and is freed here.
LEMMA ReleaseKeeps ==
    ASSUME CuseInv, NEW h \in Opens, Release(h)
    PROVE  CuseInv'
<1>1. life.phase = "running" /\ life.live = TRUE
  BY RunningLive, Zenon DEF Release
<1>2. fuse' = [fuse EXCEPT !.loop = "checking", !.files = fuse.files \ {h}]
  BY <1>1, TouchedLive, Zenon DEF Release
<1>3. /\ h \in fuse.files /\ reply' = reply /\ life' = life
      /\ handles' = handles \ {h} /\ slots' = Free(slots, handles \cap {h})
  BY Zenon DEF Release
<1>4. fuse.files \in SUBSET Opens /\ slots \in [Opens -> SlotState] /\ handles \in SUBSET Opens
  BY Zenon DEF CuseInv, CuseTypes, FuseState
<1>5. /\ fuse' \in FuseState /\ fuse'.loop = "checking" /\ fuse'.files = fuse.files \ {h}
      /\ fuse'.late = fuse.late /\ fuse'.torn = fuse.torn
  BY <1>2, <1>4, FuseMoves, Zenon DEF Loops
<1>6. /\ slots' \in [Opens -> SlotState]
      /\ \A g \in Opens : /\ slots'[g].made = slots[g].made
                          /\ g \in handles \cap {h} => slots'[g].freed = slots[g].freed + 1
                          /\ g \notin handles \cap {h} => slots'[g].freed = slots[g].freed
  BY <1>3, <1>4, FreeCounts
<1>7. CuseTypes'
  BY <1>3, <1>4, <1>5, <1>6, Zenon DEF CuseInv, CuseTypes
<1>8. PhasesOrdered'
  BY <1>1, <1>3, <1>5, Zenon DEF CuseInv, PhasesOrdered
<1>9. ASSUME NEW g \in Opens PROVE HandleRight(g)'
  <2>1. HandleRight(g)
    BY Zenon DEF CuseInv
  <2>2. CASE g = h
    <3>1. g \in handles /\ reply[g] = "answered" /\ slots[g].made = 1 /\ slots[g].freed = 0
      BY <1>1, <1>3, <2>1, <2>2, Zenon DEF HandleRight
    <3>2. slots'[g].made = 1 /\ slots'[g].freed = 1
      BY <1>6, <2>2, <3>1
    <3>3. g \notin handles' /\ g \notin fuse'.files /\ reply'[g] = "answered"
      BY <1>3, <1>5, <2>2, <3>1, Zenon
    <3> QED BY <3>2, <3>3, Zenon DEF HandleRight
  <2>3. CASE g # h
    BY <1>1, <1>3, <1>5, <1>6, <2>1, <2>3, Zenon DEF HandleRight
  <2> QED BY <2>2, <2>3, Zenon
<1> QED BY <1>7, <1>8, <1>9, Zenon DEF CuseInv

\* A reply becomes another one, of a request that is not being sent unless it holds the
\* read lock; the session, the registry and the phases stay.
LEMMA SendBeginsKeeps ==
    ASSUME CuseInv, NEW r \in Requests, SendBegins(r)
    PROVE  CuseInv'
<1>1. fuse' = fuse /\ handles' = handles /\ slots' = slots
  BY Zenon DEF SendBegins
<1>2. reply \in [Requests -> Replies]
  BY Zenon DEF CuseInv, CuseTypes
<1>3. /\ r \in Opens => reply[r] = "registered"
      /\ r \notin Opens => reply[r] \in {"parked", "moved"}
  BY Zenon DEF SendBegins
<1>4. CASE life.live = TRUE
  <2>1. reply' = [reply EXCEPT ![r] = "sending"] /\ life' = [life EXCEPT !.readers = life.readers \cup {r}]
    BY <1>4, Zenon DEF SendBegins, ReplyBecomes
  <2>2. life \in [live : BOOLEAN, readers : SUBSET Requests, phase : Phases, stops : Nat]
    BY Zenon DEF CuseInv, CuseTypes, LifeState
  <2>3. life' = [live |-> life.live, readers |-> life.readers \cup {r}, phase |-> life.phase, stops |-> life.stops]
    BY <2>1, <2>2, Zenon
  <2>4. /\ life' \in LifeState /\ life'.live = life.live /\ life'.phase = life.phase
        /\ life'.readers = life.readers \cup {r}
    BY <2>2, <2>3, Zenon DEF LifeState
  <2>5. /\ reply' \in [Requests -> Replies]
        /\ \A q \in Requests : reply'[q] = IF q = r THEN "sending" ELSE reply[q]
    BY <1>2, <2>1, Zenon DEF Replies
  <2>6. CuseTypes'
    BY <1>1, <2>4, <2>5, Zenon DEF CuseInv, CuseTypes
  <2>7. PhasesOrdered'
    BY <1>1, <1>4, <2>4, <2>5, Zenon DEF CuseInv, PhasesOrdered
  <2>8. ASSUME NEW h \in Opens PROVE HandleRight(h)'
    <3>1. HandleRight(h) /\ h \in Requests
      BY Zenon DEF CuseInv, Requests
    <3> QED BY <1>1, <1>3, <1>4, <2>4, <2>5, <3>1, Zenon DEF HandleRight
  <2> QED BY <2>6, <2>7, <2>8, Zenon DEF CuseInv
<1>5. CASE life.live # TRUE
  <2>1. PICK state \in {"failed", "dropped"} : reply' = [reply EXCEPT ![r] = state]
    BY <1>5, Zenon DEF SendBegins, ReplyBecomes
  <2>2. life' = life
    BY <1>5, Zenon DEF SendBegins
  <2>3. /\ reply' \in [Requests -> Replies]
        /\ \A q \in Requests : reply'[q] = IF q = r THEN state ELSE reply[q]
    BY <1>2, <2>1, Zenon DEF Replies
  <2>4. CuseTypes'
    BY <1>1, <2>2, <2>3, Zenon DEF CuseInv, CuseTypes
  <2>5. PhasesOrdered'
    BY <1>1, <2>2, <2>3, Zenon DEF CuseInv, PhasesOrdered
  <2>6. ASSUME NEW h \in Opens PROVE HandleRight(h)'
    <3>1. HandleRight(h) /\ h \in Requests
      BY Zenon DEF CuseInv, Requests
    <3> QED BY <1>1, <1>3, <2>2, <2>3, <3>1, Zenon DEF HandleRight
  <2> QED BY <2>4, <2>5, <2>6, Zenon DEF CuseInv
<1> QED BY <1>4, <1>5, Zenon

\* A reply being sent holds the read lock, so the session is there.
LEMMA SendEndsKeeps ==
    ASSUME CuseInv, NEW r \in Requests, SendEnds(r)
    PROVE  CuseInv'
<1>1. reply[r] = "sending" /\ handles' = handles /\ slots' = slots
  BY Zenon DEF SendEnds
<1>2. life.live = TRUE /\ life.phase # "done"
  <2>1. life.live \in BOOLEAN
    BY Zenon DEF CuseInv, CuseTypes, LifeState
  <2> QED BY <1>1, <2>1, Zenon DEF CuseInv, PhasesOrdered
<1>3. reply \in [Requests -> Replies] /\ fuse \in FuseState /\ fuse.loop \in Loops /\ fuse.files \in SUBSET Opens
  BY Zenon DEF CuseInv, CuseTypes, FuseState
<1>4. PICK state \in {"answered", "failed"}, files \in SUBSET Opens :
        /\ reply' = [reply EXCEPT ![r] = state]
        /\ fuse' \in FuseState /\ fuse'.loop = fuse.loop /\ fuse'.late = fuse.late /\ fuse'.torn = fuse.torn
        /\ fuse'.files = files
        /\ files = fuse.files \/ (r \in Opens /\ state = "answered" /\ files = fuse.files \cup {r})
  <2>1. CASE /\ reply' = [reply EXCEPT ![r] = "answered"]
             /\ fuse' = [fuse EXCEPT !.files = IF r \in Opens THEN fuse.files \cup {r} ELSE fuse.files]
    <3> DEFINE files == IF r \in Opens THEN fuse.files \cup {r} ELSE fuse.files
    <3>1. files \in SUBSET Opens
      BY <1>3, Zenon
    <3>2. fuse \in [loop : Loops, exit : BOOLEAN, files : SUBSET Opens, torn : BOOLEAN, late : BOOLEAN]
      BY <1>3, Zenon DEF FuseState
    <3>3. fuse' = [loop |-> fuse.loop, exit |-> fuse.exit, files |-> files, torn |-> fuse.torn, late |-> fuse.late]
      BY <2>1, <3>2, Zenon
    <3>4. /\ fuse' \in FuseState /\ fuse'.loop = fuse.loop /\ fuse'.late = fuse.late /\ fuse'.torn = fuse.torn
          /\ fuse'.files = files
      BY <3>1, <3>2, <3>3, Zenon DEF FuseState
    <3> QED BY <2>1, <3>1, <3>4, Zenon
  <2>2. CASE fuse' = fuse /\ \E state \in {"answered", "failed"} : reply' = [reply EXCEPT ![r] = state]
    BY <1>3, <2>2, Zenon
  <2>3. Touched(fuse) = fuse
    BY <1>2, TouchedLive, Zenon
  <2> QED BY <2>1, <2>2, <2>3, Zenon DEF SendEnds, ReplyBecomes
<1>5. /\ life' \in LifeState /\ life'.live = life.live /\ life'.phase = life.phase
      /\ life'.readers = life.readers \ {r}
  <2>1. life \in [live : BOOLEAN, readers : SUBSET Requests, phase : Phases, stops : Nat]
    BY Zenon DEF CuseInv, CuseTypes, LifeState
  <2>2. life' = [live |-> life.live, readers |-> life.readers \ {r}, phase |-> life.phase, stops |-> life.stops]
    BY <2>1, Zenon DEF SendEnds
  <2> QED BY <2>1, <2>2, Zenon DEF LifeState
<1>6. /\ reply' \in [Requests -> Replies]
      /\ \A q \in Requests : reply'[q] = IF q = r THEN state ELSE reply[q]
  BY <1>3, <1>4, Zenon DEF Replies
<1>7. CuseTypes'
  BY <1>1, <1>4, <1>5, <1>6, Zenon DEF CuseInv, CuseTypes
<1>8. PhasesOrdered'
  BY <1>1, <1>2, <1>4, <1>5, <1>6, Zenon DEF CuseInv, PhasesOrdered
<1>9. ASSUME NEW h \in Opens PROVE HandleRight(h)'
  <2>1. HandleRight(h) /\ h \in Requests
    BY Zenon DEF CuseInv, Requests
  <2>2. CASE h = r
    BY <1>1, <1>2, <1>4, <1>5, <1>6, <2>1, <2>2, Zenon DEF HandleRight
  <2>3. CASE h # r
    BY <1>1, <1>2, <1>4, <1>5, <1>6, <2>1, <2>3, Zenon DEF HandleRight
  <2> QED BY <2>2, <2>3, Zenon
<1> QED BY <1>7, <1>8, <1>9, Zenon DEF CuseInv

\* An open that was neither sent nor registered has no handle yet; its handle is
\* registered before the reply, or freed at once when the session is over.
LEMMA OpenOkKeeps ==
    ASSUME CuseInv, NEW r \in Requests, OpenOk(r)
    PROVE  CuseInv'
<1>1. r \in Opens /\ reply[r] \in {"parked", "moved"} /\ fuse' = fuse /\ life' = life
  BY Zenon DEF OpenOk
<1>2. /\ reply \in [Requests -> Replies] /\ slots \in [Opens -> SlotState] /\ handles \in SUBSET Opens
      /\ life.live \in BOOLEAN
  BY Zenon DEF CuseInv, CuseTypes, LifeState
<1>3. slots[r].made = 0 /\ slots[r].freed = 0 /\ r \notin handles /\ r \notin fuse.files
  BY <1>1 DEF CuseInv, HandleRight
<1>4. /\ Alloc(r) \in [Opens -> SlotState]
      /\ Alloc(r)[r].made = 1 /\ Alloc(r)[r].freed = 0
      /\ \A g \in Opens : g # r => Alloc(r)[g] = slots[g]
  BY <1>1, <1>3, AllocCounts
<1>5. CASE life.live = TRUE
  <2>1. reply' = [reply EXCEPT ![r] = "registered"] /\ handles' = handles \cup {r} /\ slots' = Alloc(r)
    BY <1>5, Zenon DEF OpenOk, ReplyBecomes
  <2>2. /\ reply' \in [Requests -> Replies]
        /\ \A q \in Requests : reply'[q] = IF q = r THEN "registered" ELSE reply[q]
    BY <1>2, <2>1, Zenon DEF Replies
  <2>3. CuseTypes'
    BY <1>1, <1>2, <1>4, <2>1, <2>2, Zenon DEF CuseInv, CuseTypes
  <2>4. PhasesOrdered'
    BY <1>1, <1>5, <2>1, <2>2, Zenon DEF CuseInv, PhasesOrdered
  <2>5. ASSUME NEW h \in Opens PROVE HandleRight(h)'
    <3>1. HandleRight(h) /\ h \in Requests
      BY Zenon DEF CuseInv, Requests
    <3>2. CASE h = r
      BY <1>1, <1>3, <1>4, <2>1, <2>2, <3>1, <3>2, Zenon DEF HandleRight
    <3>3. CASE h # r
      BY <1>1, <1>4, <2>1, <2>2, <3>1, <3>3, Zenon DEF HandleRight
    <3> QED BY <3>2, <3>3, Zenon
  <2> QED BY <2>3, <2>4, <2>5, Zenon DEF CuseInv
<1>6. CASE life.live = FALSE
  <2>1. reply' = [reply EXCEPT ![r] = "dropped"] /\ handles' = handles /\ slots' = Free(Alloc(r), {r})
    BY <1>6, Zenon DEF OpenOk, ReplyBecomes
  <2>2. /\ reply' \in [Requests -> Replies]
        /\ \A q \in Requests : reply'[q] = IF q = r THEN "dropped" ELSE reply[q]
    BY <1>2, <2>1, Zenon DEF Replies
  <2>3. /\ slots' \in [Opens -> SlotState]
        /\ \A g \in Opens : /\ slots'[g].made = Alloc(r)[g].made
                            /\ g \in {r} => slots'[g].freed = Alloc(r)[g].freed + 1
                            /\ g \notin {r} => slots'[g].freed = Alloc(r)[g].freed
    BY <1>4, <2>1, FreeCounts
  <2>4. CuseTypes'
    BY <1>1, <1>2, <2>1, <2>2, <2>3, Zenon DEF CuseInv, CuseTypes
  <2>5. PhasesOrdered'
    BY <1>1, <2>1, <2>2, Zenon DEF CuseInv, PhasesOrdered
  <2>6. ASSUME NEW h \in Opens PROVE HandleRight(h)'
    <3>1. HandleRight(h) /\ h \in Requests
      BY Zenon DEF CuseInv, Requests
    <3>2. CASE h = r
      <4>1. slots'[h].made = 1 /\ slots'[h].freed = 1
        BY <1>1, <1>4, <2>3, <3>2
      <4> QED BY <1>1, <1>3, <1>6, <2>1, <2>2, <3>1, <3>2, <4>1, Zenon DEF HandleRight
    <3>3. CASE h # r
      <4>1. slots'[h].made = slots[h].made /\ slots'[h].freed = slots[h].freed
        BY <1>4, <2>3, <3>3, Zenon
      <4> QED BY <1>1, <2>1, <2>2, <3>1, <3>3, <4>1, Zenon DEF HandleRight
    <3> QED BY <3>2, <3>3, Zenon
  <2> QED BY <2>4, <2>5, <2>6, Zenon DEF CuseInv
<1> QED BY <1>2, <1>5, <1>6, Zenon

\* An open that is refused never had a handle.
LEMMA OpenRefusedKeeps ==
    ASSUME CuseInv, NEW r \in Requests, OpenRefused(r)
    PROVE  CuseInv'
<1>1. r \in Opens /\ reply[r] \in {"parked", "moved"} /\ handles' = handles /\ slots' = slots /\ life' = life
  BY Zenon DEF OpenRefused
<1>2. reply \in [Requests -> Replies]
  BY Zenon DEF CuseInv, CuseTypes
<1>3. fuse' = fuse
  <2>1. CASE life.live
    <3>1. life.phase # "done"
      BY <2>1, Zenon DEF CuseInv, PhasesOrdered, CuseTypes, LifeState
    <3> QED BY <2>1, <3>1, TouchedLive, Zenon DEF OpenRefused
  <2>2. CASE ~life.live
    BY <2>2, Zenon DEF OpenRefused
  <2> QED BY <2>1, <2>2, Zenon
<1>4. PICK state \in {"answered", "dropped"} : reply' = [reply EXCEPT ![r] = state]
  BY Zenon DEF OpenRefused, ReplyBecomes
<1>5. /\ reply' \in [Requests -> Replies]
      /\ \A q \in Requests : reply'[q] = IF q = r THEN state ELSE reply[q]
  BY <1>2, <1>4, Zenon DEF Replies
<1>6. CuseTypes'
  BY <1>1, <1>3, <1>5, Zenon DEF CuseInv, CuseTypes
<1>7. PhasesOrdered'
  BY <1>1, <1>3, <1>5, Zenon DEF CuseInv, PhasesOrdered
<1>8. ASSUME NEW h \in Opens PROVE HandleRight(h)'
  <2>1. HandleRight(h) /\ h \in Requests
    BY Zenon DEF CuseInv, Requests
  <2> QED BY <1>1, <1>3, <1>5, <2>1, Zenon DEF HandleRight
<1> QED BY <1>6, <1>7, <1>8, Zenon DEF CuseInv

\* Whoever finds the handle registered frees it.
LEMMA OpenFailedKeeps ==
    ASSUME CuseInv, NEW r \in Requests, OpenFailed(r)
    PROVE  CuseInv'
<1>1. /\ reply[r] = "failed" /\ fuse' = fuse /\ life' = life /\ handles' = handles \ {r}
      /\ slots' = Free(slots, handles \cap {r}) /\ reply' = [reply EXCEPT ![r] = "dropped"]
  BY Zenon DEF OpenFailed, ReplyBecomes
<1>2. reply \in [Requests -> Replies] /\ slots \in [Opens -> SlotState] /\ handles \in SUBSET Opens
  BY Zenon DEF CuseInv, CuseTypes
<1>3. /\ slots' \in [Opens -> SlotState]
      /\ \A g \in Opens : /\ slots'[g].made = slots[g].made
                          /\ g \in handles \cap {r} => slots'[g].freed = slots[g].freed + 1
                          /\ g \notin handles \cap {r} => slots'[g].freed = slots[g].freed
  BY <1>1, <1>2, FreeCounts
<1>4. /\ reply' \in [Requests -> Replies]
      /\ \A q \in Requests : reply'[q] = IF q = r THEN "dropped" ELSE reply[q]
  BY <1>1, <1>2, Zenon DEF Replies
<1>5. CuseTypes'
  BY <1>1, <1>2, <1>3, <1>4, Zenon DEF CuseInv, CuseTypes
<1>6. PhasesOrdered'
  BY <1>1, <1>4, Zenon DEF CuseInv, PhasesOrdered
<1>7. ASSUME NEW h \in Opens PROVE HandleRight(h)'
  <2>1. HandleRight(h) /\ h \in Requests
    BY Zenon DEF CuseInv, Requests
  <2>2. CASE h = r
    <3>1. h \notin fuse.files /\ h \notin handles' /\ reply'[h] = "dropped"
      BY <1>1, <1>4, <2>1, <2>2, Zenon DEF HandleRight
    <3>2. slots'[h].made \in {0, 1} /\ slots'[h].freed = slots'[h].made
      <4>1. CASE h \in handles
        <5>1. slots[h].made = 1 /\ slots[h].freed = 0
          BY <2>1, <4>1, Zenon DEF HandleRight
        <5> QED BY <1>3, <2>2, <4>1, <5>1
      <4>2. CASE h \notin handles
        <5>1. slots[h].made \in {0, 1} /\ slots[h].freed = slots[h].made
          BY <2>1, <4>2, Zenon DEF HandleRight
        <5> QED BY <1>3, <4>2, <5>1, Zenon
      <4> QED BY <4>1, <4>2, Zenon
    <3> QED BY <1>1, <3>1, <3>2, Zenon DEF HandleRight
  <2>3. CASE h # r
    <3>1. /\ slots'[h].made = slots[h].made /\ slots'[h].freed = slots[h].freed
          /\ reply'[h] = reply[h] /\ (h \in handles' <=> h \in handles)
      BY <1>1, <1>3, <1>4, <2>1, <2>3, Zenon
    <3> QED BY <1>1, <2>1, <3>1, Zenon DEF HandleRight
  <2> QED BY <2>2, <2>3, Zenon
<1> QED BY <1>5, <1>6, <1>7, Zenon DEF CuseInv

-------------------------------------------------------------------------------
(* Shutdown.                                                                 *)

\* stop sets the exit flag and wakes the loop; nothing is torn down by it.
LEMMA StopKeeps ==
    ASSUME CuseInv, Stop
    PROVE  CuseInv'
<1>1. life.phase = "running" /\ reply' = reply /\ handles' = handles /\ slots' = slots
  BY Zenon DEF Stop
<1>2. fuse \in [loop : Loops, exit : BOOLEAN, files : SUBSET Opens, torn : BOOLEAN, late : BOOLEAN]
  BY Zenon DEF CuseInv, CuseTypes, FuseState
<1>3. PICK l \in Loops : fuse' = [loop |-> l, exit |-> TRUE, files |-> fuse.files, torn |-> fuse.torn,
                                  late |-> fuse.late]
  <2>1. PICK l \in Loops : fuse' = [fuse EXCEPT !.exit = TRUE, !.loop = l]
    BY <1>2, Zenon DEF Stop, Loops
  <2> QED BY <1>2, <2>1, Zenon
<1>4. fuse' \in FuseState /\ fuse'.files = fuse.files /\ fuse'.late = fuse.late /\ fuse'.torn = fuse.torn
  BY <1>2, <1>3, Zenon DEF FuseState
<1>5. life' \in LifeState /\ life'.live = life.live /\ life'.phase = life.phase /\ life'.readers = life.readers
  <2>1. life \in [live : BOOLEAN, readers : SUBSET Requests, phase : Phases, stops : Nat]
    BY Zenon DEF CuseInv, CuseTypes, LifeState
  <2>2. life' = [live |-> life.live, readers |-> life.readers, phase |-> life.phase, stops |-> life.stops + 1]
    BY <2>1, Zenon DEF Stop
  <2> QED BY <2>1, <2>2 DEF LifeState
<1>6. CuseTypes'
  BY <1>1, <1>4, <1>5, Zenon DEF CuseInv, CuseTypes
<1>7. PhasesOrdered'
  BY <1>1, <1>4, <1>5, Zenon DEF CuseInv, PhasesOrdered
<1>8. ASSUME NEW h \in Opens PROVE HandleRight(h)'
  <2>1. HandleRight(h)
    BY Zenon DEF CuseInv
  <2> QED BY <1>1, <1>4, <1>5, <2>1, Zenon DEF HandleRight
<1> QED BY <1>6, <1>7, <1>8, Zenon DEF CuseInv

\* The phase of shutdown, and the liveness flag with it.
LEMMA PhaseMoves ==
    ASSUME CuseInv, NEW p \in Phases, NEW live \in BOOLEAN,
           life' = [life EXCEPT !.phase = p, !.live = live]
    PROVE  life' \in LifeState /\ life'.phase = p /\ life'.live = live /\ life'.readers = life.readers
<1>1. life \in [live : BOOLEAN, readers : SUBSET Requests, phase : Phases, stops : Nat]
  BY Zenon DEF CuseInv, CuseTypes, LifeState
<1>2. life' = [live |-> live, readers |-> life.readers, phase |-> p, stops |-> life.stops]
  BY <1>1, Zenon
<1> QED BY <1>1, <1>2, Zenon DEF LifeState

\* A phase that leaves the liveness flag alone.
LEMMA PhaseOnly ==
    ASSUME CuseInv, NEW p \in Phases, life' = [life EXCEPT !.phase = p]
    PROVE  life' \in LifeState /\ life'.phase = p /\ life'.live = life.live /\ life'.readers = life.readers
<1>1. life \in [live : BOOLEAN, readers : SUBSET Requests, phase : Phases, stops : Nat]
  BY Zenon DEF CuseInv, CuseTypes, LifeState
<1>2. life' = [live |-> life.live, readers |-> life.readers, phase |-> p, stops |-> life.stops]
  BY <1>1, Zenon
<1> QED BY <1>1, <1>2, Zenon DEF LifeState

\* Dropping the device answers the parked replies, while the session is there.
LEMMA DropDeviceKeeps ==
    ASSUME CuseInv, DropDevice
    PROVE  CuseInv'
<1>1. /\ life.phase = "running" /\ fuse.loop = "ended" /\ handles' = handles /\ slots' = slots
      /\ life' = [life EXCEPT !.phase = "dropped"]
      /\ reply' = [r \in Requests |-> IF reply[r] = "parked" THEN "answered" ELSE reply[r]]
  BY Zenon DEF DropDevice
<1>2. fuse' = fuse
  BY <1>1, TouchedLive, Zenon DEF DropDevice
<1>3. /\ life' \in LifeState /\ life'.phase = "dropped" /\ life'.live = life.live
      /\ life'.readers = life.readers
  BY <1>1, PhaseOnly, Zenon DEF Phases
<1>4. /\ reply' \in [Requests -> Replies]
      /\ \A q \in Requests : reply'[q] = reply[q] \/ (reply[q] = "parked" /\ reply'[q] = "answered")
  BY <1>1, Zenon DEF CuseInv, CuseTypes, Replies
<1>5. CuseTypes'
  BY <1>1, <1>2, <1>3, <1>4, Zenon DEF CuseInv, CuseTypes
<1>6. PhasesOrdered'
  BY <1>1, <1>2, <1>3, <1>4, Zenon DEF CuseInv, PhasesOrdered
<1>7. ASSUME NEW h \in Opens PROVE HandleRight(h)'
  <2>1. HandleRight(h) /\ h \in Requests
    BY Zenon DEF CuseInv, Requests
  <2> QED BY <1>1, <1>2, <1>3, <1>4, <2>1, Zenon DEF HandleRight
<1> QED BY <1>5, <1>6, <1>7, Zenon DEF CuseInv

\* Replies are forbidden when none is being sent.
LEMMA KillKeeps ==
    ASSUME CuseInv, Kill
    PROVE  CuseInv'
<1>1. /\ life.phase = "dropped" /\ life.readers = {} /\ life' = [life EXCEPT !.phase = "killed", !.live = FALSE]
      /\ fuse' = fuse /\ reply' = reply /\ handles' = handles /\ slots' = slots
  BY Zenon DEF Kill
<1>2. life' \in LifeState /\ life'.phase = "killed" /\ life'.live = FALSE /\ life'.readers = {}
  BY <1>1, PhaseMoves, Zenon DEF Phases
<1>3. CuseTypes'
  BY <1>1, <1>2, Zenon DEF CuseInv, CuseTypes
<1>4. PhasesOrdered'
  BY <1>1, <1>2, Zenon DEF CuseInv, PhasesOrdered
<1>5. ASSUME NEW h \in Opens PROVE HandleRight(h)'
  <2>1. HandleRight(h)
    BY Zenon DEF CuseInv
  <2> QED BY <1>1, <1>2, <2>1, Zenon DEF HandleRight
<1> QED BY <1>3, <1>4, <1>5, Zenon DEF CuseInv

\* What is still registered is freed, once.
LEMMA DrainKeeps ==
    ASSUME CuseInv, Drain
    PROVE  CuseInv'
<1>1. /\ life.phase = "killed" /\ life' = [life EXCEPT !.phase = "drained"]
      /\ fuse' = fuse /\ reply' = reply /\ handles' = {} /\ slots' = Free(slots, handles)
  BY Zenon DEF Drain
<1>2. /\ life' \in LifeState /\ life'.phase = "drained" /\ life'.live = life.live
      /\ life'.readers = life.readers
  BY <1>1, PhaseOnly, Zenon DEF Phases
<1>3. life.live = FALSE /\ slots \in [Opens -> SlotState]
  BY <1>1, Zenon DEF CuseInv, PhasesOrdered, CuseTypes, LifeState
<1>4. /\ slots' \in [Opens -> SlotState]
      /\ \A g \in Opens : /\ slots'[g].made = slots[g].made
                          /\ g \in handles => slots'[g].freed = slots[g].freed + 1
                          /\ g \notin handles => slots'[g].freed = slots[g].freed
  BY <1>1, <1>3, FreeCounts, Zenon
<1>5. CuseTypes'
  BY <1>1, <1>2, <1>4, Zenon DEF CuseInv, CuseTypes
<1>6. PhasesOrdered'
  BY <1>1, <1>2, Zenon DEF CuseInv, PhasesOrdered
<1>7. ASSUME NEW h \in Opens PROVE HandleRight(h)'
  <2>1. HandleRight(h)
    BY Zenon DEF CuseInv
  <2>2. slots'[h].made = slots[h].made /\ slots'[h].made \in {0, 1} /\ slots'[h].freed = slots'[h].made
    <3>1. CASE h \in handles
      <4>1. slots[h].made = 1 /\ slots[h].freed = 0
        BY <2>1, <3>1, Zenon DEF HandleRight
      <4> QED BY <1>4, <3>1, <4>1
    <3>2. CASE h \notin handles
      BY <1>4, <2>1, <3>2, Zenon DEF HandleRight
    <3> QED BY <3>1, <3>2, Zenon
  <2> QED BY <1>1, <1>2, <1>3, <2>1, <2>2, Zenon DEF HandleRight
<1> QED BY <1>5, <1>6, <1>7, Zenon DEF CuseInv

\* The session goes when no reply can reach it any more.
LEMMA TeardownKeeps ==
    ASSUME CuseInv, Teardown
    PROVE  CuseInv'
<1>1. /\ life.phase = "drained" /\ life' = [life EXCEPT !.phase = "done"]
      /\ fuse' = [fuse EXCEPT !.torn = TRUE, !.files = {}]
      /\ reply' = reply /\ handles' = handles /\ slots' = slots
  BY Zenon DEF Teardown
<1>2. life' \in LifeState /\ life'.phase = "done" /\ life'.live = life.live /\ life'.readers = life.readers
  BY <1>1, PhaseOnly, Zenon DEF Phases
<1>3. fuse' \in FuseState /\ fuse'.files = {} /\ fuse'.late = fuse.late /\ fuse'.loop = fuse.loop
  <2>1. fuse \in [loop : Loops, exit : BOOLEAN, files : SUBSET Opens, torn : BOOLEAN, late : BOOLEAN]
    BY Zenon DEF CuseInv, CuseTypes, FuseState
  <2>2. fuse' = [loop |-> fuse.loop, exit |-> fuse.exit, files |-> {}, torn |-> TRUE, late |-> fuse.late]
    BY <1>1, <2>1, Zenon
  <2> QED BY <2>1, <2>2, Zenon DEF FuseState
<1>4. CuseTypes'
  BY <1>1, <1>2, <1>3, Zenon DEF CuseInv, CuseTypes
<1>5. PhasesOrdered'
  BY <1>1, <1>2, <1>3, Zenon DEF CuseInv, PhasesOrdered
<1>6. ASSUME NEW h \in Opens PROVE HandleRight(h)'
  <2>1. HandleRight(h)
    BY Zenon DEF CuseInv
  <2> QED BY <1>1, <1>2, <1>3, <2>1, Zenon DEF HandleRight
<1> QED BY <1>4, <1>5, <1>6, Zenon DEF CuseInv

-------------------------------------------------------------------------------
\* At the start nothing is open and nothing is parked.
LEMMA CuseInitial == CuseInit => CuseInv
<1> SUFFICES ASSUME CuseInit PROVE CuseInv
  BY Zenon
<1>1. fuse \in FuseState /\ fuse.late = FALSE /\ fuse.torn = FALSE /\ fuse.files = {}
  BY Zenon DEF CuseInit, FuseState, Loops
<1>2. life \in LifeState /\ life.live = TRUE /\ life.phase = "running" /\ life.readers = {}
  BY Zenon DEF CuseInit, LifeState, Phases
<1>3. /\ reply \in [Requests -> Replies] /\ \A r \in Requests : reply[r] = "none"
  BY Zenon DEF CuseInit, Replies
<1>4. handles = {} /\ slots \in [Opens -> SlotState] /\ \A h \in Opens : slots[h].made = 0 /\ slots[h].freed = 0
  BY Zenon DEF CuseInit, SlotState
<1>5. CuseTypes
  BY <1>1, <1>2, <1>3, <1>4, Zenon DEF CuseTypes
<1>6. PhasesOrdered
  BY <1>1, <1>2, <1>3, <1>4, Zenon DEF PhasesOrdered
<1>7. \A h \in Opens : HandleRight(h)
  BY <1>1, <1>3, <1>4, Zenon DEF HandleRight, Requests
<1> QED BY <1>5, <1>6, <1>7, Zenon DEF CuseInv

\* Every step keeps the invariant.
LEMMA CuseStep == CuseInv /\ [CuseNext]_cuseVars => CuseInv'
<1> SUFFICES ASSUME CuseInv, [CuseNext]_cuseVars PROVE CuseInv'
  BY Zenon
<1>1. CASE LoopChecks \/ LoopBlocks
  BY <1>1, LoopKeeps, Zenon
<1>2. CASE Stop
  BY <1>2, StopKeeps, Zenon
<1>3. CASE DropDevice
  BY <1>3, DropDeviceKeeps, Zenon
<1>4. CASE Kill
  BY <1>4, KillKeeps, Zenon
<1>5. CASE Drain
  BY <1>5, DrainKeeps, Zenon
<1>6. CASE Teardown
  BY <1>6, TeardownKeeps, Zenon
<1>7. ASSUME NEW r \in Requests, Dispatch(r) \/ Interrupt(r) PROVE CuseInv'
  BY <1>7, DispatchKeeps, Zenon
<1>8. ASSUME NEW r \in Requests, SendBegins(r) PROVE CuseInv'
  BY <1>8, SendBeginsKeeps, Zenon
<1>9. ASSUME NEW r \in Requests, SendEnds(r) PROVE CuseInv'
  BY <1>9, SendEndsKeeps, Zenon
<1>10. ASSUME NEW r \in Requests, OpenOk(r) PROVE CuseInv'
  BY <1>10, OpenOkKeeps, Zenon
<1>11. ASSUME NEW r \in Requests, OpenRefused(r) PROVE CuseInv'
  BY <1>11, OpenRefusedKeeps, Zenon
<1>12. ASSUME NEW r \in Requests, OpenFailed(r) PROVE CuseInv'
  BY <1>12, OpenFailedKeeps, Zenon
<1>13. ASSUME NEW h \in Opens, Release(h) PROVE CuseInv'
  BY <1>13, ReleaseKeeps, Zenon
<1>14. CASE UNCHANGED cuseVars
  BY <1>14, Zenon DEF cuseVars, CuseInv, CuseTypes, PhasesOrdered, HandleRight
<1> QED BY <1>1, <1>2, <1>3, <1>4, <1>5, <1>6, <1>7, <1>8, <1>9, <1>10, <1>11, <1>12, <1>13, <1>14, Zenon
        DEF CuseNext

\* TornDownCleanly for any requests, open files and calls of stop: no reply reaches
\* libfuse after the teardown, and every handle is freed exactly once, never while the
\* kernel can still name it.
THEOREM SpecTornDownCleanly == CuseSpec => []TornDownCleanly
BY CuseInitial, CuseStep, CuseInvImplies, PTL DEF CuseSpec

-------------------------------------------------------------------------------
(* Leases. The invariant adds to LeasesExclusive that transactions of a host *)
(* are numbered upwards, and that an acknowledgement the host may still      *)
(* believe names an address the table has for it: nothing the host sent      *)
(* since has released it.                                                    *)

Modes == {"init", "selecting", "requesting", "bound"}
HostType == [mode : Modes, address : Pool \cup {None}, xid : Nat]
ReplyType == [kind : {"OFFER", "ACK", "NAK"}, yiaddr : Pool \cup {None}, xid : Nat]
PacketType ==
    [host : Hosts, kind : {"DISCOVER", "REQUEST", "RELEASE", "DECLINE"}, xid : Nat,
     requested : 0..Slots \cup {None}, ciaddr : Pool \cup {None},
     server : {None, "us", "other"}, relayed : BOOLEAN]
LeaseValues == {ClientKey[h] : h \in Hosts} \cup {None, EmptyKey}

DhcpTypes ==
    /\ leases \in [Pool -> LeaseValues]
    /\ hosts \in [Hosts -> HostType]
    /\ rx \in PacketType \cup {None}
    /\ replies \in [Hosts -> ReplyType \cup {None}]

\* The table names a key once.
KeysOnce == \A h \in Hosts : \A s, t \in Pool :
    leases[s] = ClientKey[h] /\ leases[t] = ClientKey[h] => s = t

\* The reply on its way to h answers its newest transaction.
Current(h) == replies[h] # None /\ replies[h].xid = hosts[h].xid
Sent(h) == rx # None /\ rx.host = h

\* Nothing is newer than the client's transaction; while it waits, an answer to
\* that has left no packet of the client behind.
Transactions ==
    \A h \in Hosts :
      /\ replies[h] # None => replies[h].xid <= hosts[h].xid
      /\ Sent(h) => rx.xid <= hosts[h].xid
      /\ Sent(h) /\ hosts[h].mode # "init" => ~Current(h)

\* An acknowledgement the client will take is still what the table says.
AcksHold ==
    \A h \in Hosts :
      Current(h) /\ replies[h].kind = "ACK" /\ hosts[h].mode \in {"requesting", "bound"}
        => replies[h].yiaddr \in Pool /\ leases[replies[h].yiaddr] = ClientKey[h]

\* A client that uses an address asks for nothing but that one.
BoundHold ==
    \A h \in Hosts : hosts[h].mode = "bound" =>
      /\ hosts[h].address \in Pool /\ leases[hosts[h].address] = ClientKey[h]
      /\ Sent(h) => rx.kind = "REQUEST" /\ rx.requested = None /\ rx.ciaddr = hosts[h].address

DhcpInv == DhcpTypes /\ KeysOnce /\ Transactions /\ AcksHold /\ BoundHold

-------------------------------------------------------------------------------
\* A set of naturals that is not empty has a least element.
LEMMA LeastOf ==
    ASSUME NEW S \in SUBSET Nat, S # {}
    PROVE  \E m \in S : \A k \in S : m <= k
<1> DEFINE Less == OpToRel(<, Nat)
<1>1. IsWellFoundedOn(Less, Nat)
  BY NatLessThanWellFounded, Zenon
<1>2. \A k, m \in Nat : <<k, m>> \in Less <=> k < m
  BY Zenon DEF OpToRel
<1> HIDE DEF Less
<1>3. PICK m \in S : \A k \in S : ~ (<<k, m>> \in Less)
  BY <1>1, WFMin, Zenon
<1>4. \A k \in S : ~ (k < m)
  BY <1>2, <1>3, Zenon
<1> QED BY <1>4

\* The addresses of the pool.
LEMMA PoolNat == Pool \subseteq Nat /\ None \notin Pool /\ IsFiniteSet(Pool)
<1>1. Slots \in Nat /\ None \notin 0..Slots
  BY DhcpAssumption, Zenon
<1>2. Pool \subseteq Nat /\ Pool \subseteq 0..Slots
  BY <1>1 DEF Pool
<1>3. IsFiniteSet(Pool)
  BY <1>1, FS_Interval DEF Pool
<1> QED BY <1>1, <1>2, <1>3, Zenon

\* The lowest slot of a set is one of it.
LEMMA LowestIn ==
    ASSUME NEW S \in SUBSET Pool
    PROVE  IF S = {} THEN LowestOf(S) = None ELSE LowestOf(S) \in S /\ LowestOf(S) # None
<1>1. CASE S = {}
  BY <1>1, Zenon DEF LowestOf
<1>2. CASE S # {}
  <2>1. \E m \in S : \A k \in S : m <= k
    BY <1>2, PoolNat, LeastOf, Zenon
  <2>2. LowestOf(S) \in S
    BY <1>2, <2>1, Zenon DEF LowestOf
  <2> QED BY <1>2, <2>2, PoolNat, Zenon
<1> QED BY <1>1, <1>2, Zenon

\* find_client_lease: the lease of the client, if it has one.
LEMMA FoundLease ==
    ASSUME NEW t, NEW key
    PROVE  LET f == FindClientLease(t, key)
           IN  \/ f = None /\ \A s \in Pool : t[s] # key
               \/ f \in Pool /\ f # None /\ t[f] = key
<1> DEFINE S == {s \in Pool : t[s] = key}
<1>1. S \in SUBSET Pool /\ FindClientLease(t, key) = LowestOf(S)
  BY Zenon DEF FindClientLease
<1>2. IF S = {} THEN LowestOf(S) = None ELSE LowestOf(S) \in S /\ LowestOf(S) # None
  BY <1>1, LowestIn, Zenon
<1>3. CASE S = {}
  BY <1>1, <1>2, <1>3, Zenon
<1>4. CASE S # {}
  BY <1>1, <1>2, <1>4, Zenon
<1> QED BY <1>3, <1>4, Zenon

\* existing_or_allocate_lease: the client's lease, or a free one.
LEMMA Allocated ==
    ASSUME NEW t, NEW key
    PROVE  LET f == ExistingOrAllocateLease(t, key)
           IN  f # None => f \in Pool /\ (t[f] = key \/ (t[f] = None /\ \A s \in Pool : t[s] # key))
<1> DEFINE S == {s \in Pool : t[s] = None}
<1>1. S \in SUBSET Pool
  BY Zenon
<1>2. IF S = {} THEN LowestOf(S) = None ELSE LowestOf(S) \in S /\ LowestOf(S) # None
  BY <1>1, LowestIn, Zenon
<1>3. LowestOf(S) # None => LowestOf(S) \in Pool /\ t[LowestOf(S)] = None
  BY <1>2, Zenon
<1>4. \/ FindClientLease(t, key) = None /\ \A s \in Pool : t[s] # key
      \/ FindClientLease(t, key) \in Pool /\ FindClientLease(t, key) # None
         /\ t[FindClientLease(t, key)] = key
  BY FoundLease, Zenon
<1> QED BY <1>3, <1>4, Zenon DEF ExistingOrAllocateLease

-------------------------------------------------------------------------------
\* A step of client h: it sends or loses a packet, drops its reply, and either
\* stops using an address or uses the one the table names it for.
LEMMA HostStep ==
    ASSUME NEW h \in Hosts, NEW new \in HostType, DhcpInv,
           hosts' = [hosts EXCEPT ![h] = new], leases' = leases,
           replies' = replies \/ replies' = [replies EXCEPT ![h] = None],
           rx' = rx \/ (rx' \in PacketType /\ rx'.host = h /\ rx'.xid <= new.xid),
           new.xid >= hosts[h].xid,
           new.mode # "init" => replies'[h] = None \/ new.xid > hosts[h].xid,
           new.mode = "bound" =>
             /\ new.address \in Pool /\ leases[new.address] = ClientKey[h]
             /\ Sent(h)' => rx'.kind = "REQUEST" /\ rx'.requested = None /\ rx'.ciaddr = new.address
    PROVE  DhcpInv'
<1>1. /\ hosts \in [Hosts -> HostType] /\ replies \in [Hosts -> ReplyType \cup {None}]
      /\ rx \in PacketType \cup {None}
  BY Zenon DEF DhcpInv, DhcpTypes
<1>2. /\ hosts' \in [Hosts -> HostType] /\ hosts'[h] = new
      /\ \A g \in Hosts : g # h => hosts'[g] = hosts[g]
  BY <1>1, Zenon
<1>3. /\ replies' \in [Hosts -> ReplyType \cup {None}]
      /\ replies'[h] # None => replies'[h] = replies[h]
      /\ \A g \in Hosts : g # h => replies'[g] = replies[g]
  BY <1>1, Zenon
<1>4. DhcpTypes'
  BY <1>1, <1>2, <1>3, Zenon DEF DhcpInv, DhcpTypes
<1>5. KeysOnce'
  BY Zenon DEF DhcpInv, KeysOnce
<1>6. \A g \in Hosts : g # h /\ Sent(g)' => Sent(g) /\ rx' = rx
  BY Zenon DEF Sent
<1>7. \A g \in Hosts : g # h => (Current(g)' <=> Current(g))
  BY <1>2, <1>3, Zenon DEF Current
<1>8. Current(h)' => new.mode = "init"
  <2>1. SUFFICES ASSUME Current(h)', new.mode # "init" PROVE FALSE
    BY Zenon
  <2>2. replies'[h] = replies[h] /\ replies[h] # None /\ replies[h].xid = new.xid
    BY <1>2, <1>3, <2>1, Zenon DEF Current
  <2>3. replies[h].xid <= hosts[h].xid /\ new.xid > hosts[h].xid
    BY <2>1, <2>2, Zenon DEF DhcpInv, Transactions, Current
  <2>4. replies[h].xid \in Nat /\ hosts[h].xid \in Nat /\ new.xid \in Nat
    BY <1>1, <2>2, Zenon DEF HostType, ReplyType
  <2> QED BY <2>2, <2>3, <2>4
<1>9. Transactions'
  <2>1. ASSUME NEW g \in Hosts, g # h
        PROVE  /\ replies'[g] # None => replies'[g].xid <= hosts'[g].xid
               /\ Sent(g)' => rx'.xid <= hosts'[g].xid
               /\ Sent(g)' /\ hosts'[g].mode # "init" => ~Current(g)'
    BY <1>2, <1>3, <1>6, <1>7, <2>1, Zenon DEF DhcpInv, Transactions
  <2>2. replies'[h] # None => replies'[h].xid <= hosts'[h].xid
    <3>1. SUFFICES ASSUME replies'[h] # None PROVE replies[h].xid <= new.xid
      BY <1>2, <1>3, Zenon
    <3>2. replies[h].xid <= hosts[h].xid
      BY <1>3, <3>1, Zenon DEF DhcpInv, Transactions
    <3>3. replies[h].xid \in Nat /\ hosts[h].xid \in Nat /\ new.xid \in Nat
      BY <1>1, <1>3, <3>1, Zenon DEF HostType, ReplyType
    <3> QED BY <3>2, <3>3
  <2>3. Sent(h)' => rx'.xid <= hosts'[h].xid
    <3>1. SUFFICES ASSUME Sent(h)', rx' = rx PROVE rx.xid <= new.xid
      BY <1>2, Zenon
    <3>2. rx.xid <= hosts[h].xid /\ rx \in PacketType
      BY <1>1, <3>1, Zenon DEF DhcpInv, Transactions, Sent
    <3>3. rx.xid \in Nat /\ hosts[h].xid \in Nat /\ new.xid \in Nat
      BY <1>1, <3>2, Zenon DEF HostType, PacketType
    <3> QED BY <3>2, <3>3
  <2>4. Sent(h)' /\ hosts'[h].mode # "init" => ~Current(h)'
    BY <1>2, <1>8, Zenon
  <2> QED BY <2>1, <2>2, <2>3, <2>4, Zenon DEF Transactions
<1>10. AcksHold'
  BY <1>2, <1>3, <1>7, <1>8 DEF DhcpInv, AcksHold
<1>11. BoundHold'
  BY <1>2, <1>6 DEF DhcpInv, BoundHold
<1> QED BY <1>4, <1>5, <1>9, <1>10, <1>11, Zenon DEF DhcpInv

\* A packet served: the table may change for its sender alone.
LEMMA ServeStep ==
    ASSUME NEW p \in Hosts, DhcpInv, Sent(p), rx' = None, hosts' = hosts,
           leases' \in [Pool -> LeaseValues], KeysOnce',
           \A s \in Pool, g \in Hosts : g # p /\ leases[s] = ClientKey[g] => leases'[s] = ClientKey[g],
           replies' \in [Hosts -> ReplyType \cup {None}],
           \A g \in Hosts : g # p => replies'[g] = replies[g],
           \/ replies'[p] = replies[p]
           \/ /\ replies'[p].xid = rx.xid
              /\ replies'[p].kind = "ACK" => /\ replies'[p].yiaddr \in Pool
                                             /\ leases'[replies'[p].yiaddr] = ClientKey[p],
           hosts[p].mode = "bound" => leases'[hosts[p].address] = ClientKey[p]
    PROVE  DhcpInv'
<1>1. DhcpTypes'
  BY Zenon DEF DhcpInv, DhcpTypes
<1>2. \A g \in Hosts : ~Sent(g)'
  BY Zenon DEF Sent
<1>3. Transactions'
  BY <1>2, Zenon DEF DhcpInv, Transactions, Sent
<1>4. AcksHold'
  <2>1. SUFFICES ASSUME NEW g \in Hosts, Current(g)', replies'[g].kind = "ACK",
                        hosts'[g].mode \in {"requesting", "bound"}
                 PROVE  replies'[g].yiaddr \in Pool /\ leases'[replies'[g].yiaddr] = ClientKey[g]
    BY Zenon DEF AcksHold
  <2>2. CASE g # p
    BY <2>1, <2>2 DEF DhcpInv, AcksHold, Current
  <2>3. CASE g = p /\ replies'[p] = replies[p]
    BY <2>1, <2>3, Zenon DEF DhcpInv, Transactions, Current
  <2> QED BY <2>1, <2>2, <2>3, Zenon
<1>5. BoundHold'
  BY <1>2 DEF DhcpInv, BoundHold
<1> QED BY <1>1, <1>3, <1>4, <1>5, Zenon DEF DhcpInv

-------------------------------------------------------------------------------
\* The parts of a host.
LEMMA HostParts ==
    ASSUME NEW h \in Hosts, DhcpInv
    PROVE  hosts[h].mode \in Modes /\ hosts[h].address \in Pool \cup {None} /\ hosts[h].xid \in Nat
<1>1. hosts[h] \in HostType
  BY Zenon DEF DhcpInv, DhcpTypes
<1> QED BY <1>1, Zenon DEF HostType

\* A host as an action leaves it.
LEMMA NewHost ==
    ASSUME NEW m \in Modes, NEW a \in Pool \cup {None}, NEW x \in Nat
    PROVE  [mode |-> m, address |-> a, xid |-> x] \in HostType
BY Zenon DEF HostType

Kinds == {"DISCOVER", "REQUEST", "RELEASE", "DECLINE"}

\* What a client sends is a packet of its own.
LEMMA PacketTyped ==
    ASSUME NEW h \in Hosts, NEW kind \in Kinds, NEW x \in Nat, NEW r \in 0..Slots \cup {None},
           NEW c \in Pool \cup {None}, NEW srv \in {None, "us", "other"}, NEW b \in BOOLEAN
    PROVE  [host |-> h, kind |-> kind, xid |-> x, requested |-> r, ciaddr |-> c, server |-> srv,
            relayed |-> b] \in PacketType
BY Zenon DEF PacketType, Kinds

\* A packet with nothing requested.
LEMMA PlainPacket ==
    ASSUME NEW h \in Hosts, NEW kind \in Kinds, NEW x \in Nat
    PROVE  LET p == Packet(h, kind, x)
           IN  p \in PacketType /\ p.host = h /\ p.xid = x /\ p.kind = kind /\ p.requested = None
<1>1. Packet(h, kind, x) \in PacketType
  BY PacketTyped, Zenon DEF Packet
<1> QED BY <1>1, Zenon DEF Packet

\* A packet through a relay, or not.
LEMMA RelayedPacket ==
    ASSUME NEW q \in PacketType, NEW b \in BOOLEAN
    PROVE  \E p \in PacketType :
             /\ p = [q EXCEPT !.relayed = b] /\ p.host = q.host /\ p.xid = q.xid
<1>1. [q EXCEPT !.relayed = b] \in PacketType
  BY Zenon DEF PacketType
<1>2. /\ [q EXCEPT !.relayed = b].host = q.host /\ [q EXCEPT !.relayed = b].xid = q.xid
  BY Zenon DEF PacketType
<1> QED BY <1>1, <1>2, Zenon

\* A packet that requests an address.
LEMMA RequestPacket ==
    ASSUME NEW q \in PacketType, NEW r \in 0..Slots \cup {None}
    PROVE  \E p \in PacketType :
             /\ p = [q EXCEPT !.requested = r] /\ p.host = q.host /\ p.xid = q.xid
<1>1. [q EXCEPT !.requested = r] \in PacketType
  BY Zenon DEF PacketType
<1>2. /\ [q EXCEPT !.requested = r].host = q.host /\ [q EXCEPT !.requested = r].xid = q.xid
  BY Zenon DEF PacketType
<1> QED BY <1>1, <1>2, Zenon

\* A packet of a host that has an address.
LEMMA RenewPacket ==
    ASSUME NEW q \in PacketType, NEW c \in Pool
    PROVE  \E p \in PacketType :
             /\ p = [q EXCEPT !.ciaddr = c] /\ p.host = q.host /\ p.xid = q.xid
             /\ p.kind = q.kind /\ p.ciaddr = c /\ p.requested = q.requested
<1>1. [q EXCEPT !.ciaddr = c] \in PacketType
  BY Zenon DEF PacketType
<1>2. /\ [q EXCEPT !.ciaddr = c].host = q.host /\ [q EXCEPT !.ciaddr = c].xid = q.xid
      /\ [q EXCEPT !.ciaddr = c].kind = q.kind /\ [q EXCEPT !.ciaddr = c].ciaddr = c /\ [q EXCEPT !.ciaddr = c].requested = q.requested
  BY Zenon DEF PacketType
<1> QED BY <1>1, <1>2, Zenon

\* What may be requested: the pool and an address outside it.
LEMMA PoolIn == Pool \subseteq 0..Slots /\ Outside \in 0..Slots
<1>1. Slots \in Nat
  BY DhcpAssumption, Zenon
<1> QED BY <1>1 DEF Pool, Outside

\* What a client becomes, as a value of its own.
LEMMA HostValue ==
    ASSUME NEW h \in Hosts, NEW m \in Modes, NEW a \in Pool \cup {None}, NEW x \in Nat,
           HostBecomes(h, m, a, x)
    PROVE  \E new \in HostType : /\ new.mode = m /\ new.address = a /\ new.xid = x
                                  /\ hosts' = [hosts EXCEPT ![h] = new]
<1>1. [mode |-> m, address |-> a, xid |-> x] \in HostType
  BY NewHost, Zenon
<1> QED BY <1>1, Zenon DEF HostBecomes

\* A host that asks anew uses a new transaction.
LEMMA DiscoverKeeps == ASSUME NEW h \in Hosts, DhcpInv, Discover(h) PROVE DhcpInv'
<1>0. hosts[h].xid \in Nat
  BY HostParts, Zenon
<1>1. PICK x \in Nat : x = hosts[h].xid + 1
  BY <1>0
<1>x. x > hosts[h].xid /\ x >= hosts[h].xid
  BY <1>0, <1>1
<1>2. PICK a \in Pool \cup {None} : a = hosts[h].address
  BY HostParts, Zenon
<1>3. PICK b \in BOOLEAN : Transmit([Packet(h, "DISCOVER", x) EXCEPT !.relayed = b])
  BY <1>1, Zenon DEF Discover
<1>4. HostBecomes(h, "selecting", a, x) /\ leases' = leases /\ replies' = replies
  BY <1>1, <1>2, Zenon DEF Discover
<1>5. PICK new \in HostType : /\ new.mode = "selecting" /\ new.xid = x
                              /\ hosts' = [hosts EXCEPT ![h] = new]
  BY <1>4, HostValue DEF Modes
<1>6. rx' = rx \/ (rx' \in PacketType /\ rx'.host = h /\ rx'.xid <= new.xid)
  <2> DEFINE q == Packet(h, "DISCOVER", x)
  <2>a. q \in PacketType /\ q.host = h /\ q.xid = x /\ q.kind = "DISCOVER" /\ q.requested = None
    BY PlainPacket DEF Kinds
  <2> HIDE DEF q
  <2>b. rx' = rx \/ rx' = [q EXCEPT !.relayed = b]
    BY <1>3, Zenon DEF Transmit, q
  <2>c. PICK p \in PacketType : p = [q EXCEPT !.relayed = b] /\ p.host = h /\ p.xid = x
    BY <2>a, RelayedPacket, Zenon
  <2>d. rx' = rx \/ rx' = p
    BY <2>b, <2>c, Zenon
  <2>e. p.host = h /\ p.xid <= new.xid
    BY <1>5, <2>c
  <2> QED BY <2>d, <2>e, Zenon
<1> QED BY <1>x, <1>4, <1>5, <1>6, HostStep, Zenon

\* A host that repeats its request stays in its transaction.
LEMMA RequestAgainKeeps == ASSUME NEW h \in Hosts, DhcpInv, RequestAgain(h) PROVE DhcpInv'
<1>0. hosts[h].xid \in Nat
  BY HostParts, Zenon
<1>1. PICK x \in Nat : x = hosts[h].xid + 1
  BY <1>0
<1>x. x > hosts[h].xid /\ x >= hosts[h].xid
  BY <1>0, <1>1
<1>2. PICK a \in Pool \cup {None} : a = hosts[h].address
  BY HostParts, Zenon
<1>3. PICK r \in Pool \cup {Outside, None} : Transmit([Packet(h, "REQUEST", x) EXCEPT !.requested = r])
  BY <1>1, Zenon DEF RequestAgain
<1>4. HostBecomes(h, "requesting", a, x) /\ leases' = leases /\ replies' = replies
  BY <1>1, <1>2, Zenon DEF RequestAgain
<1>5. PICK new \in HostType : /\ new.mode = "requesting" /\ new.xid = x
                              /\ hosts' = [hosts EXCEPT ![h] = new]
  BY <1>4, HostValue DEF Modes
<1>6. r \in 0..Slots \cup {None}
  BY PoolIn, Zenon
<1>7. rx' = rx \/ (rx' \in PacketType /\ rx'.host = h /\ rx'.xid <= new.xid)
  <2> DEFINE q == Packet(h, "REQUEST", x)
  <2>a. q \in PacketType /\ q.host = h /\ q.xid = x /\ q.kind = "REQUEST" /\ q.requested = None
    BY PlainPacket DEF Kinds
  <2> HIDE DEF q
  <2>b. rx' = rx \/ rx' = [q EXCEPT !.requested = r]
    BY <1>3, Zenon DEF Transmit, q
  <2>c. PICK p \in PacketType : p = [q EXCEPT !.requested = r] /\ p.host = h /\ p.xid = x
    BY <2>a, <1>6, RequestPacket, Zenon
  <2>d. rx' = rx \/ rx' = p
    BY <2>b, <2>c, Zenon
  <2>e. p.host = h /\ p.xid <= new.xid
    BY <1>5, <2>c
  <2> QED BY <2>d, <2>e, Zenon
<1> QED BY <1>x, <1>4, <1>5, <1>7, HostStep, Zenon

\* A host that renews holds its address.
LEMMA RenewKeeps == ASSUME NEW h \in Hosts, DhcpInv, Renew(h) PROVE DhcpInv'
<1>0. hosts[h].xid \in Nat
  BY HostParts, Zenon
<1>1. PICK x \in Nat : x = hosts[h].xid + 1
  BY <1>0
<1>x. x > hosts[h].xid /\ x >= hosts[h].xid
  BY <1>0, <1>1
<1>2. PICK a \in Pool : /\ a = hosts[h].address /\ leases[a] = ClientKey[h]
                        /\ Sent(h) => rx.kind = "REQUEST" /\ rx.requested = None /\ rx.ciaddr = a
  BY Zenon DEF Renew, DhcpInv, BoundHold
<1>3. /\ HostBecomes(h, "bound", a, x) /\ leases' = leases /\ replies' = replies
      /\ Transmit([Packet(h, "REQUEST", x) EXCEPT !.ciaddr = a])
  BY <1>1, <1>2, Zenon DEF Renew
<1>4. PICK new \in HostType : /\ new.mode = "bound" /\ new.address = a /\ new.xid = x
                              /\ hosts' = [hosts EXCEPT ![h] = new]
  BY <1>3, HostValue DEF Modes
<1>5. \/ rx' = rx
      \/ /\ rx' \in PacketType /\ rx'.host = h /\ rx'.xid = x
         /\ rx'.kind = "REQUEST" /\ rx'.requested = None /\ rx'.ciaddr = a
  <2> DEFINE q == Packet(h, "REQUEST", x)
  <2>a. q \in PacketType /\ q.host = h /\ q.xid = x /\ q.kind = "REQUEST" /\ q.requested = None
    BY PlainPacket DEF Kinds
  <2> HIDE DEF q
  <2>b. rx' = rx \/ rx' = [q EXCEPT !.ciaddr = a]
    BY <1>3, Zenon DEF Transmit, q
  <2>c. PICK p \in PacketType : /\ p = [q EXCEPT !.ciaddr = a] /\ p.host = h /\ p.xid = x
                                /\ p.kind = "REQUEST" /\ p.ciaddr = a /\ p.requested = None
    BY <2>a, RenewPacket
  <2> QED BY <2>b, <2>c, Zenon
<1>6. rx' = rx \/ (rx' \in PacketType /\ rx'.host = h /\ rx'.xid <= new.xid)
  BY <1>4, <1>5
<1>7. Sent(h)' => rx'.kind = "REQUEST" /\ rx'.requested = None /\ rx'.ciaddr = a
  BY <1>2, <1>5, Zenon DEF Sent
<1> QED BY <1>x, <1>2, <1>3, <1>4, <1>6, <1>7, HostStep, Zenon

\* A host that gives its address up, or declines it, holds none.
LEMMA GiveUpKeeps ==
    ASSUME NEW h \in Hosts, NEW kind \in {"RELEASE", "DECLINE"}, DhcpInv, GiveUpAddress(h, kind)
    PROVE  DhcpInv'
<1>1. PICK x \in Nat : x = hosts[h].xid
  BY HostParts, Zenon
<1>x. x >= hosts[h].xid
  BY <1>1
<1>2. PICK a \in Pool \cup {None} : a = hosts[h].address
  BY HostParts, Zenon
<1>3. /\ HostBecomes(h, "init", a, x) /\ leases' = leases /\ replies' = replies
      /\ Transmit(Packet(h, kind, x))
  BY <1>1, <1>2, Zenon DEF GiveUpAddress
<1>4. PICK new \in HostType : /\ new.mode = "init" /\ new.xid = x
                              /\ hosts' = [hosts EXCEPT ![h] = new]
  BY <1>3, HostValue DEF Modes
<1>5. rx' = rx \/ (rx' \in PacketType /\ rx'.host = h /\ rx'.xid <= new.xid)
  BY <1>3, <1>4, PlainPacket DEF Transmit, Kinds
<1> QED BY <1>x, <1>3, <1>4, <1>5, HostStep, Zenon

\* A host that starts over holds none.
LEMMA StartOverKeeps == ASSUME NEW h \in Hosts, DhcpInv, StartOver(h) PROVE DhcpInv'
<1>1. PICK x \in Nat : x = hosts[h].xid
  BY HostParts, Zenon
<1>x. x >= hosts[h].xid
  BY <1>1
<1>2. PICK a \in Pool \cup {None} : a = hosts[h].address
  BY HostParts, Zenon
<1>3. HostBecomes(h, "init", a, x) /\ leases' = leases /\ replies' = replies /\ rx' = rx
  BY <1>1, <1>2, Zenon DEF StartOver
<1>4. PICK new \in HostType : /\ new.mode = "init" /\ new.xid = x
                              /\ hosts' = [hosts EXCEPT ![h] = new]
  BY <1>3, HostValue DEF Modes
<1> QED BY <1>x, <1>3, <1>4, HostStep, Zenon

\* A host believes an ACK of its transaction: the table still has the lease.
LEMMA TakeReplyKeeps == ASSUME NEW h \in Hosts, DhcpInv, TakeReply(h) PROVE DhcpInv'
<1>1. PICK answer \in ReplyType : answer = replies[h] /\ answer # None
  BY Zenon DEF TakeReply, DhcpInv, DhcpTypes
<1>2. PICK x \in Nat : x = hosts[h].xid
  BY HostParts, Zenon
<1>x. x >= hosts[h].xid
  BY <1>2
<1>3. replies' = [replies EXCEPT ![h] = None] /\ leases' = leases /\ replies'[h] = None
  BY Zenon DEF TakeReply, DhcpInv, DhcpTypes
<1>4. PICK y \in Pool \cup {None} : y = answer.yiaddr
  BY Zenon DEF ReplyType
<1>5. CASE /\ answer.xid = x /\ answer.kind = "OFFER" /\ hosts[h].mode = "selecting"
           /\ \E server \in {"us", "other"} :
                /\ Transmit([Packet(h, "REQUEST", x) EXCEPT !.requested = y, !.server = server])
                /\ HostBecomes(h, IF server = "us" THEN "requesting" ELSE "init", y, x)
  <2>1. PICK server \in {"us", "other"} :
                /\ Transmit([Packet(h, "REQUEST", x) EXCEPT !.requested = y, !.server = server])
                /\ HostBecomes(h, IF server = "us" THEN "requesting" ELSE "init", y, x)
    BY <1>5, Zenon
  <2>2. PICK m \in Modes : HostBecomes(h, m, y, x) /\ m # "bound"
    BY <2>1, Zenon DEF Modes
  <2>3. PICK new \in HostType : /\ new.mode = m /\ new.xid = x /\ hosts' = [hosts EXCEPT ![h] = new]
    BY <2>2, HostValue
  <2>4. y \in 0..Slots \cup {None}
    BY PoolIn, Zenon
  <2>5. rx' = rx \/ (rx' \in PacketType /\ rx'.host = h /\ rx'.xid <= new.xid)
    <3> DEFINE q == Packet(h, "REQUEST", x)
    <3>a. q \in PacketType /\ q.host = h /\ q.xid = x /\ q.kind = "REQUEST" /\ q.requested = None
      BY PlainPacket DEF Kinds
    <3> HIDE DEF q
    <3>b. rx' = rx \/ rx' = [q EXCEPT !.requested = y, !.server = server]
      BY <2>1, Zenon DEF Transmit, q
    <3>c. PICK p \in PacketType : p = [q EXCEPT !.requested = y, !.server = server] /\ p.host = h /\ p.xid = x
      <4>1. [q EXCEPT !.requested = y, !.server = server] \in PacketType
        BY <3>a, <2>4, Zenon DEF PacketType
      <4>2. /\ [q EXCEPT !.requested = y, !.server = server].host = q.host
            /\ [q EXCEPT !.requested = y, !.server = server].xid = q.xid
        BY <3>a, Zenon DEF PacketType
      <4> QED BY <3>a, <4>1, <4>2, Zenon
    <3>d. rx' = rx \/ rx' = p
      BY <3>b, <3>c, Zenon
    <3>e. p.host = h /\ p.xid <= new.xid
      BY <2>3, <3>c
    <3> QED BY <3>d, <3>e, Zenon
  <2> QED BY <1>x, <1>3, <2>2, <2>3, <2>5, HostStep, Zenon
<1>6. CASE /\ answer.xid = x /\ answer.kind = "ACK" /\ hosts[h].mode \in {"requesting", "bound"}
           /\ HostBecomes(h, "bound", y, x) /\ UNCHANGED rx
  <2>1. PICK new \in HostType : /\ new.mode = "bound" /\ new.address = y /\ new.xid = x
                                /\ hosts' = [hosts EXCEPT ![h] = new]
    BY <1>6, HostValue DEF Modes
  <2>2. Current(h)
    BY <1>1, <1>2, <1>6, Zenon DEF Current
  <2>3. y \in Pool /\ leases[y] = ClientKey[h]
    BY <1>1, <1>4, <1>6, <2>2, Zenon DEF DhcpInv, AcksHold
  <2>4. ~Sent(h)
    BY <1>6, <2>2, Zenon DEF DhcpInv, Transactions
  <2>5. ~Sent(h)'
    BY <1>6, <2>4, Zenon DEF Sent
  <2> QED BY <1>x, <1>3, <1>6, <2>1, <2>3, <2>5, HostStep, Zenon
<1>7. CASE HostBecomes(h, "init", None, x) /\ UNCHANGED rx
  <2>1. PICK new \in HostType : new.mode = "init" /\ new.xid = x /\ hosts' = [hosts EXCEPT ![h] = new]
    BY <1>7, HostValue DEF Modes
  <2> QED BY <1>x, <1>3, <1>7, <2>1, HostStep, Zenon
<1>8. CASE UNCHANGED <<rx, hosts>>
  <2>1. PICK new \in HostType : new = hosts[h]
    BY Zenon DEF DhcpInv, DhcpTypes
  <2>2. hosts' = [hosts EXCEPT ![h] = new] /\ rx' = rx
    BY <1>8, <2>1, Zenon DEF DhcpInv, DhcpTypes
  <2>3. new.mode = "bound" =>
             /\ new.address \in Pool /\ leases[new.address] = ClientKey[h]
             /\ Sent(h)' => rx'.kind = "REQUEST" /\ rx'.requested = None /\ rx'.ciaddr = new.address
    BY <1>8, <2>1, Zenon DEF DhcpInv, BoundHold, Sent
  <2>4. new.xid >= hosts[h].xid
    <3>1. new.xid \in Nat
      BY <2>1, Zenon DEF HostType
    <3> QED BY <2>1, <3>1
  <2> QED BY <1>3, <2>2, <2>3, <2>4, HostStep, Zenon
<1> QED BY <1>1, <1>2, <1>4, <1>5, <1>6, <1>7, <1>8, Zenon DEF TakeReply

-------------------------------------------------------------------------------
\* A table that gives the lease of one client to it, or takes it away, keeps the
\* others' and still names every key once.
LEMMA TableFor ==
    ASSUME NEW p \in Hosts, DhcpInv, NEW f \in Pool, NEW v \in {ClientKey[p], None, EmptyKey},
           leases[f] \in {ClientKey[p], None},
           v = ClientKey[p] => \A s \in Pool : s # f => leases'[s] # ClientKey[p],
           DOMAIN leases' = Pool, leases' = [s \in Pool |-> leases'[s]], leases'[f] = v,
           \A s \in Pool : s # f => leases'[s] = leases[s]
                                   \/ (leases[s] = ClientKey[p] /\ leases'[s] = None)
    PROVE  /\ leases' \in [Pool -> LeaseValues] /\ KeysOnce'
           /\ \A s \in Pool, g \in Hosts :
                g # p /\ leases[s] = ClientKey[g] => leases'[s] = ClientKey[g]
<1>1. leases \in [Pool -> LeaseValues] /\ KeysOnce
  BY Zenon DEF DhcpInv, DhcpTypes
<1>2. \A g, h \in Hosts : ClientKey[g] = ClientKey[h] => g = h
  BY DhcpAssumption, Zenon
<1>3. \A h \in Hosts : ClientKey[h] # None /\ ClientKey[h] # EmptyKey
  BY DhcpAssumption, Zenon
<1>4. leases'[f] = v
  BY Zenon
<1>5. \A s \in Pool : leases'[s] \in LeaseValues
  BY <1>1, <1>4, Zenon DEF LeaseValues
<1>6. leases' \in [Pool -> LeaseValues]
  BY <1>5, Zenon
<1>7. \A s \in Pool, g \in Hosts : g # p /\ leases[s] = ClientKey[g] => leases'[s] = ClientKey[g]
  BY <1>2, <1>3
<1>8. \A s \in Pool, g \in Hosts : g # p /\ leases'[s] = ClientKey[g] => leases[s] = ClientKey[g]
  BY <1>2, <1>3, <1>4
<1>9. \A s \in Pool : leases'[s] = ClientKey[p] /\ s # f => leases[s] = ClientKey[p]
  BY <1>3, Zenon
<1>10. leases'[f] = ClientKey[p] => \A s \in Pool : s # f => leases'[s] # ClientKey[p]
  BY <1>4, Zenon
<1>11. KeysOnce'
  <2> SUFFICES ASSUME NEW h \in Hosts, NEW s \in Pool, NEW t \in Pool,
                      leases'[s] = ClientKey[h], leases'[t] = ClientKey[h]
               PROVE  s = t
    BY DEF KeysOnce
  <2>1. CASE h # p
    BY <1>1, <1>8, <2>1 DEF KeysOnce
  <2>2. CASE h = p
    BY <1>1, <1>9, <1>10, <2>2 DEF KeysOnce
  <2> QED BY <2>1, <2>2, Zenon
<1> QED BY <1>6, <1>7, <1>11, Zenon

\* serve_packet answers from the table, and changes no other client's lease.
LEMMA ServeKeeps == ASSUME DhcpInv, ServePacket PROVE DhcpInv'
<1>1. rx # None /\ rx' = None /\ hosts' = hosts /\ rx \in PacketType
  BY Zenon DEF ServePacket, DhcpInv, DhcpTypes
<1>2. PICK p \in Hosts : p = rx.host
  BY <1>1, Zenon DEF PacketType
<1>3. Sent(p)
  BY <1>1, <1>2, Zenon DEF Sent
<1> DEFINE key == ClientKey[p]
<1>4. \A h \in Hosts : ClientKey[h] # None /\ ClientKey[h] # EmptyKey
  BY DhcpAssumption, Zenon
<1>5. /\ leases \in [Pool -> LeaseValues] /\ KeysOnce
      /\ replies \in [Hosts -> ReplyType \cup {None}]
  BY Zenon DEF DhcpInv, DhcpTypes
<1>6. hosts[p].mode = "bound" =>
        /\ hosts[p].address \in Pool /\ leases[hosts[p].address] = key
        /\ rx.kind = "REQUEST" /\ rx.requested = None /\ rx.ciaddr = hosts[p].address
  BY <1>3, Zenon DEF DhcpInv, BoundHold
<1>7. CASE UNCHANGED <<leases, replies>>
  <2>1. KeysOnce'
    BY <1>5, <1>7, Zenon DEF KeysOnce
  <2> QED BY <1>1, <1>3, <1>5, <1>6, <1>7, <2>1, ServeStep, Zenon
<1>8. ASSUME NEW kind \in {"OFFER", "ACK", "NAK"}, NEW slot \in Pool \cup {None}, Reply(rx, kind, slot)
      PROVE  /\ replies' \in [Hosts -> ReplyType \cup {None}]
             /\ \A g \in Hosts : g # p => replies'[g] = replies[g]
             /\ replies'[p].xid = rx.xid /\ replies'[p].kind = kind /\ replies'[p].yiaddr = slot
  <2> DEFINE r == [kind |-> kind, yiaddr |-> slot, xid |-> rx.xid]
  <2>1. rx.xid \in Nat
    BY <1>1, Zenon DEF PacketType
  <2>2. r \in ReplyType /\ r.kind = kind /\ r.yiaddr = slot /\ r.xid = rx.xid
    BY <2>1, Zenon DEF ReplyType
  <2>3. replies' = [replies EXCEPT ![p] = r]
    BY <1>2, <1>8, Zenon DEF Reply
  <2> HIDE DEF r
  <2> QED BY <1>5, <2>2, <2>3, Zenon
<1>9. CASE rx.kind = "DISCOVER" /\ ServeDiscover(rx)
  <2>1. SUFFICES ASSUME ExistingOrAllocateLease(leases, key) # None PROVE DhcpInv'
    BY <1>2, <1>7, <1>9, Zenon DEF ServeDiscover
  <2>2. PICK f \in Pool : /\ f = ExistingOrAllocateLease(leases, key)
                          /\ leases[f] = key \/ (leases[f] = None /\ \A s \in Pool : leases[s] # key)
    BY <2>1, Allocated
  <2>3. leases' = [leases EXCEPT ![f] = key] /\ Reply(rx, "OFFER", f)
    BY <1>2, <1>9, <2>1, <2>2, Zenon DEF ServeDiscover
  <2>4. /\ DOMAIN leases' = Pool /\ leases' = [s \in Pool |-> leases'[s]] /\ leases'[f] = key
        /\ \A s \in Pool : s # f => leases'[s] = leases[s]
    BY <1>5, <2>3, Zenon
  <2>5. \A s \in Pool : s # f => leases'[s] # key
    BY <1>5, <2>2, <2>4, Zenon DEF KeysOnce
  <2>6. /\ leases' \in [Pool -> LeaseValues] /\ KeysOnce'
        /\ \A s \in Pool, g \in Hosts : g # p /\ leases[s] = ClientKey[g] => leases'[s] = ClientKey[g]
    BY <2>2, <2>4, <2>5, TableFor
  <2>7. /\ replies' \in [Hosts -> ReplyType \cup {None}]
        /\ \A g \in Hosts : g # p => replies'[g] = replies[g]
        /\ replies'[p].xid = rx.xid /\ replies'[p].kind = "OFFER"
    BY <1>8, <2>3, Zenon
  <2>8. hosts[p].mode # "bound"
    BY <1>6, <1>9, Zenon
  <2> QED BY <1>1, <1>3, <2>6, <2>7, <2>8, ServeStep
<1>10. CASE rx.kind = "REQUEST" /\ ServeRequest(rx)
  <2> DEFINE slot == RequestedIp(rx)
  <2>1. CASE slot \in Pool /\ leases[slot] \in {None, key}
             /\ leases' = AssignLease(leases, slot, key) /\ Reply(rx, "ACK", slot)
    <3>1. PICK f \in Pool : f = slot
      BY <2>1, Zenon
    <3>2. leases' = [s \in Pool |-> IF s = f THEN key ELSE IF leases[s] = key THEN None ELSE leases[s]]
      BY <2>1, <3>1, Zenon DEF AssignLease
    <3>3. /\ DOMAIN leases' = Pool /\ leases' = [s \in Pool |-> leases'[s]] /\ leases'[f] = key
          /\ \A s \in Pool : s # f => leases'[s] = leases[s] \/ (leases[s] = key /\ leases'[s] = None)
          /\ \A s \in Pool : s # f => leases'[s] # key
      BY <1>4, <3>2, Zenon
    <3>4. leases[f] \in {key, None}
      BY <2>1, <3>1, Zenon
    <3>5. /\ leases' \in [Pool -> LeaseValues] /\ KeysOnce'
          /\ \A s \in Pool, g \in Hosts : g # p /\ leases[s] = ClientKey[g] => leases'[s] = ClientKey[g]
      BY <3>3, <3>4, TableFor
    <3>6. /\ replies' \in [Hosts -> ReplyType \cup {None}]
          /\ \A g \in Hosts : g # p => replies'[g] = replies[g]
          /\ replies'[p].xid = rx.xid /\ replies'[p].kind = "ACK" /\ replies'[p].yiaddr = f
      <4>1. Reply(rx, "ACK", f)
        BY <2>1, <3>1, Zenon
      <4> QED BY <1>8, <4>1, Zenon
    <3>7. leases'[f] = key
      BY <3>2, Zenon
    <3>8. hosts[p].mode = "bound" => leases'[hosts[p].address] = ClientKey[p]
      <4>1. SUFFICES ASSUME hosts[p].mode = "bound" PROVE hosts[p].address = f
        BY <3>7, Zenon
      <4>2. hosts[p].address # None
        BY <1>6, <4>1, PoolNat, Zenon
      <4> QED BY <1>6, <3>1, <4>1, <4>2, Zenon DEF RequestedIp
    <3> QED BY <1>1, <1>3, <3>5, <3>6, <3>7, <3>8, ServeStep
  <2>2. CASE Reply(rx, "NAK", None) /\ UNCHANGED leases
    <3>1. /\ replies' \in [Hosts -> ReplyType \cup {None}]
          /\ \A g \in Hosts : g # p => replies'[g] = replies[g]
          /\ replies'[p].xid = rx.xid /\ replies'[p].kind = "NAK"
      BY <1>8, <2>2, Zenon
    <3>2. KeysOnce' /\ leases' \in [Pool -> LeaseValues]
      BY <1>5, <2>2, Zenon DEF KeysOnce
    <3> QED BY <1>1, <1>3, <1>6, <2>2, <3>1, <3>2, ServeStep, Zenon
  <2> QED BY <1>2, <1>7, <1>10, <2>1, <2>2, Zenon DEF ServeRequest
<1>11. ASSUME NEW v \in {None, EmptyKey}, rx.kind # "REQUEST", UNCHANGED replies,
              leases' = [s \in Pool |-> IF s = FindClientLease(leases, key) THEN v ELSE leases[s]]
       PROVE  DhcpInv'
  <2>1. \/ FindClientLease(leases, key) = None
        \/ /\ FindClientLease(leases, key) \in Pool
           /\ leases[FindClientLease(leases, key)] = key
    BY FoundLease, Zenon
  <2>2. CASE FindClientLease(leases, key) = None
    <3>1. leases' = leases
      BY <1>5, <1>11, <2>2, PoolNat, Zenon
    <3> QED BY <1>7, <1>11, <3>1, Zenon
  <2>3. CASE FindClientLease(leases, key) \in Pool /\ leases[FindClientLease(leases, key)] = key
    <3>1. PICK f \in Pool : f = FindClientLease(leases, key) /\ leases[f] = key
      BY <2>3, Zenon
    <3>2. /\ DOMAIN leases' = Pool /\ leases' = [s \in Pool |-> leases'[s]] /\ leases'[f] = v
          /\ \A s \in Pool : s # f => leases'[s] = leases[s]
      BY <1>11, <3>1, Zenon
    <3>3. v # key
      BY <1>4, Zenon
    <3>4. /\ leases' \in [Pool -> LeaseValues] /\ KeysOnce'
          /\ \A s \in Pool, g \in Hosts : g # p /\ leases[s] = ClientKey[g] => leases'[s] = ClientKey[g]
      BY <3>1, <3>2, <3>3, TableFor
    <3>5. hosts[p].mode # "bound"
      BY <1>6, <1>11, Zenon
    <3> QED BY <1>1, <1>3, <1>5, <1>11, <3>4, <3>5, ServeStep, Zenon
  <2> QED BY <2>1, <2>2, <2>3, Zenon
<1>12. CASE rx.kind = "RELEASE" /\ leases' = ReleaseLease(leases, ClientKey[rx.host]) /\ UNCHANGED replies
  BY <1>2, <1>11, <1>12, Zenon DEF ReleaseLease
<1>13. CASE rx.kind = "DECLINE" /\ leases' = DeclineLease(leases, ClientKey[rx.host]) /\ UNCHANGED replies
  BY <1>2, <1>11, <1>13, Zenon DEF DeclineLease
<1>14. rx.kind \in {"DISCOVER", "REQUEST", "RELEASE", "DECLINE"}
  BY <1>1, Zenon DEF PacketType
<1> QED BY <1>7, <1>9, <1>10, <1>12, <1>13, <1>14, Zenon DEF ServePacket

\* The invariant holds at first.
LEMMA DhcpInitInv == DhcpInit => DhcpInv
<1> SUFFICES ASSUME DhcpInit PROVE DhcpInv
  BY Zenon
<1> USE DEF DhcpInit
<1>1. [mode |-> "init", address |-> None, xid |-> 0] \in HostType
  BY NewHost, Zenon DEF Modes
<1>2. DhcpTypes
  BY <1>1, Zenon DEF DhcpTypes, LeaseValues
<1>3. \A h \in Hosts : ClientKey[h] # None
  BY DhcpAssumption, Zenon
<1>4. \A h \in Hosts : hosts[h].mode = "init" /\ replies[h] = None /\ ~Sent(h)
  BY Zenon DEF Sent
<1>5. KeysOnce
  BY <1>3, Zenon DEF KeysOnce
<1>6. Transactions /\ AcksHold /\ BoundHold
  BY <1>4, Zenon DEF Transactions, AcksHold, BoundHold, Current
<1> QED BY <1>2, <1>5, <1>6, Zenon DEF DhcpInv

\* Every step keeps the invariant.
LEMMA DhcpInvStep == DhcpInv /\ [DhcpNext]_dhcpVars => DhcpInv'
<1> SUFFICES ASSUME DhcpInv, [DhcpNext]_dhcpVars PROVE DhcpInv'
  BY Zenon
<1>1. CASE UNCHANGED dhcpVars
  BY <1>1, Zenon DEF dhcpVars, DhcpInv, DhcpTypes, KeysOnce, Transactions, AcksHold, BoundHold, Current, Sent
<1> QED BY <1>1, ServeKeeps, DiscoverKeeps, RequestAgainKeeps, RenewKeeps, TakeReplyKeeps,
           GiveUpKeeps, StartOverKeeps, Zenon DEF DhcpNext

\* Two hosts that are bound have different keys in the table, hence different slots.
LEMMA DhcpInvExclusive == DhcpInv => LeasesExclusive
<1> SUFFICES ASSUME DhcpInv PROVE LeasesExclusive
  BY Zenon
<1>1. \A h \in Hosts : hosts[h].mode = "bound" => leases[hosts[h].address] = ClientKey[h]
  BY Zenon DEF DhcpInv, BoundHold
<1>2. ASSUME NEW h \in Hosts PROVE Cardinality({s \in Pool : leases[s] = ClientKey[h]}) <= 1
  <2> DEFINE S == {s \in Pool : leases[s] = ClientKey[h]}
  <2>1. CASE S = {}
    BY <2>1, FS_EmptySet
  <2>2. CASE S # {}
    <3>1. PICK s \in S : TRUE
      BY <2>2, Zenon
    <3>2. S = {s}
      BY <3>1, Zenon DEF DhcpInv, KeysOnce
    <3>3. Cardinality({s}) = 1
      BY FS_Singleton, Zenon
    <3> QED BY <3>2, <3>3
  <2> QED BY <2>1, <2>2, Zenon
<1> QED BY <1>1, <1>2, Zenon DEF LeasesExclusive

\* A host that uses an address has its lease, and no host has two, for any pool and
\* any hosts with distinct keys, whichever packets are lost, repeated or late.
THEOREM SpecLeasesExclusive == DhcpSpec => []LeasesExclusive
<1>1. DhcpInit => DhcpInv
  BY DhcpInitInv, Zenon
<1>2. DhcpInv /\ [DhcpNext]_dhcpVars => DhcpInv'
  BY DhcpInvStep, Zenon
<1> QED BY <1>1, <1>2, DhcpInvExclusive, PTL DEF DhcpSpec
===============================================================================
