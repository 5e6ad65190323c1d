--------------------------- MODULE Registry_proofs ----------------------------
(* What the tracker publishes.                                               *)
EXTENDS TrackerRegistry, TLAPS

-------------------------------------------------------------------------------
(* Relays. What is published always comes as a whole from one accepted       *)
(* document.                                                                 *)

\* What is published comes from a document that was accepted.
FromDocument ==
    /\ disk.file \in Documents /\ disk = [file |-> disk.file, seen |-> disk.seen, edits |-> disk.edits]
    /\ published = [config |-> published.config, observed |-> published.observed,
                    learned |-> published.learned]
    /\ \E doc \in Documents : Parsed(doc) /\ published.config = Resolve(Drafts(doc))

\* In an accepted document every relay has a record that is not relayed.
LEMMA ParsedRelays ==
    ASSUME NEW doc, Parsed(doc), NEW r \in Resolve(Drafts(doc)), r.relay # None
    PROVE  \E s \in Resolve(Drafts(doc)) : s.key = r.relay /\ s.relay = None
<1> DEFINE drafts == Drafts(doc)
           Record(d) == [key |-> d.key, endpoint |-> d.endpoint, addr |-> d.addr,
                         relay |-> IF d.relay = None THEN None ELSE RelayKey(drafts, d.relay)]
<1>1. \A s : s \in Resolve(drafts) <=> \E d \in drafts : s = Record(d)
  BY Zenon DEF Resolve
<1>2. \A d \in drafts : RelayAllowed(drafts, d)
  BY Zenon DEF Parsed
<1> HIDE DEF drafts
<1>3. PICK d \in drafts : r = Record(d)
  BY <1>1, Zenon DEF drafts
<1>4. d.relay # None /\ r.relay = RelayKey(drafts, d.relay)
  BY <1>3, Zenon
<1>5. PICK e \in drafts : e.key = r.relay /\ e.relay = None
  BY <1>2, <1>4, Zenon DEF RelayAllowed
<1>6. Record(e).key = r.relay /\ Record(e).relay = None
  BY <1>5, Zenon
<1> QED BY <1>1, <1>5, <1>6, Zenon DEF drafts

\* What Announce publishes.
LEMMA Announced ==
    ASSUME NEW p, Announce(p)
    PROVE  published' = p
BY Zenon DEF Announce

\* A reload publishes an accepted document, or changes nothing.
LEMMA ReloadStep ==
    ASSUME FromDocument, ReloadIfChanged
    PROVE  FromDocument'
<1>1. disk' = [disk EXCEPT !.seen = disk.file]
  BY Zenon DEF ReloadIfChanged
<1>2. /\ disk'.file \in Documents
      /\ disk' = [file |-> disk'.file, seen |-> disk'.seen, edits |-> disk'.edits]
  BY <1>1, Zenon DEF FromDocument
<1>3. CASE Loadable(disk.file)
  <2>1. PICK obs : published' = [published EXCEPT !.config = Resolve(Drafts(disk.file)), !.observed = obs]
    BY <1>3, Announced, Zenon DEF ReloadIfChanged, ReplaceWith
  <2>2. /\ published'.config = Resolve(Drafts(disk.file))
        /\ published' = [config |-> published'.config, observed |-> published'.observed,
                         learned |-> published'.learned]
    BY <2>1, Zenon DEF FromDocument
  <2>3. Parsed(disk.file) /\ disk.file \in Documents
    BY <1>3, Zenon DEF Loadable, FromDocument
  <2> QED BY <1>2, <2>2, <2>3, Zenon DEF FromDocument
<1>4. CASE ~Loadable(disk.file)
  <2>1. published' = published
    BY <1>4, Zenon DEF ReloadIfChanged
  <2> QED BY <1>2, <2>1, Zenon DEF FromDocument
<1> QED BY <1>3, <1>4, Zenon

\* A learned endpoint leaves the configuration alone.
LEMMA ObserveStep ==
    ASSUME FromDocument, NEW k \in PeerKeys, NEW e \in LearnedEndpoints, ObserveEndpoint(k, e)
    PROVE  FromDocument'
<1>1. published' = [published EXCEPT !.observed[k] = e, !.learned = @ + 1] /\ disk' = disk
  BY Announced, Zenon DEF ObserveEndpoint
<1>2. /\ published'.config = published.config
      /\ published' = [config |-> published'.config, observed |-> published'.observed,
                       learned |-> published'.learned]
  BY <1>1, Zenon DEF FromDocument
<1> QED BY <1>1, <1>2, Zenon DEF FromDocument

\* Whatever the file holds.
LEMMA EditStep ==
    ASSUME FromDocument, NEW doc \in Documents, Edit(doc)
    PROVE  FromDocument'
<1>1. disk' = [disk EXCEPT !.file = doc, !.edits = @ + 1] /\ published' = published
  BY Zenon DEF Edit
<1>2. /\ disk'.file \in Documents
      /\ disk' = [file |-> disk'.file, seen |-> disk'.seen, edits |-> disk'.edits]
  BY <1>1, Zenon DEF FromDocument
<1> QED BY <1>1, <1>2, Zenon DEF FromDocument

\* Every step keeps what is published to an accepted document.
LEMMA FromDocumentStep == FromDocument /\ [RegistryNext]_registryVars => FromDocument'
<1> SUFFICES ASSUME FromDocument, [RegistryNext]_registryVars PROVE FromDocument'
  BY Zenon
<1>1. CASE Publishing
  BY <1>1, EditStep, ReloadStep, ObserveStep, Zenon DEF Publishing
<1>2. CASE LocalSide
  <2>1. UNCHANGED <<disk, published>>
    BY <1>2, Zenon DEF LocalSide, ServeCommand, TakeChange, NextOfLag, SendEvent, TunnelEvent, TunnelAsks, TunnelEvicts
  <2> QED BY <2>1, Zenon DEF FromDocument
<1>3. CASE RemoteSide
  <2>1. UNCHANGED <<disk, published>>
    BY <1>3, Zenon DEF RemoteSide, Subscribed, WatchRequest, UnwatchNotification, Notified, Hangup
  <2> QED BY <2>1, Zenon DEF FromDocument
<1>4. CASE UNCHANGED registryVars
  BY <1>4, Zenon DEF FromDocument, registryVars
<1> QED BY <1>1, <1>2, <1>3, <1>4, Zenon DEF RegistryNext

\* Every relay a served record names is served and not relayed itself, for any
\* documents, edits and learned endpoints: what is published was accepted as a
\* whole (config::resolve, replace).
THEOREM SpecRelaysServed == RegistrySpec => []RelaysServed
<1>1. RegistryInit => FromDocument
  BY DocumentsAssumption, StartAssumption DEF RegistryInit, FromDocument
<1>2. FromDocument => RelaysServed
  BY ParsedRelays DEF FromDocument, RelaysServed
<1> QED BY <1>1, <1>2, FromDocumentStep, PTL DEF RegistrySpec
===============================================================================
