--------------------------- MODULE Protocols_proofs ---------------------------
(* Two ends and a channel between them that loses, delays and damages: the   *)
(* handshake of the tunnel and the transfer of a file.                       *)
EXTENDS Handshake, Ymodem, Integers, TLAPS

-------------------------------------------------------------------------------
(* Types, and that no transport message is sealed under keys its addressee   *)
(* has not derived, for any number of initiations, restarts and losses and   *)
(* whatever the network does.                                                *)

\* The sessions of a node are its own, and those it may send under are the
\* other end's too.
SessionsKnown ==
    \A n \in Nodes :
      /\ \A g \in {"current", "previous", "next"} :
           node[n][g] # None => node[n][g].key \in installed[n]
      /\ \A g \in {"current", "previous"} :
           node[n][g] # None => node[n][g].key \in installed[Other[n]]

\* What is on the network was derived by whoever sent it.
MessagesKnown ==
    \A m \in net : m.type \in {"resp", "data"} => m.key \in installed[m.from]

IInv == TypeOK /\ SessionsKnown /\ MessagesKnown /\ DataHasReader

\* A state s that node n may move to, with the sessions of installed as i.
Sound(n, s, i) ==
    /\ s \in NodeType /\ s.pending \in {0, s.ts}
    /\ \A g \in {"current", "previous", "next"} : s[g] # None => s[g].key \in i[n]
    /\ \A g \in {"current", "previous"} : s[g] # None => s[g].key \in i[Other[n]]

\* The types of the fields of a node, one by one.
LEMMA NodeFields ==
    ASSUME NEW s \in NodeType
    PROVE  /\ s.ts \in Nat /\ s.greatest \in Nat /\ s.resp \in Nat /\ s.pending \in Nat
           /\ s.current \in SessionType \cup {None}
           /\ s.previous \in SessionType \cup {None}
           /\ s.next \in SessionType \cup {None}
           /\ s.parked \in BOOLEAN /\ s.keepaliveDue \in BOOLEAN /\ s.replyDue \in BOOLEAN
BY Zenon DEF NodeType

\* A new initiation leaves the sessions alone and binds the slot to itself.
LEMMA RebuiltSound ==
    ASSUME NEW n, NEW i, NEW s, Sound(n, s, i)
    PROVE  Sound(n, Rebuilt(s), i) /\ Sound(n, EnsureHandshake(s), i)
<1>1. s \in NodeType /\ s.ts \in Nat
  BY NodeFields, Zenon DEF Sound
<1> DEFINE t == s.ts + 1
<1>5. t \in Nat /\ Rebuilt(s) = [s EXCEPT !.ts = t, !.pending = t]
  BY <1>1 DEF Rebuilt
<1> HIDE DEF t
<1>2. /\ Rebuilt(s) \in NodeType
      /\ Rebuilt(s).pending = Rebuilt(s).ts
      /\ Rebuilt(s).current = s.current
      /\ Rebuilt(s).previous = s.previous
      /\ Rebuilt(s).next = s.next
  BY <1>1, <1>5, Zenon DEF NodeType
<1>3. \A g \in {"current", "previous", "next"} : Rebuilt(s)[g] = s[g]
  BY <1>2, Zenon
<1>4. Sound(n, Rebuilt(s), i)
  BY <1>2, <1>3, Zenon DEF Sound
<1> QED
  BY <1>4, Zenon DEF EnsureHandshake

\* Sealing marks the current session and may begin a handshake, no more.
LEMMA SealSound ==
    ASSUME NEW n, NEW i, NEW s, Sound(n, s, i), s.current # None, NEW empty \in BOOLEAN
    PROVE  Sound(n, Seal(n, s, empty), i)
<1>1. s \in NodeType /\ s.current \in SessionType
  BY NodeFields, Zenon DEF Sound
<1> DEFINE rekey == s.current.key.initiator = n /\ s.current.age > 0 /\ ~s.current.rekeyed
           c == [s.current EXCEPT !.rekeyed = @ \/ rekey]
           r == s.replyDue \/ ~empty
           sealed == [s EXCEPT !.current = c, !.keepaliveDue = FALSE, !.replyDue = r]
<1>2. c \in SessionType /\ c.key = s.current.key /\ r \in BOOLEAN
  BY <1>1, NodeFields, Zenon DEF SessionType
<1>3. Seal(n, s, empty) = IF rekey THEN EnsureHandshake(sealed) ELSE sealed
  BY Zenon DEF Seal
<1> HIDE DEF c, r
<1>4. /\ sealed \in NodeType /\ sealed.pending = s.pending /\ sealed.ts = s.ts
      /\ sealed.current = c /\ sealed.previous = s.previous /\ sealed.next = s.next
  BY <1>1, <1>2, Zenon DEF NodeType
<1> HIDE DEF sealed, rekey
<1>5. /\ sealed["current"] = c /\ sealed["previous"] = s["previous"]
      /\ sealed["next"] = s["next"]
  BY <1>4, Zenon
<1>6. Sound(n, sealed, i)
  BY <1>2, <1>4, <1>5, Zenon DEF Sound
<1> QED
  BY <1>3, <1>6, RebuiltSound, Zenon

\* A session both ends have derived may become the current one.
LEMMA RotateSound ==
    ASSUME NEW n, NEW i, NEW s, Sound(n, s, i), NEW g \in SessionType,
           g.key \in i[n], g.key \in i[Other[n]]
    PROVE  Sound(n, Rotate(s, g), i) /\ Rotate(s, g).current = g
<1>1. s \in NodeType
  BY Zenon DEF Sound
<1> DEFINE t == Rotate(s, g)
<1>2. /\ t \in NodeType /\ t.pending = s.pending /\ t.ts = s.ts
      /\ t.current = g /\ t.previous = s.current /\ t.next = s.next
  BY <1>1, NodeFields, Zenon DEF NodeType, Rotate
<1> HIDE DEF t
<1>3. t["current"] = g /\ t["previous"] = s["current"] /\ t["next"] = s["next"]
  BY <1>2, Zenon
<1>4. Sound(n, t, i)
  BY <1>2, <1>3, Zenon DEF Sound
<1> QED
  BY <1>2, <1>4, Zenon DEF t

\* What a node holds stays derived: sessions are only added to the history.
LEMMA SoundGrows ==
    ASSUME NEW n \in Nodes, NEW s, NEW i, NEW j, Sound(n, s, i),
           \A x \in Nodes : i[x] \subseteq j[x]
    PROVE  Sound(n, s, j)
BY OtherAssumption, Zenon DEF Sound

\* The invariant, node by node.
LEMMA NodesSound ==
    ASSUME IInv, NEW n \in Nodes
    PROVE  Sound(n, node[n], installed)
BY Zenon DEF IInv, TypeOK, SessionsKnown, Sound

\* What a step has to respect to keep the invariant.
LEMMA StepSound ==
    ASSUME IInv, NEW n \in Nodes, NEW s, NEW messages, NEW rest,
           Send(n, s, messages, rest), rest \subseteq net,
           messages \subseteq MessageType,
           installed' \in [Nodes -> SUBSET KeyType],
           \A x \in Nodes : installed[x] \subseteq installed'[x],
           Sound(n, s, installed'),
           \A m \in messages :
             /\ m.type \in {"resp", "data"} /\ m.from = n /\ m.key \in installed'[n]
             /\ m.type = "data" => m.key \in installed'[Other[n]],
           lost' \subseteq KeyType, events' \in 0..MaxEvents
    PROVE  IInv'
<1> DEFINE new == Initiation(n, s.ts)
<1>1. /\ node' = [node EXCEPT ![n] = s] /\ net' \subseteq net \cup messages \cup {new}
  BY Zenon DEF Send
<1>2. s \in NodeType /\ s.ts \in Nat
  BY NodeFields, Zenon DEF Sound
<1>3. new \in MessageType /\ new.type = "init"
  BY <1>2, Zenon DEF Initiation, MessageType
<1>4. /\ node \in [Nodes -> NodeType] /\ net \subseteq MessageType
      /\ installed \in [Nodes -> SUBSET KeyType]
  BY Zenon DEF IInv, TypeOK
<1>5. \A x \in Nodes : Sound(x, node'[x], installed')
  BY <1>1, <1>4, NodesSound, SoundGrows, Zenon
<1>6. TypeOK'
  <2>1. node' \in [Nodes -> NodeType]
    BY <1>1, <1>2, <1>4, Zenon
  <2>2. net' \subseteq MessageType
    BY <1>1, <1>3, <1>4, Zenon
  <2>3. \A x \in Nodes : node'[x].pending \in {0, node'[x].ts}
    BY <1>5, Zenon DEF Sound
  <2> QED
    BY <2>1, <2>2, <2>3, Zenon DEF TypeOK
<1>7. SessionsKnown'
  BY <1>5, Zenon DEF Sound, SessionsKnown
<1>8. \A m \in net : m.from \in Nodes
  BY <1>4, Zenon DEF MessageType
<1> HIDE DEF new
<1>9. MessagesKnown'
  <2>1. SUFFICES ASSUME NEW m \in net', m.type \in {"resp", "data"}
                 PROVE  m.key \in installed'[m.from]
    BY Zenon DEF MessagesKnown
  <2>2. CASE m \in net
    BY <1>8, <2>1, <2>2, Zenon DEF IInv, MessagesKnown
  <2>3. CASE m \in messages
    BY <2>3, Zenon
  <2> QED
    BY <1>1, <1>3, <2>1, <2>2, <2>3, Zenon
<1>10. DataHasReader'
  <2>1. SUFFICES ASSUME NEW m \in net', m.type = "data"
                 PROVE  m.key \in installed'[Other[m.from]]
    BY Zenon DEF DataHasReader
  <2>2. CASE m \in net
    <3>1. Other[m.from] \in Nodes
      BY <1>8, <2>2, OtherAssumption, Zenon
    <3> QED
      BY <2>1, <2>2, <3>1, Zenon DEF IInv, DataHasReader
  <2>3. CASE m \in messages
    BY <2>1, <2>3, Zenon
  <2> QED
    BY <1>1, <1>3, <2>1, <2>2, <2>3, Zenon
<1> QED
  BY <1>6, <1>7, <1>9, <1>10, Zenon DEF IInv

\* Only the sessions and the slot matter to soundness.
LEMMA SameSessions ==
    ASSUME NEW n, NEW i, NEW s, Sound(n, s, i), NEW t \in NodeType, t.pending \in {0, t.ts},
           t.current = s.current, t.previous = s.previous, t.next = s.next
    PROVE  Sound(n, t, i)
<1>1. \A g \in {"current", "previous", "next"} : t[g] = s[g]
  BY Zenon
<1> QED
  BY <1>1, Zenon DEF Sound

\* The fields of a transport message.
LEMMA DataFields ==
    ASSUME NEW n \in Nodes, NEW key \in KeyType, NEW empty \in BOOLEAN
    PROVE  /\ Data(n, key, empty) \in MessageType
           /\ Data(n, key, empty).type = "data" /\ Data(n, key, empty).from = n
           /\ Data(n, key, empty).key = key
BY Zenon DEF Data, MessageType

\* The history variables keep their types when left alone.
LEMMA HistoryTyped ==
    ASSUME IInv
    PROVE  /\ installed \in [Nodes -> SUBSET KeyType] /\ lost \subseteq KeyType
           /\ events \in 0..MaxEvents
BY Zenon DEF IInv, TypeOK

\* A bounded event keeps the counter in range.
LEMMA EventTyped ==
    ASSUME IInv, Event
    PROVE  events' \in 0..MaxEvents
BY ConstantsAssumption, HistoryTyped DEF Event

\* A transport message under the current session, or the state change alone.
LEMMA SealedStep ==
    ASSUME IInv, NEW n \in Nodes, NEW s, Sound(n, s, installed), s.current # None,
           NEW empty \in BOOLEAN,
           Send(n, Seal(n, s, empty), {Data(n, s.current.key, empty)}, net),
           UNCHANGED <<installed, lost>>, events' \in 0..MaxEvents
    PROVE  IInv'
<1>1. s.current \in SessionType /\ s.current.key \in KeyType
  BY NodeFields, Zenon DEF Sound, SessionType
<1>2. s.current.key \in installed[n] /\ s.current.key \in installed[Other[n]]
  BY Zenon DEF Sound
<1>3. Sound(n, Seal(n, s, empty), installed')
  BY SealSound, Zenon
<1>4. /\ {Data(n, s.current.key, empty)} \subseteq MessageType
      /\ \A m \in {Data(n, s.current.key, empty)} :
           m.type = "data" /\ m.from = n /\ m.key = s.current.key
  BY <1>1, DataFields
<1> QED
  BY <1>2, <1>3, <1>4, StepSound, HistoryTyped

\* A step that sends nothing but the initiation its clock calls for.
LEMMA QuietStep ==
    ASSUME IInv, NEW n \in Nodes, NEW s, Sound(n, s, installed), Send(n, s, {}, net),
           UNCHANGED <<installed, lost>>, events' \in 0..MaxEvents
    PROVE  IInv'
BY StepSound, HistoryTyped

\* One lemma per action from here on: it keeps the invariant.
LEMMA SendInnerOK ==
    ASSUME IInv, NEW n \in Nodes, SendInner(n)
    PROVE  IInv'
<1> DEFINE s == node[n]
           p == [s EXCEPT !.parked = TRUE]
<1>1. Sound(n, s, installed) /\ events' \in 0..MaxEvents /\ UNCHANGED <<installed, lost>>
  BY NodesSound, EventTyped, Zenon DEF SendInner
<1>2. CASE Usable(s)
  BY <1>1, <1>2, SealedStep, Zenon DEF SendInner, Usable
<1>3. CASE ~Usable(s)
  <2>1. s \in NodeType /\ s.pending \in {0, s.ts}
    BY <1>1, Zenon DEF Sound
  <2>2. Sound(n, p, installed)
    <3>1. /\ p \in NodeType /\ p.pending = s.pending /\ p.ts = s.ts
          /\ p.current = s.current /\ p.previous = s.previous /\ p.next = s.next
      BY <2>1, Zenon DEF NodeType
    <3> HIDE DEF p
    <3> QED
      BY <1>1, <2>1, <3>1, SameSessions, Zenon
  <2>3. Sound(n, EnsureHandshake(p), installed)
    BY <2>2, RebuiltSound, Zenon
  <2> QED
    BY <1>1, <1>3, <2>3, QuietStep, Zenon DEF SendInner
<1> QED
  BY <1>2, <1>3, Zenon

\* An initiation that is answered keeps the invariant: the responder derives keys before its response is on the way.
LEMMA RxInitiationOK ==
    ASSUME IInv, NEW n \in Nodes, NEW m \in net, RxInitiation(n, m)
    PROVE  IInv'
<1> DEFINE s == node[n]
           key == [initiator |-> m.from, ts |-> m.ts, resp |-> s.resp + 1]
           g == NewSession(key, FALSE)
           taken == [s EXCEPT !.greatest = m.ts, !.resp = @ + 1]
           t == Respond(n, key, taken)
           message == Response(n, key)
<1>1. Sound(n, s, installed) /\ s \in NodeType /\ s.resp \in Nat /\ s.pending \in {0, s.ts}
  BY NodesSound, NodeFields, Zenon DEF Sound
<1>2. m.from \in Nodes /\ m.ts \in Nat
  <2>1. m.type = "init" /\ m \in MessageType
    BY Zenon DEF IInv, TypeOK, RxInitiation
  <2> QED
    BY <2>1, Zenon DEF MessageType
<1>3. key \in KeyType /\ g \in SessionType /\ g.key = key
  BY <1>1, <1>2 DEF KeyType, SessionType, NewSession
<1>4. /\ Send(n, t, {message}, Consumed(m)) /\ Consumed(m) \subseteq net
      /\ installed' = [installed EXCEPT ![n] = @ \cup {key}]
      /\ UNCHANGED <<lost, events>>
  BY Zenon DEF RxInitiation, Consumed
<1>5. /\ installed' \in [Nodes -> SUBSET KeyType] /\ key \in installed'[n]
      /\ \A x \in Nodes : installed[x] \subseteq installed'[x]
  <2> HIDE DEF key
  <2> QED
    BY <1>3, <1>4, HistoryTyped, Zenon
<1>6. message \in MessageType /\ message.type = "resp" /\ message.from = n /\ message.key = key
  <2> HIDE DEF key
  <2> QED
    BY <1>3, Zenon DEF Response, MessageType
<1>7. Sound(n, t, installed')
  <2>1. Sound(n, s, installed')
    BY <1>1, <1>5, SoundGrows, Zenon
  <2>2. /\ taken \in NodeType /\ taken.pending = s.pending /\ taken.ts = s.ts
        /\ taken.current = s.current /\ taken.previous = s.previous
    <3> DEFINE r == s.resp + 1
    <3>1. r \in Nat /\ taken = [s EXCEPT !.greatest = m.ts, !.resp = r]
      BY <1>1
    <3> HIDE DEF r, taken
    <3> QED
      BY <1>1, <1>2, <3>1, Zenon DEF NodeType
  <2>3. t = [taken EXCEPT !.next = g]
    BY Zenon DEF Respond
  <2> HIDE DEF taken, g, key, t
  <2>4. /\ t \in NodeType /\ t.pending = s.pending /\ t.ts = s.ts
        /\ t.current = s.current /\ t.previous = s.previous /\ t.next = g
    BY <1>3, <2>2, <2>3, Zenon DEF NodeType
  <2>5. t["current"] = s["current"] /\ t["previous"] = s["previous"] /\ t["next"] = g
    BY <2>4, Zenon
  <2> QED
    BY <1>3, <1>5, <2>1, <2>4, <2>5, Zenon DEF Sound
<1> DEFINE rest == Consumed(m)
<1> HIDE DEF s, g, taken, key, t, message, rest
<1>8. /\ {message} \subseteq MessageType /\ lost' \subseteq KeyType /\ events' \in 0..MaxEvents
      /\ \A x \in {message} :
           /\ x.type \in {"resp", "data"} /\ x.from = n /\ x.key \in installed'[n]
           /\ x.type = "data" => x.key \in installed'[Other[n]]
  BY <1>4, <1>5, <1>6, HistoryTyped, Zenon
<1>9. Send(n, t, {message}, rest) /\ rest \subseteq net
  BY <1>4, Zenon DEF rest
<1>10. PICK sent : sent = {message}
  BY Zenon
<1>11. /\ sent \subseteq MessageType /\ Send(n, t, sent, rest)
       /\ \A x \in sent :
            /\ x.type \in {"resp", "data"} /\ x.from = n /\ x.key \in installed'[n]
            /\ x.type = "data" => x.key \in installed'[Other[n]]
  BY <1>8, <1>9, <1>10, Zenon
<1> QED
  BY <1>5, <1>7, <1>8, <1>9, <1>11, StepSound, Zenon

\* So does a response: it is taken only by the handshake it answers.
LEMMA RxResponseOK ==
    ASSUME IInv, NEW n \in Nodes, NEW m \in net, RxResponse(n, m)
    PROVE  IInv'
<1> DEFINE s == node[n]
           done == [s EXCEPT !.pending = 0, !.parked = FALSE]
           g == NewSession(m.key, TRUE)
           open == Rotate(done, g)
           empty == ~s.parked
           message == Data(n, m.key, empty)
<1>1. Sound(n, s, installed) /\ s \in NodeType /\ empty \in BOOLEAN
  BY NodesSound, NodeFields, Zenon DEF Sound
<1>2. m.key \in KeyType /\ m.from = Other[n] /\ m.type = "resp"
  <2>1. m.type = "resp" /\ m \in MessageType /\ m.from = Other[n]
    BY Zenon DEF IInv, TypeOK, RxResponse
  <2> QED
    BY <2>1, Zenon DEF MessageType
<1>3. g \in SessionType /\ g.key = m.key
  BY <1>2 DEF SessionType, NewSession
<1>4. /\ Send(n, Seal(n, open, empty), {message}, Consumed(m)) /\ Consumed(m) \subseteq net
      /\ installed' = [installed EXCEPT ![n] = @ \cup {m.key}]
      /\ UNCHANGED <<lost, events>>
  BY Zenon DEF RxResponse, Consumed
<1>5. /\ installed' \in [Nodes -> SUBSET KeyType] /\ m.key \in installed'[n]
      /\ \A x \in Nodes : installed[x] \subseteq installed'[x]
  BY <1>2, <1>4, HistoryTyped, Zenon
<1>6. m.key \in installed'[Other[n]]
  <2>1. m.key \in installed[Other[n]]
    BY <1>2, Zenon DEF IInv, MessagesKnown
  <2> QED
    BY <1>5, <2>1, OtherAssumption, Zenon
<1>7. /\ message \in MessageType /\ message.type = "data" /\ message.from = n
      /\ message.key = m.key
  <2> HIDE DEF empty
  <2> QED
    BY <1>1, <1>2, DataFields
<1>8. Sound(n, Seal(n, open, empty), installed')
  <2>1. Sound(n, s, installed')
    BY <1>1, <1>5, SoundGrows, Zenon
  <2>2. /\ done \in NodeType /\ done.pending = 0
        /\ done.current = s.current /\ done.previous = s.previous /\ done.next = s.next
    BY <1>1, Zenon DEF NodeType
  <2> HIDE DEF done, g, empty
  <2>3. Sound(n, done, installed')
    BY <2>1, <2>2, SameSessions, Zenon
  <2>4. Sound(n, open, installed') /\ open.current = g
    BY <1>3, <1>5, <1>6, <2>3, RotateSound
  <2>5. open.current # None
    BY <1>3, <2>4, NoneAssumption, Zenon
  <2> HIDE DEF open
  <2> QED
    BY <1>1, <2>4, <2>5, SealSound, Zenon
<1> DEFINE rest == Consumed(m)
           u == Seal(n, open, empty)
<1> HIDE DEF s, g, done, open, empty, message, rest, u
<1>9. /\ {message} \subseteq MessageType /\ lost' \subseteq KeyType /\ events' \in 0..MaxEvents
      /\ \A x \in {message} :
           /\ x.type \in {"resp", "data"} /\ x.from = n /\ x.key \in installed'[n]
           /\ x.type = "data" => x.key \in installed'[Other[n]]
  BY <1>4, <1>5, <1>6, <1>7, HistoryTyped, Zenon
<1>10. Send(n, u, {message}, rest) /\ rest \subseteq net /\ Sound(n, u, installed')
  BY <1>4, <1>8, Zenon DEF rest, u
<1> QED
  BY <1>5, <1>9, <1>10, StepSound

\* So does a transport message, which confirms a session or finds it.
LEMMA RxDataOK ==
    ASSUME IInv, NEW n \in Nodes, NEW m \in net, RxData(n, m)
    PROVE  IInv'
<1> DEFINE s == node[n]
           waiting == s.next # None /\ s.next.key = m.key
           cleared == [s EXCEPT !.next = None]
           g == [s.next EXCEPT !.confirmed = TRUE]
           turned == IF waiting THEN Rotate(cleared, g) ELSE s
           heard == Heard(turned, m.empty)
           c == [heard EXCEPT !.current.rekeyed = TRUE]
           p == [heard EXCEPT !.previous.rekeyed = TRUE]
           rest == Consumed(m)
<1>1. Sound(n, s, installed) /\ s \in NodeType
  BY NodesSound, Zenon DEF Sound
<1>2. /\ m.key \in KeyType /\ m.empty \in BOOLEAN
      /\ m.key \in installed[n] /\ m.key \in installed[Other[n]]
  <2>1. m.type = "data" /\ m \in MessageType /\ m.from = Other[n]
    BY Zenon DEF IInv, TypeOK, RxData
  <2>2. Other[m.from] = n
    BY <2>1, OtherAssumption, Zenon
  <2>3. m.key \in installed[m.from] /\ m.key \in installed[Other[m.from]]
    BY <2>1, Zenon DEF IInv, MessagesKnown, DataHasReader
  <2> QED
    BY <2>1, <2>2, <2>3, Zenon DEF MessageType
<1>3. Sound(n, turned, installed)
  <2>1. CASE waiting
    <3>1. s.next \in SessionType
      BY <1>1, <2>1, NodeFields, Zenon
    <3>2. g \in SessionType /\ g.key = m.key
      BY <2>1, <3>1, Zenon DEF SessionType
    <3>3. /\ cleared \in NodeType /\ cleared.pending = s.pending /\ cleared.ts = s.ts
          /\ cleared.current = s.current /\ cleared.previous = s.previous /\ cleared.next = None
      BY <1>1, Zenon DEF NodeType
    <3> HIDE DEF cleared, g
    <3>4. /\ cleared["current"] = s["current"] /\ cleared["previous"] = s["previous"]
          /\ cleared["next"] = None
      BY <3>3, Zenon
    <3>5. Sound(n, cleared, installed)
      BY <1>1, <3>3, <3>4, Zenon DEF Sound
    <3> QED
      BY <1>2, <2>1, <3>2, <3>5, RotateSound, Zenon
  <2> QED
    BY <1>1, <2>1, Zenon
<1> HIDE DEF turned, waiting
<1>4. Sound(n, heard, installed)
  <2>1. turned \in NodeType /\ turned.pending \in {0, turned.ts}
    BY <1>3, Zenon DEF Sound
  <2> DEFINE k == turned.keepaliveDue \/ ~m.empty
  <2>2. k \in BOOLEAN /\ heard = [turned EXCEPT !.replyDue = FALSE, !.keepaliveDue = k]
    BY <1>2, <2>1, NodeFields, Zenon DEF Heard
  <2> HIDE DEF k, heard
  <2>3. /\ heard \in NodeType /\ heard.pending = turned.pending /\ heard.ts = turned.ts
        /\ heard.current = turned.current /\ heard.previous = turned.previous
        /\ heard.next = turned.next
    BY <2>1, <2>2, Zenon DEF NodeType
  <2> QED
    BY <1>3, <2>1, <2>3, SameSessions, Zenon
<1> HIDE DEF heard
<1>5. heard \in NodeType
  BY <1>4, Zenon DEF Sound
<1>6. ASSUME heard.current # None
      PROVE  Sound(n, c, installed)
  <2> DEFINE d == [heard.current EXCEPT !.rekeyed = TRUE]
  <2>1. d \in SessionType /\ d.key = heard.current.key /\ c = [heard EXCEPT !.current = d]
    BY <1>5, <1>6, NodeFields, Zenon DEF SessionType
  <2> HIDE DEF d, c
  <2>2. /\ c \in NodeType /\ c.pending = heard.pending /\ c.ts = heard.ts
        /\ c.current = d /\ c.previous = heard.previous /\ c.next = heard.next
    BY <1>5, <2>1, Zenon DEF NodeType
  <2>3. c["current"] = d /\ c["previous"] = heard["previous"] /\ c["next"] = heard["next"]
    BY <2>2, Zenon
  <2> QED
    BY <1>4, <1>6, <2>1, <2>2, <2>3, Zenon DEF Sound
<1>7. ASSUME heard.previous # None
      PROVE  Sound(n, p, installed)
  <2> DEFINE d == [heard.previous EXCEPT !.rekeyed = TRUE]
  <2>1. d \in SessionType /\ d.key = heard.previous.key /\ p = [heard EXCEPT !.previous = d]
    BY <1>5, <1>7, NodeFields, Zenon DEF SessionType
  <2> HIDE DEF d, p
  <2>2. /\ p \in NodeType /\ p.pending = heard.pending /\ p.ts = heard.ts
        /\ p.current = heard.current /\ p.previous = d /\ p.next = heard.next
    BY <1>5, <2>1, Zenon DEF NodeType
  <2>3. p["current"] = heard["current"] /\ p["previous"] = d /\ p["next"] = heard["next"]
    BY <2>2, Zenon
  <2> QED
    BY <1>4, <1>7, <2>1, <2>2, <2>3, Zenon DEF Sound
<1>8. PICK r : /\ Send(n, r, {}, rest) /\ rest \subseteq net
               /\ \/ heard.current # None /\ r = EnsureHandshake(c)
                  \/ heard.previous # None /\ r = EnsureHandshake(p)
                  \/ r = heard
  BY Zenon DEF RxData, Consumed, heard, turned, waiting
<1> HIDE DEF c, p, rest
<1>9. Sound(n, r, installed)
  BY <1>4, <1>6, <1>7, <1>8, RebuiltSound, Zenon
<1>10. UNCHANGED <<installed, lost, events>>
  BY Zenon DEF RxData
<1> QED
  BY <1>8, <1>9, <1>10, StepSound, HistoryTyped

\* Clearing flags and ending an attempt leave the sessions alone.
LEMMA FlagsSound ==
    ASSUME IInv, NEW n \in Nodes
    PROVE  /\ Sound(n, [node[n] EXCEPT !.keepaliveDue = FALSE], installed)
           /\ Sound(n, [node[n] EXCEPT !.replyDue = FALSE], installed)
           /\ Sound(n, [node[n] EXCEPT !.parked = FALSE], installed)
           /\ Sound(n, [node[n] EXCEPT !.pending = 0, !.parked = FALSE], installed)
<1> DEFINE s == node[n]
           k == [s EXCEPT !.keepaliveDue = FALSE]
           r == [s EXCEPT !.replyDue = FALSE]
           q == [s EXCEPT !.parked = FALSE]
           g == [s EXCEPT !.pending = 0, !.parked = FALSE]
<1>1. Sound(n, s, installed) /\ s \in NodeType /\ s.pending \in {0, s.ts}
  BY NodesSound, Zenon DEF Sound
<1> HIDE DEF s
<1>2. Sound(n, k, installed)
  <2>1. /\ k \in NodeType /\ k.pending = s.pending /\ k.ts = s.ts
        /\ k.current = s.current /\ k.previous = s.previous /\ k.next = s.next
    BY <1>1, Zenon DEF NodeType
  <2> HIDE DEF k
  <2> QED  BY <1>1, <2>1, SameSessions, Zenon
<1>3. Sound(n, r, installed)
  <2>1. /\ r \in NodeType /\ r.pending = s.pending /\ r.ts = s.ts
        /\ r.current = s.current /\ r.previous = s.previous /\ r.next = s.next
    BY <1>1, Zenon DEF NodeType
  <2> HIDE DEF r
  <2> QED  BY <1>1, <2>1, SameSessions, Zenon
<1>4. Sound(n, q, installed)
  <2>1. /\ q \in NodeType /\ q.pending = s.pending /\ q.ts = s.ts
        /\ q.current = s.current /\ q.previous = s.previous /\ q.next = s.next
    BY <1>1, Zenon DEF NodeType
  <2> HIDE DEF q
  <2> QED  BY <1>1, <2>1, SameSessions, Zenon
<1>5. Sound(n, g, installed)
  <2>1. /\ g \in NodeType /\ g.pending = 0
        /\ g.current = s.current /\ g.previous = s.previous /\ g.next = s.next
    BY <1>1, Zenon DEF NodeType
  <2> HIDE DEF g
  <2> QED  BY <1>1, <2>1, SameSessions, Zenon
<1> QED
  BY <1>2, <1>3, <1>4, <1>5, Zenon DEF s

\* So do the timers of an engine.
LEMMA TimersOK ==
    ASSUME IInv, NEW n \in Nodes,
           \/ Retransmit(n) \/ GiveUp(n) \/ PacketExpires(n)
           \/ KeepaliveTimer(n) \/ PersistentKeepaliveTimer(n) \/ ReplyTimer(n)
    PROVE  IInv'
<1>1. Sound(n, node[n], installed)
  BY NodesSound, Zenon
<1>2. UNCHANGED <<installed, lost>> /\ events' \in 0..MaxEvents
  BY HistoryTyped, EventTyped, Zenon DEF Retransmit, GiveUp, PacketExpires, KeepaliveTimer,
     PersistentKeepaliveTimer, ReplyTimer, Elapsed
<1>3. CASE Retransmit(n)
  BY <1>1, <1>2, <1>3, RebuiltSound, QuietStep, Zenon DEF Retransmit
<1>4. CASE GiveUp(n)
  BY <1>2, <1>4, FlagsSound, QuietStep, Zenon DEF GiveUp
<1>5. CASE PacketExpires(n)
  BY <1>2, <1>5, FlagsSound, QuietStep, Zenon DEF PacketExpires
<1>6. CASE KeepaliveTimer(n)
  <2> DEFINE s == [node[n] EXCEPT !.keepaliveDue = FALSE]
  <2>1. Sound(n, s, installed)
    BY FlagsSound, Zenon
  <2>2. \/ s.current # None /\ Send(n, Seal(n, s, TRUE), {Data(n, s.current.key, TRUE)}, net)
        \/ Send(n, s, {}, net)
    BY <1>6, Zenon DEF KeepaliveTimer, Usable
  <2> HIDE DEF s
  <2> QED
    BY <1>2, <2>1, <2>2, SealedStep, QuietStep, Zenon
<1>7. CASE PersistentKeepaliveTimer(n)
  <2> DEFINE s == node[n]
  <2>1. \/ s.current # None /\ Send(n, Seal(n, s, TRUE), {Data(n, s.current.key, TRUE)}, net)
        \/ Send(n, EnsureHandshake(s), {}, net)
    BY <1>7, Zenon DEF PersistentKeepaliveTimer, Usable
  <2>2. Sound(n, EnsureHandshake(s), installed)
    BY <1>1, RebuiltSound, Zenon
  <2> QED
    BY <1>1, <1>2, <2>1, <2>2, SealedStep, QuietStep, Zenon
<1>8. CASE ReplyTimer(n)
  <2> DEFINE s == [node[n] EXCEPT !.replyDue = FALSE]
  <2>1. Sound(n, s, installed) /\ Send(n, EnsureHandshake(s), {}, net)
    BY <1>8, FlagsSound, Zenon DEF ReplyTimer
  <2> HIDE DEF s
  <2> QED
    BY <1>2, <2>1, RebuiltSound, QuietStep, Zenon
<1> QED
  BY <1>3, <1>4, <1>5, <1>6, <1>7, <1>8, Zenon

\* A node replaced by a sound state, with nothing sent.
LEMMA ReplacedOK ==
    ASSUME IInv, NEW n \in Nodes, NEW s, Sound(n, s, installed),
           node' = [node EXCEPT ![n] = s], UNCHANGED <<net, installed>>,
           lost' \subseteq KeyType, events' \in 0..MaxEvents
    PROVE  IInv'
<1>1. s \in NodeType /\ s.pending \in {0, s.ts}
  BY Zenon DEF Sound
<1>2. \A x \in Nodes : Sound(x, node'[x], installed)
  BY NodesSound, Zenon DEF IInv, TypeOK
<1>3. TypeOK'
  BY <1>1, <1>2, Zenon DEF IInv, TypeOK, Sound
<1>4. SessionsKnown'
  BY <1>2, Zenon DEF SessionsKnown, Sound
<1>5. MessagesKnown' /\ DataHasReader'
  BY Zenon DEF IInv, MessagesKnown, DataHasReader
<1> QED
  BY <1>3, <1>4, <1>5, Zenon DEF IInv

\* A generation replaced by the same session at another age, or by none.
LEMMA SessionReplaced ==
    ASSUME NEW n, NEW i, NEW s, Sound(n, s, i), NEW g \in {"current", "previous", "next"},
           NEW x \in SessionType \cup {None}, x # None => s[g] # None /\ x.key = s[g].key
    PROVE  Sound(n, [s EXCEPT ![g] = x], i)
<1>1. s \in NodeType
  BY Zenon DEF Sound
<1>2. CASE g = "current"
  <2> DEFINE t == [s EXCEPT !.current = x]
  <2>1. /\ t \in NodeType /\ t.pending = s.pending /\ t.ts = s.ts
        /\ t.current = x /\ t.previous = s.previous /\ t.next = s.next
    BY <1>1, Zenon DEF NodeType
  <2>2. [s EXCEPT ![g] = x] = t
    BY <1>2, Zenon
  <2> HIDE DEF t
  <2>3. t["current"] = x /\ t["previous"] = s["previous"] /\ t["next"] = s["next"]
    BY <2>1, Zenon
  <2> QED
    BY <1>2, <2>1, <2>2, <2>3, Zenon DEF Sound
<1>3. CASE g = "previous"
  <2> DEFINE t == [s EXCEPT !.previous = x]
  <2>1. /\ t \in NodeType /\ t.pending = s.pending /\ t.ts = s.ts
        /\ t.previous = x /\ t.current = s.current /\ t.next = s.next
    BY <1>1, Zenon DEF NodeType
  <2>2. [s EXCEPT ![g] = x] = t
    BY <1>3, Zenon
  <2> HIDE DEF t
  <2>3. t["previous"] = x /\ t["current"] = s["current"] /\ t["next"] = s["next"]
    BY <2>1, Zenon
  <2> QED
    BY <1>3, <2>1, <2>2, <2>3, Zenon DEF Sound
<1>4. CASE g = "next"
  <2> DEFINE t == [s EXCEPT !.next = x]
  <2>1. /\ t \in NodeType /\ t.pending = s.pending /\ t.ts = s.ts
        /\ t.next = x /\ t.current = s.current /\ t.previous = s.previous
    BY <1>1, Zenon DEF NodeType
  <2>2. [s EXCEPT ![g] = x] = t
    BY <1>4, Zenon
  <2> HIDE DEF t
  <2>3. t["next"] = x /\ t["current"] = s["current"] /\ t["previous"] = s["previous"]
    BY <2>1, Zenon
  <2> QED
    BY <1>4, <2>1, <2>2, <2>3, Zenon DEF Sound
<1> QED
  BY <1>2, <1>3, <1>4, Zenon

\* So does the expiry of a session, which only takes keys away from their owner.
LEMMA AgeOK ==
    ASSUME IInv, NEW n \in Nodes, NEW g \in {"current", "previous", "next"}, Age(n, g)
    PROVE  IInv'
<1> DEFINE s == node[n]
           older == [s[g] EXCEPT !.age = @ + 1]
<1>1. Sound(n, s, installed) /\ node \in [Nodes -> NodeType]
  BY NodesSound, Zenon DEF IInv, TypeOK
<1>2. s[g] # None /\ s[g] \in SessionType /\ s[g].key \in KeyType
  <2>1. s \in NodeType /\ s[g] # None
    BY <1>1, Zenon DEF Age
  <2>2. s[g] \in SessionType \cup {None}
    BY <2>1, NodeFields, Zenon
  <2> QED
    BY <2>1, <2>2, Zenon DEF SessionType
<1>3. events' \in 0..MaxEvents /\ UNCHANGED <<net, installed>>
  BY EventTyped, Zenon DEF Age
<1>4. CASE s[g].age < 2
  <2>1. older \in SessionType /\ older.key = s[g].key
    BY <1>2, <1>4 DEF SessionType
  <2>2. node' = [node EXCEPT ![n] = [s EXCEPT ![g] = older]] /\ lost' = lost
    BY <1>1, <1>4, Zenon DEF Age
  <2> HIDE DEF older, s
  <2>3. Sound(n, [s EXCEPT ![g] = older], installed)
    BY <1>1, <1>2, <2>1, SessionReplaced, Zenon
  <2> QED
    BY <1>3, <2>2, <2>3, ReplacedOK, HistoryTyped, Zenon
<1>5. CASE ~(s[g].age < 2)
  <2>1. /\ node' = [node EXCEPT ![n] = [s EXCEPT ![g] = None]]
        /\ lost' = lost \cup {s[g].key}
    BY <1>1, <1>5, Zenon DEF Age
  <2> HIDE DEF s
  <2>2. Sound(n, [s EXCEPT ![g] = None], installed)
    BY <1>1, SessionReplaced, Zenon
  <2> QED
    BY <1>2, <1>3, <2>1, <2>2, ReplacedOK, HistoryTyped, Zenon
<1> QED
  BY <1>4, <1>5, Zenon

\* So does a restart: what the engine has forgotten stays derived.
LEMMA RestartOK ==
    ASSUME IInv, NEW n \in Nodes, Restart(n)
    PROVE  IInv'
<1> DEFINE t == NewNode(node[n].ts, node[n].resp)
<1>1. node[n] \in NodeType /\ node \in [Nodes -> NodeType]
  BY Zenon DEF IInv, TypeOK
<1>2. /\ t \in NodeType /\ t.pending = 0
      /\ t.current = None /\ t.previous = None /\ t.next = None
  BY <1>1, NodeFields, Zenon DEF NewNode, NodeType
<1>3. node' = [node EXCEPT ![n] = t] /\ UNCHANGED <<net, installed>>
  BY <1>1, Zenon DEF Restart
<1>4. Holds(node[n]) \subseteq KeyType
  <2>1. Generations(node[n]) \subseteq SessionType
    BY <1>1, NodeFields, Zenon DEF Generations
  <2> QED
    BY <2>1, Zenon DEF Holds, SessionType
<1>5. lost' \subseteq KeyType /\ events' \in 0..MaxEvents
  BY <1>4, HistoryTyped, EventTyped, Zenon DEF Restart
<1> HIDE DEF t
<1>6. t["current"] = None /\ t["previous"] = None /\ t["next"] = None
  BY <1>2, Zenon
<1>7. Sound(n, t, installed)
  BY <1>2, <1>6, Zenon DEF Sound
<1> QED
  BY <1>3, <1>5, <1>7, ReplacedOK, Zenon

\* Losing or ignoring a datagram.
LEMMA ShrinkOK ==
    ASSUME IInv, net' \subseteq net, UNCHANGED <<node, installed, lost>>,
           events' \in 0..MaxEvents
    PROVE  IInv'
BY Zenon DEF IInv, TypeOK, SessionsKnown, MessagesKnown, DataHasReader

\* At the start nothing is under way.
LEMMA InitOK == Init => IInv
<1> SUFFICES ASSUME Init PROVE IInv
  BY Zenon
<1>1. /\ NewNode(0, 0) \in NodeType /\ NewNode(0, 0).pending = 0
      /\ NewNode(0, 0)["current"] = None /\ NewNode(0, 0)["previous"] = None
      /\ NewNode(0, 0)["next"] = None
  BY Zenon DEF NewNode, NodeType
<1>2. \A n \in Nodes : node[n] = NewNode(0, 0)
  BY Zenon DEF Init
<1>3. TypeOK
  BY <1>1, <1>2, ConstantsAssumption DEF Init, TypeOK
<1>4. SessionsKnown
  BY <1>1, <1>2, Zenon DEF SessionsKnown
<1> QED
  BY <1>3, <1>4, Zenon DEF Init, IInv, MessagesKnown, DataHasReader

\* Every step keeps the invariant.
LEMMA NextOK == IInv /\ [Next]_vars => IInv'
<1> SUFFICES ASSUME IInv, [Next]_vars PROVE IInv'
  BY Zenon
<1>1. CASE UNCHANGED vars
  BY <1>1, Zenon DEF vars, IInv, TypeOK, SessionsKnown, MessagesKnown, DataHasReader
<1>2. ASSUME NEW n \in Nodes, NEW m \in net, Ignore(n, m)
      PROVE  IInv'
  BY <1>2, ShrinkOK, HistoryTyped, Zenon DEF Ignore
<1>3. ASSUME NEW m \in net, Lose(m)
      PROVE  IInv'
  BY <1>3, ShrinkOK, EventTyped, Zenon DEF Lose
<1> QED
  BY <1>1, <1>2, <1>3, SendInnerOK, RestartOK, TimersOK, AgeOK, RxInitiationOK,
     RxResponseOK, RxDataOK, Zenon DEF Next

\* The inductive invariant holds always.
LEMMA SpecIInv == Spec => []IInv
BY InitOK, NextOK, PTL DEF Spec

\* The state of both engines and the datagrams keep their types, and the
\* handshake slot is bound to the newest initiation (build_initiation).
THEOREM SpecTypeOK == Spec => []TypeOK
<1>1. IInv => TypeOK
  BY Zenon DEF IInv
<1> QED
  BY <1>1, SpecIInv, PTL

\* Neither end ever sends under transport keys the other has not derived,
\* whatever the network, the restarts and the timers do (can_send, rx_data).
THEOREM SpecDataHasReader == Spec => []DataHasReader
<1>1. IInv => DataHasReader
  BY Zenon DEF IInv
<1> QED
  BY <1>1, SpecIInv, PTL

-------------------------------------------------------------------------------
(* Both ends agree on the session an attempt leads to. The second invariant  *)
(* relates what is on the network to what waits at the nodes: a response to  *)
(* the newest initiation offers a session that still waits at the responder. *)

\* The session a node offered waits in next.
Waits(s, key) == s.next # None /\ s.next.key = key

\* The newest initiation a node sent has the last of its timestamps.
InitiationsOld == \A m \in net : m.type = "init" => m.ts <= node[m.from].ts

\* A response to the newest initiation offers a session that still waits at the
\* responder, unless the initiator has it already or the responder lost it.
Offered(m, nd, ins, lst) ==
    LET n == Other[m.from] IN
    /\ m.key.initiator = n /\ m.key.ts <= nd[n].ts
    /\ m.key.ts = nd[n].ts /\ m.key \notin ins[n] => Waits(nd[m.from], m.key) \/ m.key \in lst
ResponsesOffer == \A m \in net : m.type = "resp" => Offered(m, node, installed, lost)

\* What waits answers an initiation of the other node that was accepted.
NextOlder(n, s) ==
    s.next # None => s.next.key.initiator = Other[n] /\ s.next.key.ts <= s.greatest
NextAccepted == \A n \in Nodes : NextOlder(n, node[n])

AgreeInv == InitiationsOld /\ ResponsesOffer /\ NextAccepted

\* A message that node n may put on the network when it moves to s.
Sendable(m, n, s) ==
    \/ m.type = "data"
    \/ m.type = "init" /\ m.from = n /\ m.ts = s.ts
    \/ /\ m.type = "resp" /\ m.from = n /\ Waits(s, m.key)
       /\ m.key.initiator = Other[n] /\ m.key.ts <= node[Other[n]].ts

\* The session that waited still does, or is of no further use.
WaitOver(n, s) ==
    node[n].next # None =>
      \/ Waits(s, node[n].next.key)
      \/ node[n].next.key \in lost' \/ node[n].next.key \in installed'[Other[n]]
      \/ node[n].next.key.ts < node[Other[n]].ts

\* What a step has to respect to keep the agreement.
LEMMA AgreeStep ==
    ASSUME IInv, AgreeInv, NEW n \in Nodes, NEW s \in NodeType, node' = [node EXCEPT ![n] = s],
           node[n].ts <= s.ts, NextOlder(n, s), WaitOver(n, s),
           \A x \in Nodes : installed[x] \subseteq installed'[x], lost \subseteq lost',
           \A m \in net' : m \in net \/ Sendable(m, n, s)
    PROVE  AgreeInv'
<1>1. /\ node \in [Nodes -> NodeType] /\ net \subseteq MessageType
  BY Zenon DEF IInv, TypeOK
<1>2. \A x \in Nodes : /\ node[x].ts \in Nat /\ node'[x].ts \in Nat /\ node[x].ts <= node'[x].ts
                       /\ node'[x] = (IF x = n THEN s ELSE node[x])
  <2>1. \A x \in Nodes : node[x].ts \in Nat
    BY <1>1, NodeFields, Zenon
  <2>2. s.ts \in Nat
    BY NodeFields, Zenon
  <2>3. \A x \in Nodes : node'[x] = (IF x = n THEN s ELSE node[x])
    BY <1>1, Zenon
  <2> QED BY <2>1, <2>2, <2>3
<1>3. Other[n] \in Nodes /\ Other[n] # n /\ Other[Other[n]] = n
  BY OtherAssumption, Zenon
<1>4. InitiationsOld'
  <2> SUFFICES ASSUME NEW m \in net', m.type = "init" PROVE m.ts <= node'[m.from].ts
    BY Zenon DEF InitiationsOld
  <2>1. CASE m \in net
    <3>1. m.from \in Nodes /\ m.ts \in Nat
      BY <1>1, <2>1, Zenon DEF MessageType
    <3>2. m.ts <= node[m.from].ts
      BY <2>1, Zenon DEF AgreeInv, InitiationsOld
    <3> QED BY <1>2, <3>1, <3>2
  <2>2. CASE Sendable(m, n, s)
    BY <1>2, <2>2 DEF Sendable
  <2> QED BY <2>1, <2>2, Zenon
<1>5. NextAccepted'
  <2> SUFFICES ASSUME NEW x \in Nodes PROVE NextOlder(x, node'[x])
    BY Zenon DEF NextAccepted
  <2>1. NextOlder(x, node[x])
    BY Zenon DEF AgreeInv, NextAccepted
  <2> QED BY <1>2, <2>1, Zenon
<1>6. ResponsesOffer'
  <2> SUFFICES ASSUME NEW m \in net', m.type = "resp" PROVE Offered(m, node', installed', lost')
    BY Zenon DEF ResponsesOffer
  <2>1. CASE m \in net
    <3>1. m.from \in Nodes /\ m.key \in KeyType /\ m.key.ts \in Nat
      BY <1>1, <2>1, Zenon DEF MessageType, KeyType
    <3>2. PICK o \in Nodes : o = Other[m.from] /\ o # m.from /\ Other[o] = m.from
      BY <3>1, OtherAssumption, Zenon
    <3>3. /\ m.key.initiator = o /\ m.key.ts <= node[o].ts
          /\ m.key.ts = node[o].ts /\ m.key \notin installed[o] => Waits(node[m.from], m.key) \/ m.key \in lost
      BY <2>1, <3>2, Zenon DEF AgreeInv, ResponsesOffer, Offered
    <3>4. m.key.ts <= node'[o].ts
      BY <1>2, <3>1, <3>2, <3>3
    <3>5. ASSUME m.key.ts = node'[o].ts, m.key \notin installed'[o]
          PROVE  Waits(node'[m.from], m.key) \/ m.key \in lost'
      <4>1. m.key.ts = node[o].ts /\ m.key \notin installed[o]
        BY <1>2, <3>1, <3>3, <3>5
      <4>2. CASE m.key \in lost
        BY <4>2, Zenon
      <4>3. CASE Waits(node[m.from], m.key) /\ m.from # n
        BY <1>2, <3>1, <4>3
      <4>4. CASE Waits(node[m.from], m.key) /\ m.from = n
        <5>1. node[n].next # None /\ node[n].next.key = m.key /\ Other[n] = o
          BY <3>2, <4>4, Zenon DEF Waits
        <5>2. Waits(s, m.key) \/ m.key \in lost'
          BY <1>2, <3>1, <3>5, <4>1, <5>1 DEF WaitOver
        <5> QED BY <1>2, <3>1, <4>4, <5>2, Zenon
      <4> QED BY <3>3, <4>1, <4>2, <4>3, <4>4, Zenon
    <3> QED BY <3>2, <3>3, <3>4, <3>5, Zenon DEF Offered
  <2>2. CASE Sendable(m, n, s)
    <3>1. /\ m.from = n /\ Waits(s, m.key)
          /\ m.key.initiator = Other[n] /\ m.key.ts <= node[Other[n]].ts
      BY <2>2, Zenon DEF Sendable
    <3>2. node'[n] = s /\ node'[Other[n]] = node[Other[n]]
      BY <1>2, <1>3, Zenon
    <3> QED BY <3>1, <3>2, Zenon DEF Offered
  <2> QED BY <2>1, <2>2, Zenon
<1> QED BY <1>4, <1>5, <1>6, Zenon DEF AgreeInv

\* A move that leaves what waits alone and answers nobody.
Steady(t, s) == s.next = t.next /\ s.greatest = t.greatest /\ t.ts <= s.ts


\* Moves one after the other.
LEMMA SteadyTwice ==
    ASSUME NEW t \in NodeType, NEW u \in NodeType, NEW s \in NodeType, Steady(t, u), Steady(u, s)
    PROVE  Steady(t, s)
<1>1. t.ts \in Nat /\ u.ts \in Nat /\ s.ts \in Nat
  BY NodeFields, Zenon
<1> QED BY <1>1 DEF Steady

\* Flags, the slot and the packets have no part in what waits.
LEMMA SteadyFlags ==
    ASSUME NEW t \in NodeType
    PROVE  /\ [t EXCEPT !.parked = TRUE] \in NodeType /\ Steady(t, [t EXCEPT !.parked = TRUE])
           /\ [t EXCEPT !.parked = FALSE] \in NodeType /\ Steady(t, [t EXCEPT !.parked = FALSE])
           /\ [t EXCEPT !.keepaliveDue = FALSE] \in NodeType /\ Steady(t, [t EXCEPT !.keepaliveDue = FALSE])
           /\ [t EXCEPT !.replyDue = FALSE] \in NodeType /\ Steady(t, [t EXCEPT !.replyDue = FALSE])
           /\ [t EXCEPT !.pending = 0, !.parked = FALSE] \in NodeType
           /\ Steady(t, [t EXCEPT !.pending = 0, !.parked = FALSE])
<1>1. t.ts \in Nat /\ t.ts <= t.ts
  BY NodeFields
<1>2. /\ [t EXCEPT !.parked = TRUE] \in NodeType /\ [t EXCEPT !.parked = FALSE] \in NodeType
      /\ [t EXCEPT !.keepaliveDue = FALSE] \in NodeType /\ [t EXCEPT !.replyDue = FALSE] \in NodeType
  BY Zenon DEF NodeType
<1>3. [t EXCEPT !.pending = 0, !.parked = FALSE] \in NodeType
  BY Zenon DEF NodeType
<1>4. Steady(t, [t EXCEPT !.parked = TRUE]) /\ Steady(t, [t EXCEPT !.parked = FALSE])
  BY <1>1, Zenon DEF NodeType, Steady
<1>5. Steady(t, [t EXCEPT !.keepaliveDue = FALSE]) /\ Steady(t, [t EXCEPT !.replyDue = FALSE])
  BY <1>1, Zenon DEF NodeType, Steady
<1>6. Steady(t, [t EXCEPT !.pending = 0, !.parked = FALSE])
  BY <1>1, Zenon DEF NodeType, Steady
<1> QED BY <1>2, <1>3, <1>4, <1>5, <1>6, Zenon

\* A new initiation has none either.
LEMMA SteadyRebuilt ==
    ASSUME NEW t \in NodeType
    PROVE  /\ Rebuilt(t) \in NodeType /\ Steady(t, Rebuilt(t))
           /\ EnsureHandshake(t) \in NodeType /\ Steady(t, EnsureHandshake(t))
           /\ EnsureHandshake(t).current = t.current
<1>1. t.ts \in Nat
  BY NodeFields, Zenon
<1>2. PICK v \in Nat : v = t.ts + 1 /\ t.ts <= v
  BY <1>1
<1>3. Rebuilt(t) = [t EXCEPT !.ts = v, !.pending = v]
  BY <1>2, Zenon DEF Rebuilt
<1>4. [t EXCEPT !.ts = v, !.pending = v] \in NodeType
  BY <1>2, Zenon DEF NodeType
<1>5. Steady(t, [t EXCEPT !.ts = v, !.pending = v]) /\ [t EXCEPT !.ts = v, !.pending = v].current = t.current
  BY <1>2, Zenon DEF NodeType, Steady
<1>6. Steady(t, t)
  BY <1>1 DEF Steady
<1> QED BY <1>3, <1>4, <1>5, <1>6, Zenon DEF EnsureHandshake

\* Sealing has none, and keeps the current session's keys.
LEMMA SteadySeal ==
    ASSUME NEW t \in NodeType, t.current # None, NEW n, NEW empty \in BOOLEAN
    PROVE  /\ Steady(t, Seal(n, t, empty))
           /\ Seal(n, t, empty).current # None /\ Seal(n, t, empty).current.key = t.current.key
<1>1. t.current \in SessionType /\ t.ts \in Nat /\ t.replyDue \in BOOLEAN
  BY NodeFields, Zenon
<1>2. PICK rekey : rekey = (t.current.key.initiator = n /\ t.current.age > 0 /\ ~t.current.rekeyed)
  BY Zenon
<1>3. PICK c : c = [t.current EXCEPT !.rekeyed = @ \/ (t.current.key.initiator = n /\ t.current.age > 0 /\ ~t.current.rekeyed)]
  BY Zenon
<1>4. c \in SessionType /\ c.key = t.current.key
  BY <1>1, <1>3, Zenon DEF SessionType
<1>5. PICK r \in BOOLEAN : r = (t.replyDue \/ ~empty)
  BY <1>1, Zenon
<1>6. PICK sealed : sealed = [t EXCEPT !.current = c, !.keepaliveDue = FALSE, !.replyDue = r]
  BY Zenon
<1>7. sealed \in NodeType /\ sealed.current = c
  BY <1>4, <1>6, Zenon DEF NodeType
<1>8. Steady(t, sealed)
  BY <1>1, <1>6 DEF NodeType, Steady
<1>9. Seal(n, t, empty) = sealed \/ Seal(n, t, empty) = EnsureHandshake(sealed)
  BY <1>3, <1>5, <1>6, Zenon DEF Seal
<1>10. EnsureHandshake(sealed) \in NodeType /\ Steady(sealed, EnsureHandshake(sealed)) /\ EnsureHandshake(sealed).current = c
  BY <1>7, SteadyRebuilt, Zenon
<1>11. Steady(t, EnsureHandshake(sealed))
  BY <1>7, <1>8, <1>10, SteadyTwice, Zenon
<1>12. c # None
  BY <1>4, NoneAssumption, Zenon
<1> QED BY <1>4, <1>7, <1>8, <1>9, <1>10, <1>11, <1>12, Zenon

\* What a step that leaves the waiting session alone has to respect.
LEMMA SteadySend ==
    ASSUME IInv, IInv', AgreeInv, NEW n \in Nodes, NEW s, NEW messages, NEW rest,
           Send(n, s, messages, rest), rest \subseteq net, \A m \in messages : m.type = "data",
           Steady(node[n], s), \A x \in Nodes : installed[x] \subseteq installed'[x], lost' = lost
    PROVE  AgreeInv'
<1>1. node' = [node EXCEPT ![n] = s] /\ node \in [Nodes -> NodeType]
  BY Zenon DEF Send, IInv, TypeOK
<1>2. s \in NodeType
  BY <1>1, Zenon DEF IInv, TypeOK
<1>3. NextOlder(n, node[n])
  BY Zenon DEF AgreeInv, NextAccepted
<1>4. NextOlder(n, s) /\ WaitOver(n, s) /\ node[n].ts <= s.ts
  BY <1>3, Zenon DEF NextOlder, WaitOver, Waits, Steady
<1>5. ASSUME NEW m \in net' PROVE m \in net \/ Sendable(m, n, s)
  <2>1. m \in rest \/ m \in messages \/ m = Initiation(n, s.ts)
    BY Zenon DEF Send
  <2> QED BY <2>1 DEF Initiation, Sendable
<1> QED BY <1>1, <1>2, <1>4, <1>5, AgreeStep, Zenon

\* Timers and packets from inside.
LEMMA SteadyActions ==
    ASSUME IInv, IInv', AgreeInv, NEW n \in Nodes,
           \/ SendInner(n) \/ Retransmit(n) \/ GiveUp(n) \/ PacketExpires(n)
           \/ KeepaliveTimer(n) \/ PersistentKeepaliveTimer(n) \/ ReplyTimer(n)
    PROVE  AgreeInv' /\ installed' = installed
<1>1. node[n] \in NodeType
  BY Zenon DEF IInv, TypeOK
<1>2. installed' = installed /\ lost' = lost
  BY Zenon DEF SendInner, Retransmit, GiveUp, PacketExpires, KeepaliveTimer, PersistentKeepaliveTimer,
     ReplyTimer, Elapsed
<1>3. ASSUME NEW s, Steady(node[n], s), Send(n, s, {}, net) PROVE AgreeInv'
  BY <1>2, <1>3, SteadySend
<1>4. ASSUME NEW t \in NodeType, Steady(node[n], t), t.current # None, NEW empty \in BOOLEAN,
             Send(n, Seal(n, t, empty), {Data(n, t.current.key, empty)}, net)
      PROVE  AgreeInv'
  <2>1. PICK s : s = Seal(n, t, empty)
    BY Zenon
  <2>2. Steady(t, s)
    BY <1>4, <2>1, SteadySeal, Zenon
  <2>3. Send(n, s, {Data(n, t.current.key, empty)}, net)
    BY <1>4, <2>1, Zenon
  <2>4. s \in NodeType
    <3>1. node' = [node EXCEPT ![n] = s] /\ node \in [Nodes -> NodeType]
      BY <2>3, Zenon DEF Send, IInv, TypeOK
    <3> QED BY <3>1, Zenon DEF IInv, TypeOK
  <2>5. Steady(node[n], s)
    BY <1>1, <1>4, <2>2, <2>4, SteadyTwice, Zenon
  <2>6. Data(n, t.current.key, empty).type = "data"
    BY Zenon DEF Data
  <2> QED BY <1>2, <2>3, <2>5, <2>6, SteadySend
<1>5. Steady(node[n], node[n])
  BY <1>1, NodeFields DEF Steady
<1>6. ASSUME NEW t \in NodeType, Steady(node[n], t), Send(n, EnsureHandshake(t), {}, net)
      PROVE  AgreeInv'
  <2>1. EnsureHandshake(t) \in NodeType /\ Steady(t, EnsureHandshake(t))
    BY SteadyRebuilt, Zenon
  <2>2. Steady(node[n], EnsureHandshake(t))
    BY <1>1, <1>6, <2>1, SteadyTwice, Zenon
  <2> QED BY <1>3, <1>6, <2>2, Zenon
<1>7. CASE SendInner(n)
  <2>1. CASE Usable(node[n])
    BY <1>1, <1>4, <1>5, <1>7, <2>1, Zenon DEF SendInner, Usable
  <2>2. CASE ~Usable(node[n])
    BY <1>1, <1>6, <1>7, <2>2, SteadyFlags, Zenon DEF SendInner
  <2> QED BY <2>1, <2>2, Zenon
<1>8. CASE Retransmit(n)
  <2>1. PICK s : s = Rebuilt(node[n])
    BY Zenon
  <2>2. Steady(node[n], s)
    BY <1>1, <2>1, SteadyRebuilt, Zenon
  <2>3. Send(n, s, {}, net)
    BY <1>8, <2>1, Zenon DEF Retransmit
  <2> QED BY <1>2, <1>3, <2>2, <2>3, Zenon
<1>9. CASE GiveUp(n)
  <2>1. PICK s : s = [node[n] EXCEPT !.pending = 0, !.parked = FALSE]
    BY Zenon
  <2>2. Steady(node[n], s)
    BY <1>1, <2>1, SteadyFlags, Zenon
  <2>3. Send(n, s, {}, net)
    BY <1>9, <2>1, Zenon DEF GiveUp
  <2> QED BY <1>2, <1>3, <2>2, <2>3, Zenon
<1>10. CASE PacketExpires(n)
  <2>1. PICK s : s = [node[n] EXCEPT !.parked = FALSE]
    BY Zenon
  <2>2. Steady(node[n], s)
    BY <1>1, <2>1, SteadyFlags, Zenon
  <2>3. Send(n, s, {}, net)
    BY <1>10, <2>1, Zenon DEF PacketExpires
  <2> QED BY <1>2, <1>3, <2>2, <2>3, Zenon
<1>11. CASE KeepaliveTimer(n)
  <2>1. PICK s : s = [node[n] EXCEPT !.keepaliveDue = FALSE]
    BY Zenon
  <2>2. s \in NodeType /\ Steady(node[n], s)
    BY <1>1, <2>1, SteadyFlags, Zenon
  <2>3. \/ s.current # None /\ Send(n, Seal(n, s, TRUE), {Data(n, s.current.key, TRUE)}, net)
        \/ Send(n, s, {}, net)
    BY <1>11, <2>1, Zenon DEF KeepaliveTimer, Usable
  <2>4. CASE Send(n, s, {}, net)
    BY <1>2, <1>3, <2>2, <2>4, Zenon
  <2>5. CASE s.current # None /\ Send(n, Seal(n, s, TRUE), {Data(n, s.current.key, TRUE)}, net)
    BY <1>2, <1>4, <2>2, <2>5, Zenon
  <2> QED BY <2>3, <2>4, <2>5, Zenon
<1>12. CASE PersistentKeepaliveTimer(n)
  <2>1. CASE Usable(node[n])
    BY <1>1, <1>4, <1>5, <1>12, <2>1, Zenon DEF PersistentKeepaliveTimer, Usable
  <2>2. CASE ~Usable(node[n])
    BY <1>1, <1>5, <1>6, <1>12, <2>2, Zenon DEF PersistentKeepaliveTimer
  <2> QED BY <2>1, <2>2, Zenon
<1>13. CASE ReplyTimer(n)
  <2>1. PICK s : s = [node[n] EXCEPT !.replyDue = FALSE]
    BY Zenon
  <2>2. s \in NodeType /\ Steady(node[n], s)
    BY <1>1, <2>1, SteadyFlags, Zenon
  <2>3. Send(n, EnsureHandshake(s), {}, net)
    BY <1>13, <2>1, Zenon DEF ReplyTimer
  <2> QED BY <1>2, <1>6, <2>2, <2>3, Zenon
<1> QED BY <1>2, <1>7, <1>8, <1>9, <1>10, <1>11, <1>12, <1>13, Zenon

\* An initiation that is answered: the session that waited before answers an older
\* one, so the initiator takes no response to it any more.
LEMMA RxInitiationAgrees ==
    ASSUME IInv, IInv', AgreeInv, NEW n \in Nodes, NEW m \in net, RxInitiation(n, m)
    PROVE  AgreeInv' /\ \A x \in Nodes : node'[x].current = node[x].current
<1>1. PICK key : key = [initiator |-> m.from, ts |-> m.ts, resp |-> node[n].resp + 1]
  BY Zenon
<1>2. PICK g : g = NewSession(key, FALSE)
  BY Zenon
<1>3. PICK r : r = node[n].resp + 1
  BY Zenon
<1>4. PICK s : s = [node[n] EXCEPT !.greatest = m.ts, !.resp = r, !.next = g]
  BY Zenon
<1>5. /\ node[n] \in NodeType /\ m \in MessageType /\ m.type = "init" /\ m.from = Other[n]
      /\ m.ts > node[n].greatest /\ node \in [Nodes -> NodeType]
  BY Zenon DEF IInv, TypeOK, RxInitiation
<1>6. m.ts \in Nat /\ r \in Nat /\ node[n].ts \in Nat /\ node[n].greatest \in Nat
  BY <1>3, <1>5, NodeFields DEF MessageType
<1>7. key.initiator = m.from /\ key.ts = m.ts /\ key \in KeyType
  BY <1>1, <1>3, <1>5, <1>6, OtherAssumption, Zenon DEF KeyType
<1>8. g.key = key /\ g \in SessionType /\ g # None
  <2>1. g.key = key /\ g \in SessionType
    BY <1>2, <1>7 DEF NewSession, SessionType
  <2> QED BY <2>1, NoneAssumption, Zenon
<1>9. s.next = g /\ s.greatest = m.ts /\ s.ts = node[n].ts /\ s.current = node[n].current /\ s \in NodeType
  <2>1. s \in NodeType
    BY <1>4, <1>5, <1>6, <1>8, Zenon DEF NodeType
  <2>2. s.next = g /\ s.greatest = m.ts /\ s.ts = node[n].ts /\ s.current = node[n].current
    BY <1>4, <1>5, Zenon DEF NodeType
  <2> QED BY <2>1, <2>2, Zenon
<1>10. /\ Send(n, s, {Response(n, key)}, Consumed(m))
       /\ installed' = [installed EXCEPT ![n] = @ \cup {key}] /\ lost' = lost
  <2>1. Respond(n, key, [node[n] EXCEPT !.greatest = m.ts, !.resp = @ + 1]) = s
    BY <1>2, <1>3, <1>4, <1>5, Zenon DEF Respond, NodeType
  <2> QED BY <1>1, <2>1, Zenon DEF RxInitiation
<1>11. /\ node' = [node EXCEPT ![n] = s] /\ Consumed(m) \subseteq net
       /\ \A x \in net' : x \in net \/ x = Response(n, key) \/ x = Initiation(n, s.ts)
  BY <1>10, Zenon DEF Send, Consumed
<1>12. m.ts <= node[Other[n]].ts
  BY <1>5, Zenon DEF AgreeInv, InitiationsOld
<1>13. NextOlder(n, s)
  BY <1>5, <1>6, <1>7, <1>8, <1>9 DEF NextOlder
<1>14. WaitOver(n, s)
  <2> SUFFICES ASSUME node[n].next # None PROVE node[n].next.key.ts < node[Other[n]].ts
    BY Zenon DEF WaitOver
  <2>1. node[n].next.key.ts <= node[n].greatest
    BY Zenon DEF AgreeInv, NextAccepted, NextOlder
  <2>2. node[n].next.key.ts \in Nat /\ node[Other[n]].ts \in Nat
    <3>1. node[n].next \in SessionType
      BY <1>5, NodeFields, Zenon
    <3>2. node[n].next.key.ts \in Nat
      BY <3>1, Zenon DEF SessionType, KeyType
    <3>3. node[Other[n]] \in NodeType
      BY <1>5, OtherAssumption, Zenon
    <3> QED BY <3>2, <3>3, NodeFields, Zenon
  <2> QED BY <1>5, <1>6, <1>12, <2>1, <2>2
<1>15. ASSUME NEW x \in net' PROVE x \in net \/ Sendable(x, n, s)
  <2>1. CASE x = Initiation(n, s.ts)
    BY <2>1, Zenon DEF Initiation, Sendable
  <2>2. CASE x = Response(n, key)
    <3>1. x.type = "resp" /\ x.from = n /\ x.key = key
      BY <2>2, Zenon DEF Response
    <3> QED BY <1>5, <1>7, <1>8, <1>9, <1>12, <3>1, Zenon DEF Sendable, Waits
  <2> QED BY <1>11, <2>1, <2>2, Zenon
<1>16. \A x \in Nodes : installed[x] \subseteq installed'[x]
  BY <1>10, Zenon DEF IInv, TypeOK
<1>17. node[n].ts <= s.ts
  BY <1>6, <1>9
<1>18. AgreeInv'
  BY <1>9, <1>10, <1>11, <1>13, <1>14, <1>15, <1>16, <1>17, AgreeStep, Zenon
<1> QED BY <1>5, <1>9, <1>11, <1>18, Zenon

\* A response that is taken: the session it offers waits at the responder.
LEMMA RxResponseAgrees ==
    ASSUME IInv, IInv', AgreeInv, NEW n \in Nodes, NEW m \in net, RxResponse(n, m)
    PROVE  /\ AgreeInv'
           /\ \A x \in Nodes : x # n => node'[x] = node[x]
           /\ node'[n].current # None /\ node'[n].current.key = m.key
           /\ m.key \notin installed[n] => m.key \in Holds(node[Other[n]]) \cup lost'
<1>1. PICK done : done = [node[n] EXCEPT !.pending = 0, !.parked = FALSE]
  BY Zenon
<1>2. PICK g : g = NewSession(m.key, TRUE)
  BY Zenon
<1>3. PICK open : open = Rotate(done, g)
  BY Zenon
<1>4. /\ node[n] \in NodeType /\ m \in MessageType /\ m.type = "resp" /\ m.from = Other[n] /\ Answers(node[n], m.key)
      /\ node \in [Nodes -> NodeType] /\ installed \in [Nodes -> SUBSET KeyType]
      /\ node[n].pending \in {0, node[n].ts}
  BY Zenon DEF IInv, TypeOK, RxResponse
<1>5. m.key \in KeyType
  BY <1>4, Zenon DEF MessageType
<1>6. g \in SessionType /\ g.key = m.key
  BY <1>2, <1>5 DEF NewSession, SessionType
<1>7. done \in NodeType /\ Steady(node[n], done)
  BY <1>1, <1>4, SteadyFlags, Zenon
<1>8. open = [done EXCEPT !.previous = done.current, !.current = g]
  BY <1>3, Zenon DEF Rotate
<1>9. open \in NodeType /\ open.current = g /\ open.next = done.next /\ open.greatest = done.greatest /\ open.ts = done.ts
  <2>1. done.current \in SessionType \cup {None}
    BY <1>7, NodeFields, Zenon
  <2>2. open \in NodeType
    BY <1>6, <1>7, <1>8, <2>1, Zenon DEF NodeType
  <2> QED BY <1>7, <1>8, <2>2, Zenon DEF NodeType
<1>10. Steady(node[n], open)
  BY <1>7, <1>9, Zenon DEF Steady
<1>11. PICK empty \in BOOLEAN : empty = ~node[n].parked
  BY Zenon
<1>12. PICK s : s = Seal(n, open, empty)
  BY Zenon
<1>13. open.current # None
  BY <1>6, <1>9, NoneAssumption, Zenon
<1>14. Steady(open, s) /\ s.current # None /\ s.current.key = m.key
  BY <1>6, <1>9, <1>12, <1>13, SteadySeal, Zenon
<1>15. /\ Send(n, s, {Data(n, m.key, empty)}, Consumed(m)) /\ Consumed(m) \subseteq net
       /\ installed' = [installed EXCEPT ![n] = @ \cup {m.key}] /\ lost' = lost
  BY <1>1, <1>2, <1>3, <1>11, <1>12, Zenon DEF RxResponse, Consumed
<1>16. node' = [node EXCEPT ![n] = s]
  BY <1>15, Zenon DEF Send
<1>17. s \in NodeType
  BY <1>4, <1>16, Zenon DEF IInv, TypeOK
<1>18. Steady(node[n], s)
  BY <1>4, <1>9, <1>10, <1>14, <1>17, SteadyTwice, Zenon
<1>19. AgreeInv'
  <2>1. \A x \in {Data(n, m.key, empty)} : x.type = "data"
    BY DEF Data
  <2>2. \A x \in Nodes : installed[x] \subseteq installed'[x]
    BY <1>4, <1>15, Zenon
  <2>3. PICK rest : rest = Consumed(m)
    BY Zenon
  <2>4. Send(n, s, {Data(n, m.key, empty)}, rest) /\ rest \subseteq net
    BY <1>15, <2>3, Zenon
  <2> QED BY <1>15, <1>18, <2>1, <2>2, <2>4, SteadySend
<1>20. ASSUME m.key \notin installed[n] PROVE m.key \in Holds(node[Other[n]]) \cup lost'
  <2>1. Other[m.from] = n
    BY <1>4, OtherAssumption, Zenon
  <2>2. m.key.ts = node[n].ts
    BY <1>4, Zenon DEF Answers
  <2>3. Waits(node[Other[n]], m.key) \/ m.key \in lost
    BY <1>4, <1>20, <2>1, <2>2, Zenon DEF AgreeInv, ResponsesOffer, Offered
  <2> QED BY <1>15, <2>3, Zenon DEF Waits, Holds, Generations
<1> QED BY <1>4, <1>14, <1>16, <1>19, <1>20, Zenon

\* A transport message that confirms the waiting session comes from an initiator
\* that has it.
LEMMA RxDataAgrees ==
    ASSUME IInv, IInv', AgreeInv, NEW n \in Nodes, NEW m \in net, RxData(n, m)
    PROVE  AgreeInv' /\ installed' = installed
<1>1. /\ node[n] \in NodeType /\ m \in MessageType /\ m.type = "data" /\ m.from = Other[n]
      /\ node \in [Nodes -> NodeType] /\ installed' = installed /\ lost' = lost
  BY Zenon DEF IInv, TypeOK, RxData
<1>2. m.key \in installed[Other[n]] /\ m.empty \in BOOLEAN
  BY <1>1, Zenon DEF IInv, MessagesKnown, MessageType
<1>3. PICK turned : turned = IF node[n].next # None /\ node[n].next.key = m.key
                             THEN Rotate([node[n] EXCEPT !.next = None], [node[n].next EXCEPT !.confirmed = TRUE])
                             ELSE node[n]
  BY Zenon
<1>4. /\ turned \in NodeType /\ turned.greatest = node[n].greatest /\ turned.ts = node[n].ts
      /\ \/ turned.next = node[n].next
         \/ turned.next = None /\ node[n].next # None /\ node[n].next.key = m.key
  <2>1. CASE ~(node[n].next # None /\ node[n].next.key = m.key)
    BY <1>1, <1>3, <2>1, Zenon
  <2>2. CASE node[n].next # None /\ node[n].next.key = m.key
    <3>1. PICK g : g = [node[n].next EXCEPT !.confirmed = TRUE]
      BY Zenon
    <3>2. g \in SessionType
      <4>1. node[n].next \in SessionType
        BY <1>1, <2>2, NodeFields, Zenon
      <4> QED BY <3>1, <4>1, Zenon DEF SessionType
    <3>3. PICK cleared : cleared = [node[n] EXCEPT !.next = None]
      BY Zenon
    <3>4. cleared \in NodeType /\ cleared.next = None /\ cleared.greatest = node[n].greatest /\ cleared.ts = node[n].ts
      BY <1>1, <3>3, Zenon DEF NodeType
    <3>5. turned = [cleared EXCEPT !.previous = cleared.current, !.current = g]
      BY <1>3, <2>2, <3>1, <3>3, Zenon DEF Rotate
    <3>6. cleared.current \in SessionType \cup {None}
      BY <3>4, NodeFields, Zenon
    <3>7. turned \in NodeType
      BY <3>2, <3>4, <3>5, <3>6, Zenon DEF NodeType
    <3>8. turned.next = None /\ turned.greatest = node[n].greatest /\ turned.ts = node[n].ts
      BY <3>4, <3>5, <3>7, Zenon DEF NodeType
    <3> QED BY <2>2, <3>7, <3>8, Zenon
  <2> QED BY <2>1, <2>2, Zenon
<1>5. PICK heard : heard = Heard(turned, m.empty)
  BY Zenon
<1>6. heard \in NodeType /\ Steady(turned, heard)
  <2>1. PICK b \in BOOLEAN : b = (turned.keepaliveDue \/ ~m.empty)
    BY <1>2, <1>4, NodeFields, Zenon
  <2>2. heard = [turned EXCEPT !.replyDue = FALSE, !.keepaliveDue = b]
    BY <1>5, <2>1, Zenon DEF Heard
  <2>3. heard \in NodeType
    BY <1>4, <2>1, <2>2, Zenon DEF NodeType
  <2>4. turned.ts \in Nat
    BY <1>4, NodeFields, Zenon
  <2> QED BY <1>4, <2>2, <2>3, <2>4 DEF NodeType, Steady
<1>7. ASSUME NEW g \in {"current", "previous"}, heard[g] # None
      PROVE  /\ [heard EXCEPT ![g] = [heard[g] EXCEPT !.rekeyed = TRUE]] \in NodeType
             /\ Steady(heard, [heard EXCEPT ![g] = [heard[g] EXCEPT !.rekeyed = TRUE]])
  <2>1. heard.ts \in Nat /\ heard[g] \in SessionType
    BY <1>6, <1>7, NodeFields, Zenon
  <2>2. PICK d : d = [heard[g] EXCEPT !.rekeyed = TRUE]
    BY Zenon
  <2>3. d \in SessionType
    BY <2>1, <2>2, Zenon DEF SessionType
  <2>4. CASE g = "current"
    <3>1. [heard EXCEPT !.current = d] \in NodeType
      BY <1>6, <2>3, Zenon DEF NodeType
    <3>2. Steady(heard, [heard EXCEPT !.current = d])
      BY <1>6, <2>1 DEF NodeType, Steady
    <3> QED BY <2>2, <2>4, <3>1, <3>2, Zenon
  <2>5. CASE g = "previous"
    <3>1. [heard EXCEPT !.previous = d] \in NodeType
      BY <1>6, <2>3, Zenon DEF NodeType
    <3>2. Steady(heard, [heard EXCEPT !.previous = d])
      BY <1>6, <2>1 DEF NodeType, Steady
    <3> QED BY <2>2, <2>5, <3>1, <3>2, Zenon
  <2> QED BY <2>4, <2>5, Zenon
<1>8. PICK s : /\ Send(n, s, {}, Consumed(m)) /\ Consumed(m) \subseteq net
               /\ \/ heard.current # None /\ s = EnsureHandshake([heard EXCEPT !.current.rekeyed = TRUE])
                  \/ heard.previous # None /\ s = EnsureHandshake([heard EXCEPT !.previous.rekeyed = TRUE])
                  \/ s = heard
  BY <1>3, <1>5, Zenon DEF RxData, Consumed
<1>9. s \in NodeType /\ Steady(turned, s)
  <2>1. CASE s = heard
    BY <1>6, <2>1, Zenon
  <2>2. ASSUME NEW g \in {"current", "previous"}, heard[g] # None,
               s = EnsureHandshake([heard EXCEPT ![g] = [heard[g] EXCEPT !.rekeyed = TRUE]])
        PROVE  s \in NodeType /\ Steady(turned, s)
    <3>1. PICK u : u = [heard EXCEPT ![g] = [heard[g] EXCEPT !.rekeyed = TRUE]]
      BY Zenon
    <3>2. u \in NodeType /\ Steady(heard, u)
      BY <1>7, <2>2, <3>1, Zenon
    <3>3. s \in NodeType /\ Steady(u, s)
      BY <2>2, <3>1, <3>2, SteadyRebuilt, Zenon
    <3>4. Steady(heard, s)
      BY <1>6, <3>2, <3>3, SteadyTwice, Zenon
    <3> QED BY <1>4, <1>6, <3>3, <3>4, SteadyTwice, Zenon
  <2>3. CASE heard.current # None /\ s = EnsureHandshake([heard EXCEPT !.current.rekeyed = TRUE])
    <3>1. [heard EXCEPT !.current.rekeyed = TRUE] = [heard EXCEPT !["current"] = [heard["current"] EXCEPT !.rekeyed = TRUE]]
      BY Zenon
    <3> QED BY <2>2, <2>3, <3>1, Zenon
  <2>4. CASE heard.previous # None /\ s = EnsureHandshake([heard EXCEPT !.previous.rekeyed = TRUE])
    <3>1. [heard EXCEPT !.previous.rekeyed = TRUE] = [heard EXCEPT !["previous"] = [heard["previous"] EXCEPT !.rekeyed = TRUE]]
      BY Zenon
    <3> QED BY <2>2, <2>4, <3>1, Zenon
  <2> QED BY <1>8, <2>1, <2>3, <2>4, Zenon
<1>10. NextOlder(n, node[n])
  BY Zenon DEF AgreeInv, NextAccepted
<1>11. NextOlder(n, s) /\ WaitOver(n, s) /\ node[n].ts <= s.ts
  BY <1>1, <1>2, <1>4, <1>9, <1>10, Zenon DEF NextOlder, WaitOver, Waits, Steady
<1>12. node' = [node EXCEPT ![n] = s]
  BY <1>8, Zenon DEF Send
<1>13. ASSUME NEW x \in net' PROVE x \in net \/ Sendable(x, n, s)
  <2>1. x \in net \/ x = Initiation(n, s.ts)
    BY <1>8, Zenon DEF Send
  <2> QED BY <2>1 DEF Initiation, Sendable
<1>14. AgreeInv'
  BY <1>1, <1>9, <1>11, <1>12, <1>13, AgreeStep, Zenon
<1> QED BY <1>1, <1>14, Zenon

\* A session that dies of age is lost.
LEMMA AgeAgrees ==
    ASSUME IInv, IInv', AgreeInv, NEW n \in Nodes, NEW g \in {"current", "previous", "next"}, Age(n, g)
    PROVE  AgreeInv' /\ installed' = installed
<1>1. /\ node[n] \in NodeType /\ node \in [Nodes -> NodeType] /\ installed' = installed /\ net' = net
      /\ node[n][g] # None
  BY Zenon DEF IInv, TypeOK, Age
<1>2. node[n][g] \in SessionType /\ node[n].ts \in Nat
  BY <1>1, NodeFields, Zenon
<1>3. PICK y : /\ node' = [node EXCEPT ![n] = [node[n] EXCEPT ![g] = y]]
               /\ \/ y = [node[n][g] EXCEPT !.age = @ + 1] /\ node[n][g].age < 2 /\ lost' = lost
                  \/ y = None /\ lost' = lost \cup {node[n][g].key}
  <2>1. CASE node[n][g].age < 2
    BY <1>1, <2>1, Zenon DEF Age
  <2>2. CASE ~(node[n][g].age < 2)
    BY <1>1, <2>2, Zenon DEF Age
  <2> QED BY <2>1, <2>2, Zenon
<1>4. PICK s : s = [node[n] EXCEPT ![g] = y]
  BY Zenon
<1>5. node' = [node EXCEPT ![n] = s]
  BY <1>3, <1>4, Zenon
<1>6. s \in NodeType
  BY <1>1, <1>5, Zenon DEF IInv, TypeOK
<1>7. y # None => y.key = node[n][g].key
  BY <1>2, <1>3, Zenon DEF SessionType
<1>8. s.ts = node[n].ts /\ s.greatest = node[n].greatest /\ s.next = IF g = "next" THEN y ELSE node[n].next
  BY <1>1, <1>4, Zenon DEF NodeType
<1>9. NextOlder(n, node[n])
  BY Zenon DEF AgreeInv, NextAccepted
<1>10. NextOlder(n, s)
  BY <1>1, <1>7, <1>8, <1>9, Zenon DEF NextOlder
<1>11. WaitOver(n, s)
  <2>1. CASE g # "next"
    BY <1>8, <2>1, Zenon DEF WaitOver, Waits
  <2>2. CASE g = "next"
    <3>1. node[n][g] = node[n].next /\ s.next = y
      BY <1>8, <2>2, Zenon
    <3>2. CASE y = None
      <4>1. node[n][g].age < 2 => [node[n][g] EXCEPT !.age = @ + 1] \in SessionType
        BY <1>2 DEF SessionType
      <4>2. node[n].next.key \in lost'
        BY <1>3, <3>1, <3>2, <4>1, NoneAssumption, Zenon
      <4> QED BY <4>2, Zenon DEF WaitOver
    <3>3. CASE y # None
      BY <1>7, <3>1, <3>3, Zenon DEF WaitOver, Waits
    <3> QED BY <3>2, <3>3, Zenon
  <2> QED BY <2>1, <2>2, Zenon
<1>12. lost \subseteq lost' /\ node[n].ts <= s.ts
  BY <1>2, <1>3, <1>8
<1>13. AgreeInv'
  BY <1>1, <1>5, <1>6, <1>10, <1>11, <1>12, AgreeStep, Zenon
<1> QED BY <1>1, <1>13, Zenon

\* What a restart forgets is lost.
LEMMA RestartAgrees ==
    ASSUME IInv, IInv', AgreeInv, NEW n \in Nodes, Restart(n)
    PROVE  AgreeInv' /\ installed' = installed
<1>1. /\ node[n] \in NodeType /\ node \in [Nodes -> NodeType] /\ installed' = installed /\ net' = net
      /\ lost' = lost \cup Holds(node[n])
  BY Zenon DEF IInv, TypeOK, Restart
<1>2. PICK s : s = NewNode(node[n].ts, node[n].resp)
  BY Zenon
<1>3. node' = [node EXCEPT ![n] = s]
  BY <1>1, <1>2, Zenon DEF Restart
<1>4. s \in NodeType
  BY <1>1, <1>3, Zenon DEF IInv, TypeOK
<1>5. s.ts = node[n].ts /\ s.next = None /\ node[n].ts \in Nat
  BY <1>1, <1>2, NodeFields, Zenon DEF NewNode
<1>6. NextOlder(n, s)
  BY <1>5, Zenon DEF NextOlder
<1>7. WaitOver(n, s)
  BY <1>1, Zenon DEF WaitOver, Holds, Generations
<1>8. lost \subseteq lost' /\ node[n].ts <= s.ts
  BY <1>1, <1>5
<1>9. AgreeInv'
  BY <1>1, <1>3, <1>4, <1>6, <1>7, <1>8, AgreeStep, Zenon
<1> QED BY <1>1, <1>9, Zenon

\* What SessionAgreed says of a step.
AgreedStep ==
    \A n \in Nodes :
      LET s == node'[n].current IN
      (s # node[n].current /\ s # None /\ s.key.initiator = n /\ s.key \notin installed[n])
        => s.key \in Holds(node'[Other[n]]) \cup lost'

\* A step that derives no keys starts the use of none.
LEMMA NothingDerived == ASSUME IInv', installed' = installed PROVE AgreedStep
BY Zenon DEF IInv, SessionsKnown, AgreedStep

\* Every step keeps the invariant and the agreement.
LEMMA NextAgrees == IInv /\ IInv' /\ AgreeInv /\ Next => AgreeInv' /\ AgreedStep
<1> SUFFICES ASSUME IInv, IInv', AgreeInv, Next PROVE AgreeInv' /\ AgreedStep
  BY Zenon
<1>1. ASSUME NEW n \in Nodes,
             \/ SendInner(n) \/ Retransmit(n) \/ GiveUp(n) \/ PacketExpires(n)
             \/ KeepaliveTimer(n) \/ PersistentKeepaliveTimer(n) \/ ReplyTimer(n)
      PROVE  AgreeInv' /\ AgreedStep
  BY <1>1, SteadyActions, NothingDerived, Zenon
<1>2. ASSUME NEW n \in Nodes, Restart(n) PROVE AgreeInv' /\ AgreedStep
  BY <1>2, RestartAgrees, NothingDerived, Zenon
<1>3. ASSUME NEW n \in Nodes, NEW g \in {"current", "previous", "next"}, Age(n, g)
      PROVE  AgreeInv' /\ AgreedStep
  BY <1>3, AgeAgrees, NothingDerived, Zenon
<1>4. ASSUME NEW n \in Nodes, NEW m \in net, RxData(n, m) PROVE AgreeInv' /\ AgreedStep
  BY <1>4, RxDataAgrees, NothingDerived, Zenon
<1>5. ASSUME NEW n \in Nodes, NEW m \in net, RxInitiation(n, m) PROVE AgreeInv' /\ AgreedStep
  BY <1>5, RxInitiationAgrees, Zenon DEF AgreedStep
<1>6. ASSUME NEW n \in Nodes, NEW m \in net, RxResponse(n, m) PROVE AgreeInv' /\ AgreedStep
  <2>1. /\ AgreeInv'
        /\ \A x \in Nodes : x # n => node'[x] = node[x]
        /\ node'[n].current # None /\ node'[n].current.key = m.key
        /\ m.key \notin installed[n] => m.key \in Holds(node[Other[n]]) \cup lost'
    BY <1>6, RxResponseAgrees, Zenon
  <2>2. Other[n] \in Nodes /\ Other[n] # n
    BY OtherAssumption, Zenon
  <2>3. node'[Other[n]] = node[Other[n]]
    BY <2>1, <2>2, Zenon
  <2> QED BY <2>1, <2>3, Zenon DEF AgreedStep
<1>7. ASSUME net' \subseteq net, UNCHANGED <<node, installed, lost>> PROVE AgreeInv' /\ AgreedStep
  <2>1. InitiationsOld' /\ NextAccepted'
    BY <1>7, Zenon DEF AgreeInv, InitiationsOld, NextAccepted, NextOlder
  <2>2. ResponsesOffer'
    BY <1>7, Zenon DEF AgreeInv, ResponsesOffer, Offered, Waits
  <2> QED BY <1>7, <2>1, <2>2, Zenon DEF AgreeInv, AgreedStep
<1>8. ASSUME NEW n \in Nodes, NEW m \in net, Ignore(n, m) PROVE AgreeInv' /\ AgreedStep
  BY <1>7, <1>8, Zenon DEF Ignore
<1>9. ASSUME NEW m \in net, Lose(m) PROVE AgreeInv' /\ AgreedStep
  BY <1>7, <1>9, Zenon DEF Lose
<1> QED BY <1>1, <1>2, <1>3, <1>4, <1>5, <1>6, <1>8, <1>9, Zenon DEF Next

\* The session an initiator starts to use is one the responder holds, or lost by a
\* restart or old age, whatever is lost, repeated or reordered.
THEOREM SpecSessionAgreed == Spec => SessionAgreed
<1>1. Init => AgreeInv
  BY DEF Init, AgreeInv, InitiationsOld, ResponsesOffer, NextAccepted, NextOlder, NewNode
<1>2. AgreeInv /\ UNCHANGED vars => AgreeInv'
  BY Zenon DEF vars, AgreeInv, InitiationsOld, ResponsesOffer, Offered, Waits, NextAccepted, NextOlder
<1>3. IInv /\ IInv' /\ AgreeInv /\ [Next]_vars => AgreeInv'
  BY <1>2, NextAgrees, Zenon
<1>4. IInv /\ IInv' /\ AgreeInv /\ [Next]_vars => [AgreedStep]_vars
  BY NextAgrees, Zenon
<1>5. Spec => [][AgreedStep]_vars
  BY <1>1, <1>3, <1>4, SpecIInv, PTL DEF Spec
<1>6. [][AgreedStep]_vars => SessionAgreed
  BY PTL DEF AgreedStep, SessionAgreed
<1> QED BY <1>5, <1>6, Zenon

-------------------------------------------------------------------------------
(* The transfer of a file, whatever its length, its retries and its delays.  *)
(* The blocks on the wire are in order and without gaps, because units are   *)
(* lost at its head only; the first one is at most as far ahead of what is   *)
(* written as units were lost or refused. So a number tells which block it   *)
(* is. The sender passes the last request of the receiver only when the file *)
(* is whole.                                                                 *)

\* Every block of the file is written.
Entire == Len(written) = FileBlocks

\* A block of the file, or its header, which counts as block 0.
IsData(u) == u.unit = "block" /\ u.data # EmptyHeader
Val(u) == IF u.data = Metadata THEN 0 ELSE u.data

Units == [unit : {"block", "C", "CAN", "ACK", "NAK", "EOT", "junk"}, number : Nat,
          data : Nat, sound : BOOLEAN]
SenderPlaces == {"crc1", "header", "crc2", "data", "eot1", "eot2", "crc3", "final", "done", "failed"}
ReceiverPlaces == {"start", "meta", "data", "eot", "last", "done", "failed"}

YmodemTypes ==
    /\ sender \in [at : SenderPlaces, block : Nat, tries : Nat]
    /\ receiver \in [at : ReceiverPlaces, expected : Nat, retries : Nat]
    /\ toReceiver \in Seq(Units) /\ toSender \in Seq(Units)
    /\ written \in Seq(Nat) /\ mangled \in 0..MaxMangled

\* What is written are the first blocks, none ahead of the sender.
Written ==
    /\ Len(written) <= FileBlocks /\ Len(written) <= sender.block
    /\ \A i \in 1..Len(written) : written[i] = i

\* The sender is at header and blocks, the receiver takes them.
Sending == sender.at \in {"crc1", "header", "crc2", "data"}
Listening == receiver.at \in {"start", "meta", "data"}

\* No answer to a block is under way.
NotAcked(q) == \A i \in 1..Len(q) : q[i].unit # "ACK"

\* Where the two sides are, and what that says of the file.
Places ==
    /\ sender.at \in {"crc1", "header", "crc2"} => sender.block = 0
    /\ sender.at = "data" => sender.block \in 1..FileBlocks
    /\ sender.at \in {"final", "done"} => Entire
    /\ receiver.at \in {"eot", "last", "done"} => Entire
    /\ receiver.at \in {"start", "meta"} =>
         /\ Len(written) = 0 /\ sender.at \in {"crc1", "header", "failed"}
         /\ NotAcked(toSender)
    /\ Listening => receiver.retries <= MaxRetries
    /\ receiver.at = "data" => receiver.expected = (Len(written) + 1) % Modulus

\* The blocks in q are in order, without gaps, at least w and at most b.
Shape(q, w, b) ==
    /\ \A i \in 1..Len(q) : IsData(q[i]) =>
         /\ q[i].data = Metadata \/ q[i].data \in 1..FileBlocks
         /\ q[i].number = Val(q[i]) % Modulus
         /\ w <= Val(q[i]) /\ Val(q[i]) <= b
    /\ \A i, j \in 1..Len(q) : i < j /\ IsData(q[i]) /\ IsData(q[j]) => Val(q[i]) <= Val(q[j])
    /\ \A i, j \in 1..Len(q) : j = i + 1 /\ IsData(q[j]) =>
         IsData(q[i]) /\ Val(q[j]) <= Val(q[i]) + 1
\* The sender's block is the last one in q.
Ending(q, b) == \A i \in 1..Len(q) : IsData(q[i]) /\ (i = Len(q) => Val(q[i]) = b)
\* The first block in q, and the one to come when there is none, is at most r.
Near(q, r) == Len(q) # 0 /\ IsData(q[1]) => Val(q[1]) <= r
Room(q, b, r) == Len(q) = 0 => b + 1 <= r

\* How far the sender may have got ahead: by the blocks lost or refused.
Reach == Len(written) + 1 + receiver.retries + mangled

Outbound ==
    /\ Shape(toReceiver, Len(written), sender.block)
    /\ Sending => Ending(toReceiver, sender.block)
    /\ Listening => Near(toReceiver, Reach)
    /\ Sending /\ Listening => Room(toReceiver, sender.block, Reach)
    /\ Entire \/ \A i \in 1..Len(toReceiver) : toReceiver[i].data # EmptyHeader

\* The requests for the next file in q: one behind an answer, one, none.
OneBehind(q) ==
    \A h, i, j \in 1..Len(q) : h < i /\ i < j /\ q[h].unit = "ACK" => q[i].unit # "C" \/ q[j].unit # "C"
AtMostOne(q) == \A i, j \in 1..Len(q) : i < j => q[i].unit # "C" \/ q[j].unit # "C"
NoneAtAll(q) == \A i \in 1..Len(q) : q[i].unit # "C"

\* Until the file is whole the receiver asks for no further file.
Inbound ==
    \/ Entire
    \/ /\ sender.at \in {"crc1", "header"} => OneBehind(toSender)
       /\ sender.at = "crc2" => AtMostOne(toSender)
       /\ sender.at \in {"data", "eot1", "eot2", "crc3"} => NoneAtAll(toSender)

YmodemInv == YmodemTypes /\ Written /\ Places /\ Outbound /\ Inbound

\* p is q without its first unit; with one more at the end; with its first one mangled.
Shorter(p, q) == Len(q) = Len(p) + 1 /\ \A i \in 1..Len(p) : p[i] = q[i + 1]
Longer(p, q, u) == Len(p) = Len(q) + 1 /\ p[Len(p)] = u /\ \A i \in 1..Len(q) : p[i] = q[i]
Damaged(p, q) ==
    /\ Len(p) = Len(q) /\ Len(q) # 0 /\ p[1] = Mangled(q[1])
    /\ \A i \in 2..Len(q) : p[i] = q[i]

\* p holds no request and no answer that q does not.
Quiet(p, q) ==
    /\ OneBehind(q) => OneBehind(p)
    /\ AtMostOne(q) => AtMostOne(p)
    /\ NoneAtAll(q) => NoneAtAll(p)
    /\ NotAcked(q) => NotAcked(p)

-------------------------------------------------------------------------------
\* Two numbers less than m apart with the same remainder are one number.
LEMMA SameRemainder ==
    ASSUME NEW m \in Nat \ {0}, NEW a \in Nat, NEW b \in Nat, a <= b, b < a + m, a % m = b % m
    PROVE  a = b
<1> DEFINE p == a \div m
           q == b \div m
           r == a % m
<1>1. p \in Int /\ q \in Int /\ r \in 0..m - 1 /\ a = (p * m) + r
  OBVIOUS
<1>2. b = (q * m) + (b % m)
  OBVIOUS
<1>3. b = (q * m) + r
  BY <1>2, Zenon
<1> HIDE DEF p, q, r
<1>4. b - a = (q - p) * m
  BY <1>1, <1>3
<1> DEFINE d == q - p
<1>5. d \in Int /\ b - a = d * m
  BY <1>1, <1>4
<1> HIDE DEF d
<1>6. CASE d >= 1
  <2>1. d * m >= m
    BY <1>5, <1>6
  <2> QED BY <2>1, <1>5
<1>7. CASE d <= -1
  <2>1. d * m <= -m
    BY <1>5, <1>7
  <2> QED BY <2>1, <1>5
<1>8. CASE d = 0
  BY <1>5, <1>8
<1> QED BY <1>5, <1>6, <1>7, <1>8

\* The number before that of block w + 1 is the number of block w.
LEMMA NumberBefore ==
    ASSUME NEW m \in Nat \ {0}, NEW w \in Nat
    PROVE  (((w + 1) % m) + m - 1) % m = w % m
<1> DEFINE r == (w + 1) % m
           p == (w + 1) \div m
           x == r + m - 1
           s == x % m
           k == x \div m
           t == w % m
           l == w \div m
<1>1. p \in Int /\ r \in 0..m - 1 /\ w + 1 = (p * m) + r
  OBVIOUS
<1>2. x \in Nat
  BY <1>1
<1>3. k \in Int /\ s \in 0..m - 1 /\ x = (k * m) + s
  BY <1>2
<1>4. l \in Int /\ t \in 0..m - 1 /\ w = (l * m) + t
  OBVIOUS
<1>5. x = r + m - 1
  BY Zenon
<1> HIDE DEF r, p, x, s, k, t, l
<1> SUFFICES s = t
  BY Zenon DEF s, t, x, r
<1>6. s - t = (l + 1 - p - k) * m
  <2>1. (l + 1 - p - k) * m = (l * m) + m - (p * m) - (k * m)
    BY <1>1, <1>3, <1>4
  <2> QED BY <2>1, <1>1, <1>3, <1>4, <1>5
<1> DEFINE d == l + 1 - p - k
<1>7. d \in Int /\ s - t = d * m
  BY <1>1, <1>3, <1>4, <1>6
<1> HIDE DEF d
<1>8. CASE d >= 1
  <2>1. d * m >= m
    BY <1>7, <1>8
  <2> QED BY <2>1, <1>7, <1>3, <1>4
<1>9. CASE d <= -1
  <2>1. d * m <= -m
    BY <1>7, <1>9
  <2> QED BY <2>1, <1>7, <1>3, <1>4
<1>10. CASE d = 0
  BY <1>7, <1>10, <1>3, <1>4
<1> QED BY <1>7, <1>8, <1>9, <1>10

\* The number after that of block w + 1 is the number of block w + 2.
LEMMA NumberAfter ==
    ASSUME NEW m \in Nat \ {0}, NEW w \in Nat
    PROVE  (((w + 1) % m) + 1) % m = (w + 1 + 1) % m
<1> DEFINE r == (w + 1) % m
           p == (w + 1) \div m
           x == r + 1
           s == x % m
           k == x \div m
           t == (w + 1 + 1) % m
           l == (w + 1 + 1) \div m
<1>1. p \in Int /\ r \in 0..m - 1 /\ w + 1 = (p * m) + r
  OBVIOUS
<1>2. x \in Nat
  BY <1>1
<1>3. k \in Int /\ s \in 0..m - 1 /\ x = (k * m) + s
  BY <1>2
<1>4. l \in Int /\ t \in 0..m - 1 /\ w + 2 = (l * m) + t
  OBVIOUS
<1>5. x = r + 1
  BY Zenon
<1> HIDE DEF r, p, x, s, k, t, l
<1> SUFFICES s = t
  BY Zenon DEF s, t, x, r
<1>6. s - t = (l - p - k) * m
  <2>1. (l - p - k) * m = (l * m) - (p * m) - (k * m)
    BY <1>1, <1>3, <1>4
  <2> QED BY <2>1, <1>1, <1>3, <1>4, <1>5
<1> DEFINE d == l - p - k
<1>7. d \in Int /\ s - t = d * m
  BY <1>1, <1>3, <1>4, <1>6
<1> HIDE DEF d
<1>8. CASE d >= 1
  <2>1. d * m >= m
    BY <1>7, <1>8
  <2> QED BY <2>1, <1>7, <1>3, <1>4
<1>9. CASE d <= -1
  <2>1. d * m <= -m
    BY <1>7, <1>9
  <2> QED BY <2>1, <1>7, <1>3, <1>4
<1>10. CASE d = 0
  BY <1>7, <1>10, <1>3, <1>4
<1> QED BY <1>7, <1>8, <1>9, <1>10

-------------------------------------------------------------------------------
\* What the units of a channel are made of, for any reading of them.
LEMMA ValType ==
    ASSUME NEW u \in Units
    PROVE  Val(u) \in Nat /\ IsData(u) \in BOOLEAN
BY Zenon DEF Units, Val, IsData

\* Tail takes the first unit off, \o puts one at the end.
LEMMA TailShorter ==
    ASSUME NEW q \in Seq(Units), q # <<>>
    PROVE  /\ Tail(q) \in Seq(Units) /\ Shorter(Tail(q), q)
           /\ Head(q) = q[1] /\ q[1] \in Units /\ Len(q) \in Nat /\ Len(q) # 0
BY DEF Shorter

LEMMA JoinLonger ==
    ASSUME NEW q \in Seq(Units), NEW u \in Units
    PROVE  q \o <<u>> \in Seq(Units) /\ Longer(q \o <<u>>, q, u)
BY DEF Longer

LEMMA JoinNothing ==
    ASSUME NEW q \in Seq(Units)
    PROVE  q \o <<>> = q
OBVIOUS

\* The channel without its first unit keeps its shape, also when that is written.
LEMMA ShapeShorter ==
    ASSUME NEW q \in Seq(Units), NEW p \in Seq(Units), Shorter(p, q),
           NEW w, NEW b, Shape(q, w, b)
    PROVE  Shape(p, w, b)
<1> USE DEF Shorter
<1>1. \A i \in 1..Len(p) : i + 1 \in 1..Len(q) /\ p[i] = q[i + 1]
  OBVIOUS
<1>2. \A i, j \in 1..Len(p) : (i < j => i + 1 < j + 1) /\ (j = i + 1 => j + 1 = (i + 1) + 1)
  OBVIOUS
<1>3. \A i \in 1..Len(p) : IsData(p[i]) =>
         /\ p[i].data = Metadata \/ p[i].data \in 1..FileBlocks
         /\ p[i].number = Val(p[i]) % Modulus
         /\ w <= Val(p[i]) /\ Val(p[i]) <= b
  BY <1>1, Zenon DEF Shape
<1>4. ASSUME NEW i \in 1..Len(p), NEW j \in 1..Len(p), i < j, IsData(p[i]), IsData(p[j])
      PROVE  Val(p[i]) <= Val(p[j])
  <2>1. /\ i + 1 \in 1..Len(q) /\ j + 1 \in 1..Len(q) /\ i + 1 < j + 1
        /\ p[i] = q[i + 1] /\ p[j] = q[j + 1]
    BY <1>1, <1>2, <1>4, Zenon
  <2> QED BY <1>4, <2>1, Zenon DEF Shape
<1>5. ASSUME NEW i \in 1..Len(p), NEW j \in 1..Len(p), j = i + 1, IsData(p[j])
      PROVE  IsData(p[i]) /\ Val(p[j]) <= Val(p[i]) + 1
  <2>1. /\ i + 1 \in 1..Len(q) /\ j + 1 \in 1..Len(q) /\ j + 1 = (i + 1) + 1
        /\ p[i] = q[i + 1] /\ p[j] = q[j + 1]
    BY <1>1, <1>2, <1>5, Zenon
  <2> QED BY <1>5, <2>1, Zenon DEF Shape
<1> QED BY <1>3, <1>4, <1>5, Zenon DEF Shape

\* Behind block v only blocks from v on.
LEMMA ShapeRaised ==
    ASSUME NEW q \in Seq(Units), NEW p \in Seq(Units), Shorter(p, q),
           NEW w, NEW b, NEW v \in Nat, Shape(q, w, b), IsData(q[1]), Val(q[1]) = v
    PROVE  Shape(p, v, b)
<1>1. Shape(p, w, b)
  BY ShapeShorter, Zenon
<1>2. ASSUME NEW i \in 1..Len(p), IsData(p[i])
      PROVE  v <= Val(p[i])
  <2>1. i + 1 \in 1..Len(q) /\ 1 \in 1..Len(q) /\ 1 < i + 1 /\ p[i] = q[i + 1]
    BY DEF Shorter
  <2> QED BY <1>2, <2>1, Zenon DEF Shape
<1> QED BY <1>1, <1>2, Zenon DEF Shape

\* The block behind the first one is at most the next one.
LEMMA NearShorter ==
    ASSUME NEW q \in Seq(Units), NEW p \in Seq(Units), Shorter(p, q),
           NEW w, NEW b, Shape(q, w, b), NEW r \in Nat,
           IsData(q[1]) => Val(q[1]) + 1 <= r
    PROVE  Near(p, r)
<1> SUFFICES ASSUME Len(p) # 0, IsData(p[1])
             PROVE  Val(p[1]) <= r
  BY Zenon DEF Near
<1>1. /\ 1 \in 1..Len(q) /\ 2 \in 1..Len(q) /\ 2 = 1 + 1 /\ p[1] = q[2]
      /\ q[1] \in Units /\ q[2] \in Units
  BY DEF Shorter
<1>2. IsData(q[1]) /\ Val(q[2]) <= Val(q[1]) + 1
  BY <1>1, Zenon DEF Shape
<1>3. Val(q[1]) \in Nat /\ Val(q[2]) \in Nat
  BY <1>1, ValType, Zenon
<1> QED BY <1>1, <1>2, <1>3

LEMMA EndingShorter ==
    ASSUME NEW q \in Seq(Units), NEW p \in Seq(Units), Shorter(p, q), NEW b, Ending(q, b)
    PROVE  Ending(p, b)
<1>1. \A i \in 1..Len(p) : i + 1 \in 1..Len(q) /\ p[i] = q[i + 1] /\ (i = Len(p) => i + 1 = Len(q))
  BY DEF Shorter
<1> QED BY <1>1, Zenon DEF Ending

\* When the last block is gone the next one is within reach.
LEMMA RoomShorter ==
    ASSUME NEW q \in Seq(Units), NEW p \in Seq(Units), Shorter(p, q), NEW b \in Nat, Ending(q, b),
           NEW r \in Nat, IsData(q[1]) => Val(q[1]) + 1 <= r
    PROVE  Room(p, b, r)
<1> SUFFICES ASSUME Len(p) = 0
             PROVE  b + 1 <= r
  BY Zenon DEF Room
<1>1. 1 \in 1..Len(q) /\ 1 = Len(q)
  BY DEF Shorter
<1>2. IsData(q[1]) /\ Val(q[1]) = b
  BY <1>1, Zenon DEF Ending
<1> QED BY <1>2, Zenon

\* The sender's block again, or its next one, at the end of the channel.
LEMMA ShapeLonger ==
    ASSUME NEW q \in Seq(Units), NEW p \in Seq(Units), NEW u \in Units, Longer(p, q, u),
           NEW w \in Nat, NEW b \in Nat, NEW c \in Nat, Shape(q, w, b), Ending(q, b),
           w <= b, b <= c, c <= b + 1, IsData(u), Val(u) = c, u.number = c % Modulus,
           u.data = Metadata \/ u.data \in 1..FileBlocks
    PROVE  Shape(p, w, c) /\ Ending(p, c)
<1>1. /\ Len(p) \in Nat /\ Len(q) \in Nat /\ Len(p) = Len(q) + 1 /\ p[Len(p)] = u
      /\ \A i \in 1..Len(q) : p[i] = q[i] /\ q[i] \in Units
      /\ \A i \in 1..Len(p) : i \in 1..Len(q) \/ i = Len(p)
  BY DEF Longer
<1>2. \A i \in 1..Len(q) : IsData(q[i]) => Val(q[i]) <= c /\ Val(q[i]) \in Nat
  <2>1. \A i \in 1..Len(q) : Val(q[i]) \in Nat
    BY <1>1, ValType, Zenon
  <2>2. \A i \in 1..Len(q) : IsData(q[i]) => Val(q[i]) <= b
    BY Zenon DEF Shape
  <2> QED BY <2>1, <2>2
<1>3. w <= c /\ c <= c
  OBVIOUS
<1>4. \A i \in 1..Len(p) : IsData(p[i]) =>
         /\ p[i].data = Metadata \/ p[i].data \in 1..FileBlocks
         /\ p[i].number = Val(p[i]) % Modulus
         /\ w <= Val(p[i]) /\ Val(p[i]) <= c
  BY <1>1, <1>2, <1>3, Zenon DEF Shape
<1>5. ASSUME NEW i \in 1..Len(p), NEW j \in 1..Len(p), i < j, IsData(p[i]), IsData(p[j])
      PROVE  Val(p[i]) <= Val(p[j])
  <2>1. i \in 1..Len(q)
    BY <1>1, <1>5
  <2>2. CASE j = Len(p)
    BY <1>1, <1>2, <1>5, <2>1, <2>2, Zenon
  <2>3. CASE j \in 1..Len(q)
    BY <1>1, <1>5, <2>1, <2>3, Zenon DEF Shape
  <2> QED BY <1>1, <2>2, <2>3, Zenon
<1>6. ASSUME NEW i \in 1..Len(p), NEW j \in 1..Len(p), j = i + 1, IsData(p[j])
      PROVE  IsData(p[i]) /\ Val(p[j]) <= Val(p[i]) + 1
  <2>1. i \in 1..Len(q)
    BY <1>1, <1>6
  <2>2. CASE j = Len(p)
    <3>1. i = Len(q)
      BY <1>1, <1>6, <2>2
    <3>2. IsData(p[i]) /\ Val(p[i]) = b
      BY <1>1, <2>1, <3>1, Zenon DEF Ending
    <3> QED BY <1>1, <2>2, <3>2, Zenon
  <2>3. CASE j \in 1..Len(q)
    BY <1>1, <1>6, <2>1, <2>3, Zenon DEF Shape
  <2> QED BY <1>1, <2>2, <2>3, Zenon
<1>7. Shape(p, w, c)
  BY <1>4, <1>5, <1>6, Zenon DEF Shape
<1>8. ASSUME NEW i \in 1..Len(p)
      PROVE  IsData(p[i]) /\ (i = Len(p) => Val(p[i]) = c)
  <2>1. CASE i = Len(p)
    BY <1>1, <2>1, Zenon
  <2>2. CASE i \in 1..Len(q) /\ i # Len(p)
    BY <1>1, <2>2, Zenon DEF Ending
  <2> QED BY <1>1, <2>1, <2>2, Zenon
<1> QED BY <1>7, <1>8, Zenon DEF Ending

\* Any other unit at the end of the channel.
LEMMA ShapeOther ==
    ASSUME NEW q \in Seq(Units), NEW p \in Seq(Units), NEW u \in Units, Longer(p, q, u),
           NEW w \in Nat, NEW b \in Nat, Shape(q, w, b), ~IsData(u)
    PROVE  Shape(p, w, b)
<1>1. /\ Len(p) \in Nat /\ Len(q) \in Nat /\ Len(p) = Len(q) + 1 /\ p[Len(p)] = u
      /\ \A i \in 1..Len(q) : p[i] = q[i]
      /\ \A i \in 1..Len(p) : i \in 1..Len(q) \/ i = Len(p)
  BY DEF Longer
<1>2. \A i \in 1..Len(p) : IsData(p[i]) => i \in 1..Len(q)
  BY <1>1, Zenon
<1>3. \A i, j \in 1..Len(p) : j = i + 1 /\ j \in 1..Len(q) => i \in 1..Len(q)
  BY <1>1
<1>4. \A i \in 1..Len(p) : IsData(p[i]) =>
         /\ p[i].data = Metadata \/ p[i].data \in 1..FileBlocks
         /\ p[i].number = Val(p[i]) % Modulus
         /\ w <= Val(p[i]) /\ Val(p[i]) <= b
  BY <1>1, <1>2, Zenon DEF Shape
<1>5. \A i, j \in 1..Len(p) : i < j /\ IsData(p[i]) /\ IsData(p[j]) => Val(p[i]) <= Val(p[j])
  BY <1>1, <1>2, Zenon DEF Shape
<1>6. \A i, j \in 1..Len(p) : j = i + 1 /\ IsData(p[j]) =>
         IsData(p[i]) /\ Val(p[j]) <= Val(p[i]) + 1
  BY <1>1, <1>2, <1>3, Zenon DEF Shape
<1> QED BY <1>4, <1>5, <1>6, Zenon DEF Shape

\* A further bound on the blocks.
LEMMA ShapeWider ==
    ASSUME NEW q \in Seq(Units), NEW w \in Nat, NEW b \in Nat, NEW c \in Nat, b <= c, Shape(q, w, b)
    PROVE  Shape(q, w, c)
<1>1. \A i \in 1..Len(q) : Val(q[i]) \in Nat
  <2>1. \A i \in 1..Len(q) : q[i] \in Units
    OBVIOUS
  <2> QED BY <2>1, ValType, Zenon
<1>2. \A i \in 1..Len(q) : Val(q[i]) <= b => Val(q[i]) <= c
  BY <1>1
<1> QED BY <1>2, Zenon DEF Shape

\* The first block stays the first one, and stays near.
LEMMA NearLonger ==
    ASSUME NEW q \in Seq(Units), NEW p \in Seq(Units), NEW u \in Units, Longer(p, q, u),
           NEW r \in Nat, Near(q, r), Len(q) = 0 /\ IsData(u) => Val(u) <= r
    PROVE  Near(p, r)
<1>1. CASE Len(q) = 0
  <2>1. p[1] = u
    BY <1>1 DEF Longer
  <2> QED BY <1>1, <2>1, Zenon DEF Near
<1>2. CASE Len(q) # 0
  <2>1. p[1] = q[1]
    BY <1>2 DEF Longer
  <2> QED BY <1>2, <2>1, Zenon DEF Near
<1> QED BY <1>1, <1>2, Zenon

LEMMA RoomLonger ==
    ASSUME NEW q \in Seq(Units), NEW p \in Seq(Units), NEW u, Longer(p, q, u), NEW b, NEW r
    PROVE  Room(p, b, r)
<1>1. Len(p) # 0
  BY DEF Longer
<1> QED BY <1>1, Zenon DEF Room

\* A mangled block is still there.
LEMMA MangledKeeps ==
    ASSUME NEW u \in Units
    PROVE  /\ Mangled(u) \in Units /\ (IsData(Mangled(u)) <=> IsData(u))
           /\ IsData(u) => /\ Mangled(u).data = u.data /\ Mangled(u).number = u.number
                           /\ Val(Mangled(u)) = Val(u)
           /\ Mangled(u).unit \notin {"C", "ACK"}
           /\ Mangled(u).data = EmptyHeader => u.data = EmptyHeader
<1>1. CASE u.unit = "block"
  BY <1>1, Zenon DEF Units, Mangled, IsData, Val
<1>2. CASE u.unit # "block"
  <2>1. Mangled(u) = [unit |-> "junk", number |-> 0, data |-> 0, sound |-> TRUE]
    BY <1>2, Zenon DEF Mangled, Byte1
  <2>2. EmptyHeader # 0
    BY YmodemAssumption DEF EmptyHeader
  <2> QED BY <1>2, <2>1, <2>2 DEF Units, IsData
<1> QED BY <1>1, <1>2, Zenon

LEMMA DamagedShape ==
    ASSUME NEW q \in Seq(Units), NEW p \in Seq(Units), Damaged(p, q),
           NEW w, NEW b, NEW r
    PROVE  /\ Shape(q, w, b) => Shape(p, w, b)
           /\ Ending(q, b) => Ending(p, b)
           /\ Near(q, r) => Near(p, r)
           /\ Room(p, b, r)
<1>1. /\ Len(p) = Len(q) /\ Len(q) # 0 /\ \A i \in 1..Len(q) : q[i] \in Units
      /\ \A i \in 1..Len(q) : p[i] = q[i] \/ p[i] = Mangled(q[i])
      /\ 1 \in 1..Len(q)
  <2>1. Len(p) = Len(q) /\ Len(q) # 0 /\ Len(q) \in Nat
    BY DEF Damaged
  <2>2. \A i \in 1..Len(q) : q[i] \in Units
    OBVIOUS
  <2>3. \A i \in 1..Len(q) : i = 1 \/ i \in 2..Len(q)
    BY <2>1
  <2>4. \A i \in 1..Len(q) : p[i] = q[i] \/ p[i] = Mangled(q[i])
    BY <2>3, Zenon DEF Damaged
  <2>5. 1 \in 1..Len(q)
    BY <2>1
  <2> QED BY <2>1, <2>2, <2>4, <2>5, Zenon
<1>2. \A i \in 1..Len(q) :
         /\ IsData(p[i]) <=> IsData(q[i])
         /\ IsData(q[i]) => p[i].data = q[i].data /\ p[i].number = q[i].number /\ Val(p[i]) = Val(q[i])
  <2> TAKE i \in 1..Len(q)
  <2>1. q[i] \in Units /\ (p[i] = q[i] \/ p[i] = Mangled(q[i]))
    BY <1>1, Zenon
  <2> QED BY <2>1, MangledKeeps, Zenon
<1>3. ASSUME Shape(q, w, b)
      PROVE  Shape(p, w, b)
  <2>1. \A i \in 1..Len(q) : IsData(p[i]) =>
         /\ p[i].data = Metadata \/ p[i].data \in 1..FileBlocks
         /\ p[i].number = Val(p[i]) % Modulus
         /\ w <= Val(p[i]) /\ Val(p[i]) <= b
    BY <1>2, <1>3, Zenon DEF Shape
  <2>2. \A i, j \in 1..Len(q) : i < j /\ IsData(p[i]) /\ IsData(p[j]) => Val(p[i]) <= Val(p[j])
    BY <1>2, <1>3, Zenon DEF Shape
  <2>3. \A i, j \in 1..Len(q) : j = i + 1 /\ IsData(p[j]) =>
         IsData(p[i]) /\ Val(p[j]) <= Val(p[i]) + 1
    BY <1>2, <1>3, Zenon DEF Shape
  <2> QED BY <1>1, <2>1, <2>2, <2>3, Zenon DEF Shape
<1> QED BY <1>1, <1>2, <1>3, Zenon DEF Ending, Near, Room

-------------------------------------------------------------------------------
\* What reading, damage and a further byte do to the requests and answers under way.
LEMMA QuietShorter ==
    ASSUME NEW q \in Seq(Units), NEW p \in Seq(Units), Shorter(p, q)
    PROVE  Quiet(p, q)
<1>1. \A i \in 1..Len(p) : i + 1 \in 1..Len(q) /\ p[i] = q[i + 1]
  BY DEF Shorter
<1>2. \A i, j \in 1..Len(p) : i < j => i + 1 < j + 1
  OBVIOUS
<1>3. ASSUME OneBehind(q), NEW h \in 1..Len(p), NEW i \in 1..Len(p), NEW j \in 1..Len(p),
             h < i, i < j, p[h].unit = "ACK"
      PROVE  p[i].unit # "C" \/ p[j].unit # "C"
  <2>1. /\ h + 1 \in 1..Len(q) /\ i + 1 \in 1..Len(q) /\ j + 1 \in 1..Len(q)
        /\ h + 1 < i + 1 /\ i + 1 < j + 1
        /\ p[h] = q[h + 1] /\ p[i] = q[i + 1] /\ p[j] = q[j + 1]
    BY <1>1, <1>2, <1>3, Zenon
  <2> QED BY <1>3, <2>1, Zenon DEF OneBehind
<1>4. AtMostOne(q) => AtMostOne(p)
  BY <1>1, <1>2, Zenon DEF AtMostOne
<1>5. NoneAtAll(q) => NoneAtAll(p)
  BY <1>1, Zenon DEF NoneAtAll
<1>6. NotAcked(q) => NotAcked(p)
  BY <1>1, Zenon DEF NotAcked
<1> QED BY <1>3, <1>4, <1>5, <1>6, Zenon DEF Quiet, OneBehind

LEMMA QuietDamaged ==
    ASSUME NEW q \in Seq(Units), NEW p \in Seq(Units), Damaged(p, q)
    PROVE  Quiet(p, q)
<1>1. Len(p) = Len(q) /\ \A i \in 1..Len(q) : i = 1 \/ i \in 2..Len(q)
  BY DEF Damaged
<1>2. q[1] \in Units /\ p[1] = Mangled(q[1])
  BY DEF Damaged
<1>3. p[1].unit # "C" /\ p[1].unit # "ACK"
  BY <1>2, MangledKeeps, Zenon
<1>4. \A i \in 1..Len(q) : p[i] = q[i] \/ (p[i].unit # "C" /\ p[i].unit # "ACK")
  BY <1>1, <1>3, Zenon DEF Damaged
<1>5. /\ \A i \in 1..Len(q) : p[i].unit = "C" => q[i].unit = "C"
      /\ \A i \in 1..Len(q) : p[i].unit = "ACK" => q[i].unit = "ACK"
  BY <1>4, Zenon
<1>6. ASSUME OneBehind(q), NEW h \in 1..Len(q), NEW i \in 1..Len(q), NEW j \in 1..Len(q),
             h < i, i < j, p[h].unit = "ACK", p[i].unit = "C", p[j].unit = "C"
      PROVE  FALSE
  <2>1. q[h].unit = "ACK" /\ q[i].unit = "C" /\ q[j].unit = "C"
    BY <1>5, <1>6, Zenon
  <2> QED BY <1>6, <2>1, Zenon DEF OneBehind
<1>7. OneBehind(q) => OneBehind(p)
  BY <1>1, <1>6, Zenon DEF OneBehind
<1>8. AtMostOne(q) => AtMostOne(p)
  BY <1>1, <1>5, Zenon DEF AtMostOne
<1> QED BY <1>1, <1>5, <1>7, <1>8, Zenon DEF Quiet, NoneAtAll, NotAcked

\* One more byte that is no request.
LEMMA NoRequestLonger ==
    ASSUME NEW q \in Seq(Units), NEW p \in Seq(Units), NEW u \in Units, Longer(p, q, u), u.unit # "C"
    PROVE  /\ OneBehind(q) => OneBehind(p)
           /\ AtMostOne(q) => AtMostOne(p)
           /\ NoneAtAll(q) => NoneAtAll(p)
           /\ u.unit # "ACK" => Quiet(p, q)
<1>1. /\ Len(p) \in Nat /\ Len(q) \in Nat /\ Len(p) = Len(q) + 1 /\ p[Len(p)] = u
      /\ \A i \in 1..Len(q) : p[i] = q[i]
      /\ \A i \in 1..Len(p) : i \in 1..Len(q) \/ i = Len(p)
  BY DEF Longer
<1>2. \A i \in 1..Len(p) : p[i].unit = "C" => i \in 1..Len(q)
  BY <1>1, Zenon
<1>3. \A i, j \in 1..Len(p) : i < j /\ j \in 1..Len(q) => i \in 1..Len(q)
  BY <1>1
<1>4. ASSUME OneBehind(q), NEW h \in 1..Len(p), NEW i \in 1..Len(p), NEW j \in 1..Len(p),
             h < i, i < j, p[h].unit = "ACK", p[i].unit = "C", p[j].unit = "C"
      PROVE  FALSE
  <2>1. i \in 1..Len(q) /\ j \in 1..Len(q) /\ h \in 1..Len(q)
    BY <1>2, <1>3, <1>4, Zenon
  <2>2. p[h] = q[h] /\ p[i] = q[i] /\ p[j] = q[j]
    BY <1>1, <2>1, Zenon
  <2> QED BY <1>4, <2>1, <2>2, Zenon DEF OneBehind
<1>5. AtMostOne(q) => AtMostOne(p)
  BY <1>1, <1>2, Zenon DEF AtMostOne
<1>6. NoneAtAll(q) => NoneAtAll(p)
  BY <1>1, <1>2, Zenon DEF NoneAtAll
<1>7. u.unit # "ACK" => (NotAcked(q) => NotAcked(p))
  BY <1>1, Zenon DEF NotAcked
<1>8. OneBehind(q) => OneBehind(p)
  BY <1>4, Zenon DEF OneBehind
<1> QED BY <1>5, <1>6, <1>7, <1>8, Zenon DEF Quiet

\* A request when none, or only one answer, is under way.
LEMMA FirstRequest ==
    ASSUME NEW q \in Seq(Units), NEW p \in Seq(Units), NEW u \in Units, Longer(p, q, u),
           NotAcked(q), u.unit # "ACK"
    PROVE  OneBehind(p) /\ NotAcked(p)
<1>1. /\ Len(p) \in Nat /\ Len(q) \in Nat /\ Len(p) = Len(q) + 1 /\ p[Len(p)] = u
      /\ \A i \in 1..Len(q) : p[i] = q[i]
      /\ \A i \in 1..Len(p) : i \in 1..Len(q) \/ i = Len(p)
  BY DEF Longer
<1>2. NotAcked(p)
  BY <1>1, Zenon DEF NotAcked
<1> QED BY <1>2, Zenon DEF NotAcked, OneBehind

LEMMA RequestBehindAnswer ==
    ASSUME NEW q \in Seq(Units), NEW s \in Seq(Units), NEW p \in Seq(Units), NEW u \in Units,
           NEW a \in Units, Longer(s, q, a), Longer(p, s, u), NotAcked(q)
    PROVE  OneBehind(p)
<1> SUFFICES ASSUME NEW h \in 1..Len(p), NEW i \in 1..Len(p), NEW j \in 1..Len(p),
                    h < i, i < j, p[h].unit = "ACK"
             PROVE  FALSE
  BY Zenon DEF OneBehind
<1>1. h \in 1..Len(q) /\ p[h] = q[h]
  BY DEF Longer
<1> QED BY <1>1, Zenon DEF NotAcked

\* Behind the answer at the head at most one request, behind a request none.
LEMMA AnswerRead ==
    ASSUME NEW q \in Seq(Units), NEW p \in Seq(Units), Shorter(p, q)
    PROVE  /\ q[1].unit = "ACK" /\ OneBehind(q) => AtMostOne(p)
           /\ q[1].unit = "C" /\ AtMostOne(q) => NoneAtAll(p)
           /\ NoneAtAll(q) => q[1].unit # "C"
           /\ NotAcked(q) => q[1].unit # "ACK"
<1>1. /\ \A i \in 1..Len(p) : i + 1 \in 1..Len(q) /\ p[i] = q[i + 1] /\ 1 < i + 1
      /\ 1 \in 1..Len(q)
  BY DEF Shorter
<1>2. \A i, j \in 1..Len(p) : i < j => i + 1 < j + 1
  OBVIOUS
<1>3. q[1].unit = "ACK" /\ OneBehind(q) => AtMostOne(p)
  BY <1>1, <1>2, Zenon DEF OneBehind, AtMostOne
<1>4. q[1].unit = "C" /\ AtMostOne(q) => NoneAtAll(p)
  BY <1>1, Zenon DEF AtMostOne, NoneAtAll
<1> QED BY <1>1, <1>3, <1>4, Zenon DEF NoneAtAll, NotAcked

-------------------------------------------------------------------------------
LEMMA Counts ==
    ASSUME YmodemInv
    PROVE  /\ Len(written) \in Nat /\ sender.block \in Nat /\ receiver.retries \in Nat
           /\ mangled \in Nat /\ mangled <= MaxMangled /\ Reach \in Nat
           /\ toReceiver \in Seq(Units) /\ toSender \in Seq(Units)
           /\ Len(written) <= sender.block /\ FileBlocks \in Nat /\ MaxRetries \in Nat
           /\ Modulus \in Nat \ {0} /\ MaxMangled \in Nat
<1>1. /\ sender \in [at : SenderPlaces, block : Nat, tries : Nat]
      /\ receiver \in [at : ReceiverPlaces, expected : Nat, retries : Nat]
      /\ toReceiver \in Seq(Units) /\ toSender \in Seq(Units)
      /\ written \in Seq(Nat) /\ mangled \in 0..MaxMangled /\ Len(written) <= sender.block
  BY Zenon DEF YmodemInv, YmodemTypes, Written
<1>2. FileBlocks \in Nat /\ MaxRetries \in Nat /\ MaxMangled \in Nat /\ Modulus \in Nat \ {0}
  BY YmodemAssumption, Zenon
<1>3. Len(written) \in Nat /\ sender.block \in Nat /\ receiver.retries \in Nat
  BY <1>1
<1>4. mangled \in Nat /\ mangled <= MaxMangled
  BY <1>1, <1>2
<1>5. Reach \in Nat
  BY <1>3, <1>4 DEF Reach
<1> QED BY <1>1, <1>2, <1>3, <1>4, <1>5, Zenon

\* A block on the wire is what its number and place say.
LEMMA BlockSent ==
    ASSUME NEW c \in Nat, NEW d, (d = Metadata /\ c = 0) \/ (d = c /\ c \in 1..FileBlocks)
    PROVE  LET u == DataBlock(c, d) IN
           /\ u \in Units /\ IsData(u) /\ Val(u) = c /\ u.number = c % Modulus
           /\ u.data = Metadata \/ u.data \in 1..FileBlocks
           /\ u.data # EmptyHeader
<1>1. FileBlocks \in Nat /\ Modulus \in Nat \ {0} /\ c % Modulus \in Nat
  BY YmodemAssumption
<1>2. d \in Nat /\ d # EmptyHeader /\ (c # 0 => d # Metadata)
  BY <1>1 DEF EmptyHeader, Metadata
<1>3. DataBlock(c, d) \in Units
  BY <1>1, <1>2, Zenon DEF DataBlock, Units
<1>4. /\ DataBlock(c, d).unit = "block" /\ DataBlock(c, d).data = d
      /\ DataBlock(c, d).number = c % Modulus
  BY Zenon DEF DataBlock
<1>5. Val(DataBlock(c, d)) = c
  <2>1. c \in 1..FileBlocks => c # 0
    BY <1>1
  <2> QED BY <1>2, <1>4, <2>1, Zenon DEF Val
<1> QED BY <1>2, <1>3, <1>4, <1>5, Zenon DEF IsData

\* The sender puts a block on the wire: its own again, or the next one.
LEMMA OutboundSends ==
    ASSUME YmodemInv, UNCHANGED <<receiver, written, mangled>>, Sending,
           NEW c \in Nat, NEW d, (d = Metadata /\ c = 0) \/ (d = c /\ c \in 1..FileBlocks),
           sender'.block = c, c = sender.block \/ c = sender.block + 1,
           toReceiver' = toReceiver \o <<DataBlock(c, d)>>
    PROVE  Outbound' /\ toReceiver' \in Seq(Units)
<1> DEFINE u == DataBlock(c, d)
           b == sender.block
           w == Len(written)
           r == Reach
           q == toReceiver
           p == toReceiver'
<1>1. /\ u \in Units /\ IsData(u) /\ Val(u) = c /\ u.number = c % Modulus
      /\ u.data = Metadata \/ u.data \in 1..FileBlocks
      /\ u.data # EmptyHeader
  BY BlockSent, Zenon
<1>2. w \in Nat /\ b \in Nat /\ r \in Nat /\ q \in Seq(Units) /\ w <= b
  BY Counts, Zenon
<1>3. p \in Seq(Units) /\ Longer(p, q, u)
  BY <1>1, <1>2, JoinLonger, Zenon
<1>4. /\ Shape(q, w, b) /\ Ending(q, b)
      /\ Listening => Near(q, r) /\ Room(q, b, r)
      /\ Entire \/ \A i \in 1..Len(q) : q[i].data # EmptyHeader
  BY Zenon DEF YmodemInv, Outbound
<1>5. /\ Len(written') = w /\ Reach' = r /\ (Listening' <=> Listening) /\ (Entire' <=> Entire)
      /\ sender'.block = c
  BY Zenon DEF Reach, Listening, Entire
<1> HIDE DEF u, b, w, r, q, p
<1>6. b <= c /\ c <= b + 1
  BY <1>2 DEF b
<1>7. Shape(p, w, c) /\ Ending(p, c)
  BY <1>1, <1>2, <1>3, <1>4, <1>6, ShapeLonger, Zenon
<1>8. ASSUME Listening
      PROVE  Near(p, r) /\ Room(p, c, r)
  <2>1. Near(q, r) /\ Room(q, b, r)
    BY <1>4, <1>8, Zenon
  <2>2. Len(q) = 0 => c <= r
    BY <1>2, <1>6, <2>1 DEF Room
  <2>3. Len(q) = 0 /\ IsData(u) => Val(u) <= r
    BY <1>1, <2>2, Zenon
  <2>4. Near(p, r)
    BY <1>1, <1>2, <1>3, <2>1, <2>3, NearLonger, Zenon
  <2> QED BY <1>1, <1>2, <1>3, <2>4, RoomLonger, Zenon
<1>9. Entire \/ \A i \in 1..Len(p) : p[i].data # EmptyHeader
  <2>1. \A i \in 1..Len(p) : i \in 1..Len(q) \/ i = Len(p)
    BY <1>2, <1>3 DEF Longer
  <2> QED BY <1>1, <1>3, <1>4, <2>1, Zenon DEF Longer
<1>10. /\ Shape(toReceiver', Len(written'), sender'.block)
       /\ Ending(toReceiver', sender'.block)
       /\ Listening' => Near(toReceiver', Reach') /\ Room(toReceiver', sender'.block, Reach')
       /\ Entire' \/ \A i \in 1..Len(toReceiver') : toReceiver'[i].data # EmptyHeader
  BY <1>5, <1>7, <1>8, <1>9, Zenon DEF p
<1> QED BY <1>3, <1>10, Zenon DEF Outbound, p

\* The sender puts something else on the wire: it has sent the blocks.
LEMMA OutboundOther ==
    ASSUME YmodemInv, UNCHANGED <<receiver, written, mangled>>, ~Sending', NEW u \in Units, ~IsData(u),
           sender'.block \in Nat, sender.block <= sender'.block, u.data = EmptyHeader => Entire,
           toReceiver' = toReceiver \o <<u>>
    PROVE  Outbound' /\ toReceiver' \in Seq(Units)
<1> DEFINE b == sender.block
           w == Len(written)
           r == Reach
           q == toReceiver
           p == toReceiver'
<1>2. w \in Nat /\ b \in Nat /\ r \in Nat /\ q \in Seq(Units) /\ w <= b
  BY Counts, Zenon
<1>3. p \in Seq(Units) /\ Longer(p, q, u)
  BY <1>2, JoinLonger, Zenon
<1>4. /\ Shape(q, w, b)
      /\ Listening => Near(q, r)
      /\ Entire \/ \A i \in 1..Len(q) : q[i].data # EmptyHeader
  BY Zenon DEF YmodemInv, Outbound
<1>5. /\ Len(written') = w /\ Reach' = r /\ (Listening' <=> Listening) /\ (Entire' <=> Entire)
  BY Zenon DEF Reach, Listening, Entire
<1> HIDE DEF b, w, r, q, p
<1>6. Shape(p, w, b)
  BY <1>2, <1>3, <1>4, ShapeOther, Zenon
<1>7. Listening => Near(p, r)
  BY <1>2, <1>3, <1>4, NearLonger, Zenon
<1>8. Entire \/ \A i \in 1..Len(p) : p[i].data # EmptyHeader
  <2>1. \A i \in 1..Len(p) : i \in 1..Len(q) \/ i = Len(p)
    BY <1>2, <1>3 DEF Longer
  <2> QED BY <1>3, <1>4, <2>1, Zenon DEF Longer
<1>9. /\ Shape(toReceiver', Len(written'), sender'.block)
      /\ Listening' => Near(toReceiver', Reach')
      /\ Entire' \/ \A i \in 1..Len(toReceiver') : toReceiver'[i].data # EmptyHeader
  <2>1. Shape(p, w, sender'.block)
    BY <1>2, <1>3, <1>6, ShapeWider, Zenon DEF b
  <2> QED BY <1>5, <1>7, <1>8, <2>1, Zenon DEF p
<1> QED BY <1>3, <1>9, Zenon DEF Outbound, p

\* The sender puts nothing on the wire.
LEMMA OutboundSame ==
    ASSUME YmodemInv, UNCHANGED <<receiver, written, mangled, toReceiver>>,
           sender'.block \in Nat, sender.block <= sender'.block,
           Sending' => Sending /\ sender'.block = sender.block
    PROVE  Outbound' /\ toReceiver' \in Seq(Units)
<1>1. Len(written) \in Nat /\ sender.block \in Nat /\ toReceiver \in Seq(Units)
  BY Counts, Zenon
<1>2. Shape(toReceiver, Len(written), sender'.block)
  <2>1. Shape(toReceiver, Len(written), sender.block)
    BY Zenon DEF YmodemInv, Outbound
  <2> QED BY <1>1, <2>1, ShapeWider, Zenon
<1>3. Reach' = Reach /\ (Listening' <=> Listening) /\ (Entire' <=> Entire) /\ toReceiver' = toReceiver
      /\ Len(written') = Len(written)
  BY Zenon DEF Reach, Listening, Entire
<1>4. /\ Sending' => Ending(toReceiver, sender'.block)
      /\ Listening => Near(toReceiver, Reach)
      /\ Sending' /\ Listening => Room(toReceiver, sender'.block, Reach)
      /\ Entire \/ \A i \in 1..Len(toReceiver) : toReceiver[i].data # EmptyHeader
  BY Zenon DEF YmodemInv, Outbound
<1> QED BY <1>1, <1>2, <1>3, <1>4, Zenon DEF Outbound

-------------------------------------------------------------------------------
SenderStates == [at : SenderPlaces, block : Nat, tries : Nat]

\* What is left to show of a step of the sender.
LEMMA SenderMoves ==
    ASSUME YmodemInv, UNCHANGED <<receiver, written, mangled>>, toSender' \in Seq(Units),
           NotAcked(toSender) => NotAcked(toSender'),
           sender' \in SenderStates, sender.block <= sender'.block,
           Outbound' /\ toReceiver' \in Seq(Units), Inbound',
           sender'.at \in {"crc1", "header", "crc2"} => sender'.block = 0,
           sender'.at = "data" => sender'.block \in 1..FileBlocks,
           sender'.at \in {"final", "done"} => Entire,
           receiver.at \in {"start", "meta"} => sender'.at \in {"crc1", "header", "failed"}
    PROVE  YmodemInv'
<1>1. YmodemTypes'
  BY Zenon DEF YmodemInv, YmodemTypes, SenderStates
<1>2. Written'
  <2>1. /\ Len(written) <= FileBlocks /\ Len(written) <= sender.block
        /\ \A i \in 1..Len(written) : written[i] = i
    BY Zenon DEF YmodemInv, Written
  <2>2. sender'.block \in Nat
    BY Zenon DEF SenderStates
  <2>3. Len(written) <= sender'.block
    BY <2>1, <2>2, Counts
  <2> QED BY <2>1, <2>3, Zenon DEF Written
<1>3. Places'
  BY Zenon DEF YmodemInv, Places, Entire, Listening
<1> QED BY <1>1, <1>2, <1>3, Zenon DEF YmodemInv

\* The transfer ends on the sender's side.
LEMMA SenderStops ==
    ASSUME YmodemInv, UNCHANGED <<receiver, written, mangled>>, toSender' \in Seq(Units),
           Quiet(toSender', toSender), SenderFails
    PROVE  YmodemInv'
<1>1. sender \in SenderStates
  BY Zenon DEF YmodemInv, YmodemTypes, SenderStates
<1>2. /\ sender' \in SenderStates /\ sender'.at = "failed" /\ sender'.block = sender.block
      /\ toReceiver' = toReceiver
  <2>1. sender' = [sender EXCEPT !.at = "failed"] /\ toReceiver' = toReceiver
    BY Zenon DEF SenderFails
  <2> QED BY <1>1, <2>1, Zenon DEF SenderStates, SenderPlaces
<1>3. sender.block \in Nat /\ sender.block <= sender'.block
  BY <1>2, Counts
<1>4. ~Sending'
  BY <1>2, Zenon DEF Sending
<1>5. Outbound' /\ toReceiver' \in Seq(Units)
  BY <1>2, <1>3, <1>4, OutboundSame, Zenon
<1>6. Inbound'
  BY <1>2, Zenon DEF Inbound
<1>7. NotAcked(toSender) => NotAcked(toSender')
  BY Zenon DEF Quiet
<1>8. /\ sender'.at \notin {"crc1", "header", "crc2"} /\ sender'.at # "data"
      /\ sender'.at \notin {"final", "done"} /\ sender'.at \in {"crc1", "header", "failed"}
  BY <1>2, Zenon
<1> QED BY <1>2, <1>3, <1>5, <1>6, <1>7, <1>8, SenderMoves, Zenon

\* It waits for C again, or sends the same again.
LEMMA SenderRepeats ==
    ASSUME YmodemInv, UNCHANGED <<receiver, written, mangled>>, toSender' \in Seq(Units),
           Quiet(toSender', toSender), sender.at \notin {"done", "failed"},
           NEW t \in Nat, SenderGoesTo([sender EXCEPT !.tries = t])
    PROVE  YmodemInv'
<1>1. sender \in SenderStates
  BY Zenon DEF YmodemInv, YmodemTypes, SenderStates
<1>2. /\ sender' \in SenderStates /\ sender'.at = sender.at /\ sender'.block = sender.block
      /\ toReceiver' = toReceiver \o Packet(sender')
  <2>1. sender' = [sender EXCEPT !.tries = t] /\ toReceiver' = toReceiver \o Packet(sender')
    BY Zenon DEF SenderGoesTo
  <2> QED BY <1>1, <2>1, Zenon DEF SenderStates
<1>3. sender.block \in Nat /\ sender.block <= sender'.block
  BY <1>2, Counts
<1>4. Places /\ Inbound /\ (Sending' <=> Sending) /\ (Entire' <=> Entire) /\ toReceiver \in Seq(Units)
  BY <1>2, Counts, Zenon DEF YmodemInv, Sending, Entire
<1>5. Outbound' /\ toReceiver' \in Seq(Units)
  <2>1. CASE sender.at = "header"
    <3>1. Packet(sender') = <<DataBlock(0, Metadata)>>
      BY <1>2, <2>1, Zenon DEF Packet
    <3>2. sender.block = 0 /\ Sending
      BY <1>4, <2>1, Zenon DEF Places, Sending
    <3>3. 0 \in Nat /\ sender'.block = 0 /\ toReceiver' = toReceiver \o <<DataBlock(0, Metadata)>>
      BY <1>2, <3>1, <3>2, Zenon
    <3> QED BY <3>2, <3>3, OutboundSends, Zenon
  <2>2. CASE sender.at = "data"
    <3>1. Packet(sender') = <<DataBlock(sender.block, sender.block)>>
      BY <1>2, <2>2, Zenon DEF Packet
    <3>2. sender.block \in 1..FileBlocks /\ Sending
      BY <1>4, <2>2, Zenon DEF Places, Sending
    <3> QED BY <1>2, <1>3, <3>1, <3>2, OutboundSends, Zenon
  <2>3. CASE sender.at = "final"
    <3>1. Packet(sender') = <<DataBlock(0, EmptyHeader)>>
      BY <1>2, <2>3, Zenon DEF Packet
    <3>2. Entire /\ ~Sending'
      BY <1>2, <1>4, <2>3, Zenon DEF Places, Sending
    <3>3. DataBlock(0, EmptyHeader) \in Units /\ ~IsData(DataBlock(0, EmptyHeader))
      BY YmodemAssumption DEF DataBlock, Units, IsData, EmptyHeader
    <3> QED BY <1>2, <1>3, <3>1, <3>2, <3>3, OutboundOther, Zenon
  <2>4. CASE sender.at \in {"eot1", "eot2"}
    <3>1. Packet(sender') = <<Byte1("EOT")>>
      BY <1>2, <2>4, Zenon DEF Packet
    <3>2. ~Sending'
      BY <1>2, <1>4, <2>4, Zenon DEF Sending
    <3>3. Byte1("EOT") \in Units /\ ~IsData(Byte1("EOT")) /\ Byte1("EOT").data # EmptyHeader
      BY YmodemAssumption DEF Byte1, Units, IsData, EmptyHeader
    <3> QED BY <1>2, <1>3, <3>1, <3>2, <3>3, OutboundOther, Zenon
  <2>5. CASE sender.at \in {"crc1", "crc2", "crc3"}
    <3>1. Packet(sender') = <<>>
      BY <1>2, <2>5, Zenon DEF Packet
    <3>2. toReceiver' = toReceiver
      BY <1>2, <1>4, <3>1, JoinNothing, Zenon
    <3> QED BY <1>2, <1>3, <1>4, <3>2, OutboundSame, Zenon
  <2> QED BY <1>1, <2>1, <2>2, <2>3, <2>4, <2>5, Zenon DEF SenderStates, SenderPlaces
<1>6. Inbound'
  BY <1>2, <1>4, Zenon DEF Inbound, Quiet
<1>7. NotAcked(toSender) => NotAcked(toSender')
  BY Zenon DEF Quiet
<1>8. /\ sender'.at \in {"crc1", "header", "crc2"} => sender'.block = 0
      /\ sender'.at = "data" => sender'.block \in 1..FileBlocks
      /\ sender'.at \in {"final", "done"} => Entire
      /\ receiver.at \in {"start", "meta"} => sender'.at \in {"crc1", "header", "failed"}
  BY <1>2, <1>4, Zenon DEF Places
<1> QED BY <1>2, <1>3, <1>5, <1>6, <1>7, <1>8, SenderMoves, Zenon

\* The bytes that let the sender go on from a place.
GoOn(place) ==
    CASE place \in {"crc1", "crc2", "crc3"} -> "C"
      [] place = "eot1" -> "NAK"
      [] OTHER -> "ACK"

\* It goes on to the next place of its script.
LEMMA SenderAdvances ==
    ASSUME YmodemInv, UNCHANGED <<receiver, written, mangled>>, sender.at \notin {"done", "failed"},
           toSender # <<>>, toSender' = Tail(toSender), Head(toSender).unit = GoOn(sender.at), Advance
    PROVE  YmodemInv'
<1> DEFINE place == sender.at
           b == sender.block
<1>1. sender \in SenderStates
  BY Zenon DEF YmodemInv, YmodemTypes, SenderStates
<1>2. /\ sender' = [Then(sender) EXCEPT !.tries = 0]
      /\ toReceiver' = toReceiver \o Packet(sender')
  BY Zenon DEF Advance, SenderGoesTo
<1>3. /\ toReceiver \in Seq(Units) /\ toSender \in Seq(Units) /\ b \in Nat /\ FileBlocks \in Nat
      /\ Places /\ Inbound /\ (Entire' <=> Entire)
  BY Counts, Zenon DEF YmodemInv, Entire
<1>4. /\ toSender' \in Seq(Units) /\ Shorter(toSender', toSender) /\ toSender[1].unit = GoOn(place)
  BY <1>3, TailShorter, Zenon
<1>5. Quiet(toSender', toSender)
  BY <1>3, <1>4, QuietShorter, Zenon
<1>6. NotAcked(toSender) => NotAcked(toSender')
  BY <1>5, Zenon DEF Quiet
<1>7. /\ toSender[1].unit = "ACK" /\ OneBehind(toSender) => AtMostOne(toSender')
      /\ toSender[1].unit = "C" /\ AtMostOne(toSender) => NoneAtAll(toSender')
      /\ NoneAtAll(toSender) => toSender[1].unit # "C"
      /\ NotAcked(toSender) => toSender[1].unit # "ACK"
  BY <1>3, <1>4, AnswerRead, Zenon
<1>8. NoneAtAll(toSender) => NoneAtAll(toSender')
  BY <1>5, Zenon DEF Quiet
<1>9. OneBehind(toSender) => OneBehind(toSender')
  BY <1>5, Zenon DEF Quiet
<1>10. /\ Byte1("EOT") \in Units /\ ~IsData(Byte1("EOT")) /\ Byte1("EOT").data # EmptyHeader
       /\ DataBlock(0, EmptyHeader) \in Units /\ ~IsData(DataBlock(0, EmptyHeader))
  BY YmodemAssumption DEF Byte1, DataBlock, Units, IsData, EmptyHeader
<1>11. CASE place = "crc1"
  <2>1. /\ sender' \in SenderStates /\ sender'.at = "header" /\ sender'.block = b
        /\ Packet(sender') = <<DataBlock(0, Metadata)>>
    BY <1>1, <1>2, <1>11, Zenon DEF SenderStates, SenderPlaces, Then, Packet
  <2>2. b = 0 /\ Sending
    BY <1>3, <1>11, Zenon DEF Places, Sending
  <2>3. 0 \in Nat /\ sender'.block = 0 /\ toReceiver' = toReceiver \o <<DataBlock(0, Metadata)>>
    BY <1>2, <2>1, <2>2, Zenon
  <2>4. Outbound' /\ toReceiver' \in Seq(Units)
    BY <2>2, <2>3, OutboundSends, Zenon
  <2>5. Inbound'
    BY <1>3, <1>9, <1>11, <2>1, Zenon DEF Inbound
  <2>6. sender.block <= sender'.block /\ sender'.at \in {"crc1", "header", "failed"}
        /\ sender'.at # "data" /\ sender'.at \notin {"final", "done"}
    BY <2>1, <2>2, <2>3
  <2> QED BY <1>4, <1>6, <2>1, <2>3, <2>4, <2>5, <2>6, SenderMoves, Zenon
<1>12. CASE place = "header"
  <2>1. /\ sender' \in SenderStates /\ sender'.at = "crc2" /\ sender'.block = b
        /\ Packet(sender') = <<>>
    BY <1>1, <1>2, <1>12, Zenon DEF SenderStates, SenderPlaces, Then, Packet
  <2>2. b = 0 /\ Sending /\ toSender[1].unit = "ACK"
    BY <1>3, <1>4, <1>12, Zenon DEF Places, Sending, GoOn
  <2>3. receiver.at \notin {"start", "meta"}
    BY <1>3, <1>7, <2>2, Zenon DEF Places
  <2>4. toReceiver' = toReceiver
    BY <1>2, <1>3, <2>1, JoinNothing, Zenon
  <2>5. sender.block <= sender'.block /\ sender'.block \in Nat
    BY <1>3, <2>1
  <2>6. Outbound' /\ toReceiver' \in Seq(Units)
    BY <2>1, <2>2, <2>4, <2>5, OutboundSame, Zenon
  <2>7. Inbound'
    BY <1>3, <1>7, <1>12, <2>1, <2>2, Zenon DEF Inbound
  <2>8. sender'.block = 0 /\ sender'.at # "data" /\ sender'.at \notin {"final", "done"}
    BY <2>1, <2>2, Zenon
  <2> QED BY <1>4, <1>6, <2>1, <2>3, <2>5, <2>6, <2>7, <2>8, SenderMoves, Zenon
<1>13. CASE place = "crc2"
  <2>1. /\ sender' \in SenderStates /\ sender'.block = b + 1
        /\ sender'.at = IF FileBlocks = 0 THEN "eot1" ELSE "data"
    <3>1. Then(sender) = [sender EXCEPT !.at = IF FileBlocks = 0 THEN "eot1" ELSE "data", !.block = b + 1]
      BY <1>13, Zenon DEF Then
    <3>2. sender' = [at |-> IF FileBlocks = 0 THEN "eot1" ELSE "data", block |-> b + 1, tries |-> 0]
      BY <1>1, <1>2, <3>1, Zenon DEF SenderStates
    <3>3. b + 1 \in Nat /\ (IF FileBlocks = 0 THEN "eot1" ELSE "data") \in SenderPlaces
      BY <1>3 DEF SenderPlaces
    <3> QED BY <3>2, <3>3, Zenon DEF SenderStates
  <2>2. b = 0 /\ Sending /\ toSender[1].unit = "C"
    BY <1>3, <1>4, <1>13, Zenon DEF Places, Sending, GoOn
  <2>3. receiver.at \notin {"start", "meta"}
    BY <1>3, <1>13, Zenon DEF Places
  <2>4. Inbound'
    BY <1>3, <1>7, <1>13, <2>1, <2>2, Zenon DEF Inbound
  <2>5. sender.block <= sender'.block /\ sender'.block \in Nat /\ sender'.block = 1
    BY <1>3, <2>1, <2>2
  <2>6. CASE FileBlocks = 0
    <3>1. sender'.at = "eot1"
      BY <2>1, <2>6, Zenon
    <3>2. Packet(sender') = <<Byte1("EOT")>>
      BY <3>1, Zenon DEF Packet
    <3>3. ~Sending'
      BY <3>1, Zenon DEF Sending
    <3>4. toReceiver' = toReceiver \o <<Byte1("EOT")>>
      BY <1>2, <3>2, Zenon
    <3>5. Outbound' /\ toReceiver' \in Seq(Units)
      BY <1>10, <2>5, <3>3, <3>4, OutboundOther, Zenon
    <3>6. /\ sender'.at \notin {"crc1", "header", "crc2"} /\ sender'.at # "data"
          /\ sender'.at \notin {"final", "done"}
      BY <3>1, Zenon
    <3> QED BY <1>4, <1>6, <2>1, <2>3, <2>4, <2>5, <3>5, <3>6, SenderMoves, Zenon
  <2>7. CASE FileBlocks # 0
    <3>1. sender'.at = "data" /\ 1 \in 1..FileBlocks /\ 1 \in Nat /\ 1 = sender.block + 1
      BY <1>3, <2>1, <2>2, <2>7
    <3>2. toReceiver' = toReceiver \o <<DataBlock(1, 1)>>
      BY <1>2, <2>5, <3>1, Zenon DEF Packet
    <3>3. Outbound' /\ toReceiver' \in Seq(Units)
      BY <2>2, <2>5, <3>1, <3>2, OutboundSends, Zenon
    <3>4. /\ sender'.at \notin {"crc1", "header", "crc2"} /\ sender'.at \notin {"final", "done"}
          /\ sender'.block \in 1..FileBlocks
      BY <2>5, <3>1, Zenon
    <3> QED BY <1>4, <1>6, <2>1, <2>3, <2>4, <2>5, <3>3, <3>4, SenderMoves, Zenon
  <2> QED BY <2>6, <2>7, Zenon
<1>14. CASE place = "data" /\ b < FileBlocks
  <2>1. b \in 1..FileBlocks /\ Sending /\ receiver.at \notin {"start", "meta"} /\ FileBlocks # 0
    BY <1>3, <1>14 DEF Places, Sending
  <2>2. sender' \in SenderStates /\ sender'.block = b + 1 /\ sender'.at = "data"
    <3>1. Then(sender) = [sender EXCEPT !.at = "data", !.block = b + 1]
      BY <1>14, <2>1 DEF Then
    <3>2. sender' = [at |-> "data", block |-> b + 1, tries |-> 0]
      BY <1>1, <1>2, <3>1, Zenon DEF SenderStates
    <3>3. b + 1 \in Nat /\ "data" \in SenderPlaces
      BY <1>3 DEF SenderPlaces
    <3> QED BY <3>2, <3>3, Zenon DEF SenderStates
  <2>3. /\ sender'.block \in Nat /\ sender.block <= sender'.block /\ sender'.block \in 1..FileBlocks
    BY <1>3, <1>14, <2>2
  <2>4. toReceiver' = toReceiver \o <<DataBlock(sender'.block, sender'.block)>>
    BY <1>2, <2>2, Zenon DEF Packet
  <2>5. Outbound' /\ toReceiver' \in Seq(Units)
    BY <2>1, <2>2, <2>3, <2>4, OutboundSends, Zenon
  <2>6. Inbound'
    BY <1>3, <1>8, <1>14, <2>2, Zenon DEF Inbound
  <2>7. sender'.at \notin {"crc1", "header", "crc2"} /\ sender'.at \notin {"final", "done"}
    BY <2>2, Zenon
  <2> QED BY <1>4, <1>6, <2>1, <2>2, <2>3, <2>5, <2>6, <2>7, SenderMoves, Zenon
<1>15. CASE (place = "data" /\ ~(b < FileBlocks)) \/ place = "eot1"
  <2>1. /\ receiver.at \notin {"start", "meta"} /\ (place = "data" => b = FileBlocks)
    BY <1>3, <1>15 DEF Places
  <2>2. sender' \in SenderStates /\ sender'.block = b /\ sender'.at \in {"eot1", "eot2"}
    BY <1>1, <1>2, <1>15, <2>1, Zenon DEF SenderStates, SenderPlaces, Then
  <2>3. Packet(sender') = <<Byte1("EOT")>>
    BY <2>2, Zenon DEF Packet
  <2>4. ~Sending' /\ sender.block <= sender'.block /\ sender'.block \in Nat
    BY <1>3, <2>2 DEF Sending
  <2>5. Outbound' /\ toReceiver' \in Seq(Units)
    BY <1>2, <1>10, <2>2, <2>3, <2>4, OutboundOther, Zenon
  <2>6. Inbound'
    BY <1>3, <1>8, <1>15, <2>2, Zenon DEF Inbound
  <2>7. /\ sender'.at \notin {"crc1", "header", "crc2"} /\ sender'.at # "data"
        /\ sender'.at \notin {"final", "done"}
    BY <2>2, Zenon
  <2> QED BY <1>4, <1>6, <2>1, <2>2, <2>4, <2>5, <2>6, <2>7, SenderMoves, Zenon
<1>16. CASE place = "eot2"
  <2>1. receiver.at \notin {"start", "meta"}
    BY <1>3, <1>16, Zenon DEF Places
  <2>2. sender' \in SenderStates /\ sender'.block = b /\ sender'.at = "crc3" /\ Packet(sender') = <<>>
    BY <1>1, <1>2, <1>16, Zenon DEF SenderStates, SenderPlaces, Then, Packet
  <2>3. toReceiver' = toReceiver
    BY <1>2, <1>3, <2>2, JoinNothing, Zenon
  <2>4. ~Sending' /\ sender.block <= sender'.block /\ sender'.block \in Nat
    BY <1>3, <2>2 DEF Sending
  <2>5. Outbound' /\ toReceiver' \in Seq(Units)
    BY <2>3, <2>4, OutboundSame, Zenon
  <2>6. Inbound'
    BY <1>3, <1>8, <1>16, <2>2, Zenon DEF Inbound
  <2>7. /\ sender'.at \notin {"crc1", "header", "crc2"} /\ sender'.at # "data"
        /\ sender'.at \notin {"final", "done"}
    BY <2>2, Zenon
  <2> QED BY <1>4, <1>6, <2>1, <2>2, <2>4, <2>5, <2>6, <2>7, SenderMoves, Zenon
<1>17. CASE place \in {"crc3", "final"}
  <2>1. receiver.at \notin {"start", "meta"}
    BY <1>3, <1>17, Zenon DEF Places
  <2>2. Entire
    <3>1. CASE place = "final"
      BY <1>3, <3>1, Zenon DEF Places
    <3>2. CASE place = "crc3"
      <4>1. toSender[1].unit = "C"
        BY <1>4, <3>2, Zenon DEF GoOn
      <4> QED BY <1>3, <1>7, <3>2, <4>1, Zenon DEF Inbound
    <3> QED BY <1>17, <3>1, <3>2, Zenon
  <2>3. /\ sender' \in SenderStates /\ sender'.block = b
        /\ \/ sender'.at = "final" /\ Packet(sender') = <<DataBlock(0, EmptyHeader)>>
           \/ sender'.at = "done" /\ Packet(sender') = <<>>
    <3>1. CASE place = "crc3"
      BY <1>1, <1>2, <3>1, Zenon DEF SenderStates, SenderPlaces, Then, Packet
    <3>2. CASE place = "final"
      BY <1>1, <1>2, <3>2, Zenon DEF SenderStates, SenderPlaces, Then, Packet
    <3> QED BY <1>17, <3>1, <3>2, Zenon
  <2>4. ~Sending' /\ sender.block <= sender'.block /\ sender'.block \in Nat
    BY <1>3, <2>3 DEF Sending
  <2>5. Outbound' /\ toReceiver' \in Seq(Units)
    <3>1. CASE Packet(sender') = <<>>
      <4>1. toReceiver' = toReceiver
        BY <1>2, <1>3, <3>1, JoinNothing, Zenon
      <4> QED BY <2>4, <4>1, OutboundSame, Zenon
    <3>2. CASE Packet(sender') = <<DataBlock(0, EmptyHeader)>>
      BY <1>2, <1>10, <2>2, <2>3, <2>4, <3>2, OutboundOther, Zenon
    <3> QED BY <2>3, <3>1, <3>2, Zenon
  <2>6. Inbound'
    BY <1>3, <2>2, Zenon DEF Inbound
  <2>7. sender'.at \notin {"crc1", "header", "crc2"} /\ sender'.at # "data"
    BY <2>3, Zenon
  <2> QED BY <1>4, <1>6, <2>1, <2>2, <2>3, <2>4, <2>5, <2>6, <2>7, SenderMoves, Zenon
<1> QED BY <1>1, <1>11, <1>12, <1>13, <1>14, <1>15, <1>16, <1>17, Zenon DEF SenderStates, SenderPlaces

\* It passes over a byte while it waits for C.
LEMMA SenderSkips ==
    ASSUME YmodemInv, UNCHANGED <<sender, receiver, written, mangled, toReceiver>>,
           toSender' \in Seq(Units), Quiet(toSender', toSender)
    PROVE  YmodemInv'
<1>1. sender \in SenderStates /\ sender' \in SenderStates /\ Places /\ Inbound
  BY Zenon DEF YmodemInv, YmodemTypes, SenderStates
<1>2. sender'.block \in Nat /\ sender.block <= sender'.block
  BY Counts
<1>3. Outbound' /\ toReceiver' \in Seq(Units)
  BY <1>2, OutboundSame, Zenon DEF Sending
<1>4. Inbound'
  BY <1>1, Zenon DEF Inbound, Quiet, Entire
<1>5. NotAcked(toSender) => NotAcked(toSender')
  BY Zenon DEF Quiet
<1>6. /\ sender'.at \in {"crc1", "header", "crc2"} => sender'.block = 0
      /\ sender'.at = "data" => sender'.block \in 1..FileBlocks
      /\ sender'.at \in {"final", "done"} => Entire
      /\ receiver.at \in {"start", "meta"} => sender'.at \in {"crc1", "header", "failed"}
  BY <1>1, Zenon DEF Places
<1> QED BY <1>1, <1>2, <1>3, <1>4, <1>5, <1>6, SenderMoves, Zenon

LEMMA SendAgainOK ==
    ASSUME YmodemInv, UNCHANGED <<receiver, written, mangled>>, toSender' \in Seq(Units),
           Quiet(toSender', toSender), sender.at \notin {"done", "failed"}, SendAgain
    PROVE  YmodemInv'
<1>1. CASE sender.tries >= MaxRetries
  <2>1. SenderFails
    BY <1>1, Zenon DEF SendAgain
  <2> QED BY <2>1, SenderStops, Zenon
<1>2. CASE ~(sender.tries >= MaxRetries)
  <2>1. SenderGoesTo([sender EXCEPT !.tries = sender.tries + 1])
    BY <1>2, Zenon DEF SendAgain
  <2>2. sender.tries + 1 \in Nat
    BY DEF YmodemInv, YmodemTypes
  <2> QED BY <2>1, <2>2, SenderRepeats, Zenon
<1> QED BY <1>1, <1>2, Zenon

LEMMA SenderReadsOK ==
    ASSUME YmodemInv, SenderReads
    PROVE  YmodemInv'
<1> DEFINE byte == Head(toSender).unit
<1>1. /\ sender.at \notin {"done", "failed"} /\ toSender # <<>> /\ toSender' = Tail(toSender)
      /\ UNCHANGED <<receiver, written, mangled>>
  BY Zenon DEF SenderReads
<1>2. toSender' \in Seq(Units) /\ Shorter(toSender', toSender) /\ toSender \in Seq(Units)
  BY <1>1, Counts, TailShorter, Zenon
<1>3. Quiet(toSender', toSender)
  BY <1>2, QuietShorter, Zenon
<1>4. sender.at \in SenderPlaces
  BY Zenon DEF YmodemInv, YmodemTypes
<1>5. CASE sender.at \in {"crc1", "crc2", "crc3"}
  <2>1. CASE byte = "C"
    <3>1. Advance
      BY <1>5, <2>1, Zenon DEF SenderReads
    <3>2. byte = GoOn(sender.at)
      BY <1>5, <2>1, Zenon DEF GoOn
    <3> QED BY <1>1, <3>1, <3>2, SenderAdvances, Zenon
  <2>2. CASE byte = "CAN"
    <3>1. SenderFails
      BY <1>5, <2>2, Zenon DEF SenderReads
    <3> QED BY <1>1, <1>2, <1>3, <3>1, SenderStops, Zenon
  <2>3. CASE byte \notin {"C", "CAN"}
    <3>1. UNCHANGED <<sender, toReceiver>>
      BY <1>5, <2>3, Zenon DEF SenderReads
    <3> QED BY <1>1, <1>2, <1>3, <3>1, SenderSkips, Zenon
  <2> QED BY <2>1, <2>2, <2>3, Zenon
<1>6. CASE sender.at \in {"header", "data", "final"}
  <2>1. CASE byte = "ACK"
    <3>1. Advance
      BY <1>6, <2>1, Zenon DEF SenderReads
    <3>2. byte = GoOn(sender.at)
      BY <1>6, <2>1, Zenon DEF GoOn
    <3> QED BY <1>1, <3>1, <3>2, SenderAdvances, Zenon
  <2>2. CASE byte = "NAK"
    <3>1. SendAgain
      BY <1>6, <2>2, Zenon DEF SenderReads
    <3> QED BY <1>1, <1>2, <1>3, <3>1, SendAgainOK, Zenon
  <2>3. CASE byte \notin {"ACK", "NAK"}
    <3>1. SenderFails
      BY <1>6, <2>3, Zenon DEF SenderReads
    <3> QED BY <1>1, <1>2, <1>3, <3>1, SenderStops, Zenon
  <2> QED BY <2>1, <2>2, <2>3, Zenon
<1>7. CASE sender.at \in {"eot1", "eot2"}
  <2>1. IF byte = (IF sender.at = "eot1" THEN "NAK" ELSE "ACK") THEN Advance ELSE SenderFails
    BY <1>7, Zenon DEF SenderReads
  <2>2. CASE byte = (IF sender.at = "eot1" THEN "NAK" ELSE "ACK")
    <3>1. byte = GoOn(sender.at)
      BY <1>7, <2>2, Zenon DEF GoOn
    <3> QED BY <1>1, <2>1, <2>2, <3>1, SenderAdvances, Zenon
  <2>3. CASE byte # (IF sender.at = "eot1" THEN "NAK" ELSE "ACK")
    BY <1>1, <1>2, <1>3, <2>1, <2>3, SenderStops, Zenon
  <2> QED BY <2>2, <2>3, Zenon
<1> QED BY <1>1, <1>4, <1>5, <1>6, <1>7, Zenon DEF SenderPlaces

LEMMA SenderTimesOutOK ==
    ASSUME YmodemInv, SenderTimesOut
    PROVE  YmodemInv'
<1>1. /\ sender.at \notin {"done", "failed"} /\ toSender' = toSender
      /\ UNCHANGED <<receiver, written, mangled>>
  BY Zenon DEF SenderTimesOut
<1>2. toSender' \in Seq(Units) /\ Quiet(toSender', toSender)
  BY <1>1, Counts, Zenon DEF Quiet
<1>3. sender.at \in SenderPlaces /\ sender.tries \in Nat
  BY Zenon DEF YmodemInv, YmodemTypes
<1>4. CASE sender.at \in {"crc1", "crc2", "crc3"}
  <2>1. IF sender.tries + 1 >= StartRetries THEN SenderFails
        ELSE SenderGoesTo([sender EXCEPT !.tries = sender.tries + 1])
    BY <1>4, Zenon DEF SenderTimesOut
  <2>2. sender.tries + 1 \in Nat
    BY <1>3
  <2>3. CASE sender.tries + 1 >= StartRetries
    BY <1>1, <1>2, <2>1, <2>3, SenderStops, Zenon
  <2>4. CASE ~(sender.tries + 1 >= StartRetries)
    BY <1>1, <1>2, <2>1, <2>2, <2>4, SenderRepeats, Zenon
  <2> QED BY <2>3, <2>4, Zenon
<1>5. CASE sender.at \in {"header", "data", "final"}
  <2>1. SendAgain
    BY <1>5, Zenon DEF SenderTimesOut
  <2> QED BY <1>1, <1>2, <2>1, SendAgainOK, Zenon
<1>6. CASE sender.at \in {"eot1", "eot2"}
  <2>1. SenderFails
    BY <1>6, Zenon DEF SenderTimesOut
  <2> QED BY <1>1, <1>2, <2>1, SenderStops, Zenon
<1> QED BY <1>1, <1>3, <1>4, <1>5, <1>6, Zenon DEF SenderPlaces

-------------------------------------------------------------------------------
ReceiverStates == [at : ReceiverPlaces, expected : Nat, retries : Nat]

\* The wire without its first unit, which was lost, refused or written.
LEMMA OutboundTaken ==
    ASSUME YmodemInv, sender' = sender, toReceiver # <<>>, toReceiver' = Tail(toReceiver),
           \/ Len(written') = Len(written)
           \/ /\ Len(written') = Len(written) + 1
              /\ IsData(Head(toReceiver)) /\ Val(Head(toReceiver)) = Len(written) + 1,
           Entire => Entire', Listening' => Listening, Reach' \in Nat,
           Listening' /\ IsData(Head(toReceiver)) => Val(Head(toReceiver)) + 1 <= Reach'
    PROVE  Outbound' /\ toReceiver' \in Seq(Units)
<1> DEFINE q == toReceiver
           p == toReceiver'
           w == Len(written)
           b == sender.block
           r == Reach'
<1>1. q \in Seq(Units) /\ w \in Nat /\ b \in Nat
  BY Counts, Zenon
<1>2. p \in Seq(Units) /\ Shorter(p, q) /\ Head(q) = q[1]
  BY <1>1, TailShorter, Zenon
<1>3. /\ Shape(q, w, b) /\ (Sending => Ending(q, b))
      /\ Entire \/ \A i \in 1..Len(q) : q[i].data # EmptyHeader
  BY Zenon DEF YmodemInv, Outbound
<1>4. sender'.block = b /\ (Sending' <=> Sending)
  BY Zenon DEF Sending
<1>5. \/ Len(written') = w
      \/ Len(written') = w + 1 /\ IsData(q[1]) /\ Val(q[1]) = w + 1
  BY <1>2, Zenon
<1>6. Listening' /\ IsData(q[1]) => Val(q[1]) + 1 <= r
  BY <1>2, Zenon
<1>7. r \in Nat
  BY Zenon
<1> HIDE DEF q, p, w, b, r
<1>8. Shape(p, Len(written'), b)
  <2>1. CASE Len(written') = w
    <3>1. Shape(p, w, b)
      BY <1>1, <1>2, <1>3, ShapeShorter, Zenon
    <3> QED BY <2>1, <3>1, Zenon
  <2>2. CASE Len(written') = w + 1 /\ IsData(q[1]) /\ Val(q[1]) = w + 1
    <3>1. w + 1 \in Nat
      BY <1>1
    <3>2. Shape(p, w + 1, b)
      BY <1>1, <1>2, <1>3, <2>2, <3>1, ShapeRaised, Zenon
    <3> QED BY <2>2, <3>2, Zenon
  <2> QED BY <1>5, <2>1, <2>2, Zenon
<1>9. Sending => Ending(p, b)
  BY <1>1, <1>2, <1>3, EndingShorter, Zenon
<1>10. Listening' => Near(p, r)
  BY <1>1, <1>2, <1>3, <1>6, <1>7, NearShorter, Zenon
<1>11. Sending /\ Listening' => Room(p, b, r)
  BY <1>1, <1>2, <1>3, <1>6, <1>7, RoomShorter, Zenon
<1>12. Entire' \/ \A i \in 1..Len(p) : p[i].data # EmptyHeader
  <2>1. \A i \in 1..Len(p) : i + 1 \in 1..Len(q) /\ p[i] = q[i + 1]
    BY <1>1, <1>2 DEF Shorter
  <2> QED BY <1>3, <2>1, Zenon
<1> QED BY <1>2, <1>4, <1>8, <1>9, <1>10, <1>11, <1>12, Zenon DEF Outbound, p, r

\* What is left to show of a step that takes a unit off the wire.
LEMMA ReceiverMoves ==
    ASSUME YmodemInv, sender' = sender, toReceiver # <<>>, toReceiver' = Tail(toReceiver),
           \/ written' = written
           \/ /\ written' = Append(written, Len(written) + 1) /\ Len(written) < FileBlocks
              /\ IsData(Head(toReceiver)) /\ Val(Head(toReceiver)) = Len(written) + 1,
           receiver' \in ReceiverStates, toSender' \in Seq(Units), mangled' \in 0..MaxMangled, Inbound',
           receiver'.at \in {"eot", "last", "done"} => Entire',
           receiver'.at \in {"start", "meta"} =>
              receiver.at \in {"start", "meta"} /\ written' = written /\ NotAcked(toSender'),
           receiver'.at = "data" => receiver'.expected = (Len(written') + 1) % Modulus,
           Listening' =>
              /\ Listening /\ receiver'.retries <= MaxRetries
              /\ IsData(Head(toReceiver)) => Val(Head(toReceiver)) + 1 <= Reach'
    PROVE  YmodemInv'
<1> DEFINE w == Len(written)
           h == Head(toReceiver)
<1>1. /\ sender \in SenderStates /\ written \in Seq(Nat) /\ w \in Nat /\ w <= FileBlocks
      /\ w <= sender.block /\ sender.block \in Nat /\ Places
      /\ \A i \in 1..w : written[i] = i
      /\ FileBlocks \in Nat /\ MaxMangled \in Nat
  BY Counts, Zenon DEF YmodemInv, YmodemTypes, SenderStates, Written
<1>2. /\ written' \in Seq(Nat) /\ Len(written') \in Nat /\ Len(written') <= FileBlocks
      /\ \A i \in 1..Len(written') : written'[i] = i
      /\ written' = written \/ (Len(written') = w + 1 /\ w < FileBlocks)
  <2>1. CASE written' = written
    BY <1>1, <2>1, Zenon
  <2>2. CASE written' = Append(written, w + 1) /\ w < FileBlocks
    <3>1. written' \in Seq(Nat) /\ Len(written') = w + 1
      BY <1>1, <2>2
    <3>2. \A i \in 1..w + 1 : i \in 1..w \/ i = w + 1
      BY <1>1
    <3>3. /\ \A i \in 1..w : written'[i] = written[i]
          /\ written'[w + 1] = w + 1
      BY <1>1, <2>2
    <3>4. \A i \in 1..w + 1 : written'[i] = i
      BY <1>1, <3>2, <3>3, Zenon
    <3>5. w + 1 <= FileBlocks /\ w + 1 \in Nat
      BY <1>1, <2>2
    <3> QED BY <2>2, <3>1, <3>4, <3>5, Zenon
  <2> QED BY <2>1, <2>2, Zenon
<1>3. Len(written') <= sender.block
  <2>1. CASE written' = written
    BY <1>1, <2>1, Zenon
  <2>2. CASE written' = Append(written, w + 1) /\ IsData(h) /\ Val(h) = w + 1
    <3>1. h = toReceiver[1] /\ 1 \in 1..Len(toReceiver)
      BY Counts
    <3>2. Val(h) <= sender.block
      BY <2>2, <3>1, Zenon DEF YmodemInv, Outbound, Shape
    <3> QED BY <1>1, <2>2, <3>2
  <2> QED BY <2>1, <2>2, Zenon
<1>4. Written'
  BY <1>2, <1>3, Zenon DEF Written
<1>5. Entire => Entire'
  BY <1>1, <1>2 DEF Entire
<1>6. Reach' \in Nat
  <2>1. receiver'.retries \in Nat
    BY Zenon DEF ReceiverStates
  <2>2. mangled' \in Nat
    BY <1>1
  <2> QED BY <1>2, <2>1, <2>2 DEF Reach
<1>7. Outbound' /\ toReceiver' \in Seq(Units)
  <2>1. \/ Len(written') = w
        \/ Len(written') = w + 1 /\ IsData(h) /\ Val(h) = w + 1
    BY <1>1
  <2> QED BY <1>5, <1>6, <2>1, OutboundTaken, Zenon
<1>8. YmodemTypes'
  BY <1>1, <1>2, <1>7, Zenon DEF YmodemTypes, SenderStates, ReceiverStates
<1>9. Places'
  BY <1>1, <1>5, Zenon DEF Places
<1> QED BY <1>4, <1>7, <1>8, <1>9, Zenon DEF YmodemInv

\* The bytes of an answer, one behind the other.
LEMMA ByteType ==
    ASSUME NEW x \in {"C", "CAN", "ACK", "NAK"}
    PROVE  Byte1(x) \in Units /\ Byte1(x).unit = x
BY Zenon DEF Byte1, Units

LEMMA OneByte ==
    ASSUME NEW r, NEW x \in {"C", "CAN", "ACK", "NAK"}, toSender \in Seq(Units), Replies(r, <<x>>)
    PROVE  receiver' = r /\ toSender' \in Seq(Units) /\ Longer(toSender', toSender, Byte1(x))
<1>1. [i \in DOMAIN <<x>> |-> Byte1(<<x>>[i])] = <<Byte1(x)>>
  OBVIOUS
<1>2. receiver' = r /\ toSender' = toSender \o <<Byte1(x)>>
  BY <1>1, Zenon DEF Replies
<1> QED BY <1>2, ByteType, JoinLonger, Zenon

LEMMA JoinTwo ==
    ASSUME NEW q \in Seq(Units), NEW u \in Units, NEW v \in Units
    PROVE  q \o <<u, v>> = (q \o <<u>>) \o <<v>>
<1> DEFINE a == q \o <<u, v>>
           b == q \o <<u>>
           c == b \o <<v>>
           n == Len(q)
<1>1. n \in Nat /\ a \in Seq(Units) /\ Len(a) = n + 2 /\ a[n + 1] = u /\ a[n + 2] = v
  OBVIOUS
<1>2. \A i \in 1..n : a[i] = q[i]
  OBVIOUS
<1>3. b \in Seq(Units) /\ Len(b) = n + 1 /\ b[n + 1] = u /\ \A i \in 1..n : b[i] = q[i]
  OBVIOUS
<1> HIDE DEF b
<1>4. c \in Seq(Units) /\ Len(c) = n + 2 /\ c[n + 2] = v /\ \A i \in 1..n + 1 : c[i] = b[i]
  BY <1>1, <1>3
<1> HIDE DEF a, c, n
<1>5. \A i \in 1..n + 2 : i \in 1..n \/ i = n + 1 \/ i = n + 2
  BY <1>1
<1>6. \A i \in 1..n : i \in 1..n + 1
  BY <1>1
<1>7. n + 1 \in 1..n + 1
  BY <1>1
<1>8. \A i \in 1..n + 2 : a[i] = c[i]
  BY <1>1, <1>2, <1>3, <1>4, <1>5, <1>6, <1>7, Zenon
<1>9. a = c
  BY <1>1, <1>4, <1>8
<1> QED BY <1>9, Zenon DEF a, b, c

LEMMA TwoBytes ==
    ASSUME NEW r, NEW x \in {"C", "CAN", "ACK", "NAK"}, NEW y \in {"C", "CAN", "ACK", "NAK"},
           toSender \in Seq(Units), Replies(r, <<x, y>>)
    PROVE  /\ receiver' = r /\ toSender' \in Seq(Units)
           /\ \E s \in Seq(Units) : Longer(s, toSender, Byte1(x)) /\ Longer(toSender', s, Byte1(y))
<1>1. [i \in DOMAIN <<x, y>> |-> Byte1(<<x, y>>[i])] = <<Byte1(x), Byte1(y)>>
  OBVIOUS
<1>2. receiver' = r /\ toSender' = toSender \o <<Byte1(x), Byte1(y)>>
  BY <1>1, Zenon DEF Replies
<1>3. Byte1(x) \in Units /\ Byte1(y) \in Units
  BY ByteType, Zenon
<1>4. toSender \o <<Byte1(x), Byte1(y)>> = (toSender \o <<Byte1(x)>>) \o <<Byte1(y)>>
  BY <1>3, JoinTwo, Zenon
<1>5. toSender \o <<Byte1(x)>> \in Seq(Units) /\ Longer(toSender \o <<Byte1(x)>>, toSender, Byte1(x))
  BY <1>3, JoinLonger, Zenon
<1>6. toSender' \in Seq(Units) /\ Longer(toSender', toSender \o <<Byte1(x)>>, Byte1(y))
  BY <1>2, <1>3, <1>4, <1>5, JoinLonger, Zenon
<1> QED BY <1>2, <1>5, <1>6, Zenon

\* The receiver cancels the transfer.
LEMMA CancelsOK ==
    ASSUME YmodemInv, Cancels
    PROVE  /\ receiver' \in ReceiverStates /\ receiver'.at = "failed"
           /\ toSender' \in Seq(Units) /\ Quiet(toSender', toSender)
<1>1. toSender \in Seq(Units) /\ receiver \in ReceiverStates
  BY Counts, Zenon DEF YmodemInv, YmodemTypes, ReceiverStates
<1>2. "CAN" \in {"C", "CAN", "ACK", "NAK"}
  BY Zenon
<1>3. /\ receiver' = [receiver EXCEPT !.at = "failed"] /\ toSender' \in Seq(Units)
      /\ \E s \in Seq(Units) : Longer(s, toSender, Byte1("CAN")) /\ Longer(toSender', s, Byte1("CAN"))
  BY <1>1, <1>2, TwoBytes, Zenon DEF Cancels
<1>4. PICK s \in Seq(Units) : Longer(s, toSender, Byte1("CAN")) /\ Longer(toSender', s, Byte1("CAN"))
  BY <1>3, Zenon
<1>5. Byte1("CAN") \in Units /\ Byte1("CAN").unit # "C" /\ Byte1("CAN").unit # "ACK"
  BY <1>2, ByteType, Zenon
<1>6. Quiet(s, toSender) /\ Quiet(toSender', s)
  BY <1>1, <1>3, <1>4, <1>5, NoRequestLonger, Zenon
<1>7. Quiet(toSender', toSender)
  BY <1>6, Zenon DEF Quiet
<1>8. receiver' \in ReceiverStates /\ receiver'.at = "failed"
  BY <1>1, <1>3, Zenon DEF ReceiverStates, ReceiverPlaces
<1> QED BY <1>3, <1>7, <1>8, Zenon

\* What reaches the sender without request or answer keeps Inbound.
LEMMA InboundQuiet ==
    ASSUME YmodemInv, sender' = sender, Entire => Entire', Quiet(toSender', toSender)
    PROVE  Inbound'
<1>1. Inbound
  BY Zenon DEF YmodemInv
<1> QED BY <1>1, Zenon DEF Inbound, Quiet

LEMMA ReceiverCancels ==
    ASSUME YmodemInv, sender' = sender, toReceiver # <<>>, toReceiver' = Tail(toReceiver),
           written' = written, mangled' \in 0..MaxMangled, Cancels
    PROVE  YmodemInv'
<1>1. /\ receiver' \in ReceiverStates /\ receiver'.at = "failed"
      /\ toSender' \in Seq(Units) /\ Quiet(toSender', toSender)
  BY CancelsOK, Zenon
<1>2. Inbound'
  BY <1>1, InboundQuiet, Zenon DEF Entire
<1>3. /\ receiver'.at \notin {"eot", "last", "done"} /\ receiver'.at \notin {"start", "meta"}
      /\ receiver'.at # "data" /\ ~Listening'
  BY <1>1, Zenon DEF Listening
<1> QED BY <1>1, <1>2, <1>3, ReceiverMoves, Zenon

\* A block within reach is followed by one within the reach of one retry more.
LEMMA HeadNear ==
    ASSUME YmodemInv, toReceiver # <<>>, Listening, IsData(Head(toReceiver))
    PROVE  /\ Val(Head(toReceiver)) \in Nat /\ Val(Head(toReceiver)) <= Reach
           /\ Len(written) <= Val(Head(toReceiver))
           /\ Head(toReceiver).number = Val(Head(toReceiver)) % Modulus
           /\ Head(toReceiver).data = Metadata \/ Head(toReceiver).data \in 1..FileBlocks
<1>1. /\ Head(toReceiver) = toReceiver[1] /\ 1 \in 1..Len(toReceiver) /\ toReceiver[1] \in Units
      /\ Len(toReceiver) # 0
  BY Counts
<1>2. Near(toReceiver, Reach) /\ Shape(toReceiver, Len(written), sender.block)
  BY Zenon DEF YmodemInv, Outbound
<1>3. Val(toReceiver[1]) \in Nat
  BY <1>1, ValType, Zenon
<1> QED BY <1>1, <1>2, <1>3, Zenon DEF Near, Shape

\* It refuses a unit.
LEMMA ReceiverComplains ==
    ASSUME YmodemInv, sender' = sender, toReceiver # <<>>, toReceiver' = Tail(toReceiver),
           written' = written, mangled' = mangled, Complains, receiver.at \in {"start", "meta", "data", "last"}
    PROVE  YmodemInv'
<1>1. /\ receiver \in ReceiverStates /\ toSender \in Seq(Units) /\ Places /\ MaxRetries \in Nat
      /\ mangled \in 0..MaxMangled /\ Reach \in Nat /\ receiver.retries \in Nat
  BY Counts, Zenon DEF YmodemInv, YmodemTypes, ReceiverStates
<1>2. CASE receiver.retries + 1 > MaxRetries
  <2>1. Cancels
    BY <1>2, Zenon DEF Complains
  <2> QED BY <1>1, <2>1, ReceiverCancels, Zenon
<1>3. CASE ~(receiver.retries + 1 > MaxRetries)
  <2>1. Replies([receiver EXCEPT !.at = IF receiver.at = "start" THEN "meta" ELSE receiver.at,
                                 !.retries = receiver.retries + 1], <<"NAK">>)
    BY <1>3, Zenon DEF Complains
  <2>2. "NAK" \in {"C", "CAN", "ACK", "NAK"}
    BY Zenon
  <2>3. /\ receiver' = [receiver EXCEPT !.at = IF receiver.at = "start" THEN "meta" ELSE receiver.at,
                                        !.retries = receiver.retries + 1]
        /\ toSender' \in Seq(Units) /\ Longer(toSender', toSender, Byte1("NAK"))
    BY <1>1, <2>1, <2>2, OneByte, Zenon
  <2>4. /\ receiver' \in ReceiverStates /\ receiver'.expected = receiver.expected
        /\ receiver'.at = IF receiver.at = "start" THEN "meta" ELSE receiver.at
        /\ receiver'.retries = receiver.retries + 1
    <3>1. PICK a \in ReceiverPlaces : a = IF receiver.at = "start" THEN "meta" ELSE receiver.at
      BY Zenon DEF ReceiverPlaces
    <3>2. PICK n \in Nat : n = receiver.retries + 1
      BY <1>1
    <3>3. receiver' = [receiver EXCEPT !.at = a, !.retries = n]
      BY <2>3, <3>1, <3>2, Zenon
    <3>4. /\ receiver' \in ReceiverStates /\ receiver'.expected = receiver.expected
          /\ receiver'.at = a /\ receiver'.retries = n
      BY <1>1, <3>3, Zenon DEF ReceiverStates
    <3> QED BY <3>1, <3>2, <3>4, Zenon
  <2>5. Quiet(toSender', toSender)
    <3>1. Byte1("NAK") \in Units /\ Byte1("NAK").unit # "C" /\ Byte1("NAK").unit # "ACK"
      BY <2>2, ByteType, Zenon
    <3> QED BY <1>1, <2>3, <3>1, NoRequestLonger, Zenon
  <2>6. Inbound'
    BY <2>5, InboundQuiet, Zenon DEF Entire
  <2>7. receiver'.at \in {"eot", "last", "done"} => Entire'
    BY <1>1, <2>4, Zenon DEF Places, Entire
  <2>8. receiver'.at \in {"start", "meta"} =>
           receiver.at \in {"start", "meta"} /\ written' = written /\ NotAcked(toSender')
    <3>1. receiver'.at \in {"start", "meta"} => receiver.at \in {"start", "meta"}
      BY <2>4, Zenon
    <3> QED BY <1>1, <2>5, <3>1, Zenon DEF Places, Quiet
  <2>9. receiver'.at = "data" => receiver'.expected = (Len(written') + 1) % Modulus
    <3>1. receiver'.at = "data" => receiver.at = "data"
      BY <2>4, Zenon
    <3> QED BY <1>1, <2>4, <3>1, Zenon DEF Places
  <2>10. Reach' = Reach + 1
    <3>1. Len(written) \in Nat /\ mangled \in Nat
      BY Counts, Zenon
    <3> QED BY <1>1, <2>4, <3>1 DEF Reach
  <2>11. Listening' => Listening /\ receiver'.retries <= MaxRetries
    BY <1>1, <1>3, <2>4 DEF Listening
  <2>12. Listening' /\ IsData(Head(toReceiver)) => Val(Head(toReceiver)) + 1 <= Reach'
    BY <1>1, <2>10, <2>11, HeadNear
  <2> QED BY <1>1, <2>3, <2>4, <2>6, <2>7, <2>8, <2>9, <2>11, <2>12, ReceiverMoves, Zenon
<1> QED BY <1>2, <1>3, Zenon

\* The header: the receiver asks for the blocks.
LEMMA ReceivesMetadataOK ==
    ASSUME YmodemInv, sender' = sender, toReceiver # <<>>, toReceiver' = Tail(toReceiver),
           receiver.at \in {"start", "meta"}, ReceivesMetadata(Head(toReceiver))
    PROVE  YmodemInv'
<1> DEFINE h == Head(toReceiver)
<1>1. /\ toSender \in Seq(Units) /\ Places /\ mangled \in 0..MaxMangled /\ Modulus \in Nat \ {0, 1}
      /\ mangled \in Nat /\ MaxRetries \in Nat /\ Len(written) \in Nat
  BY Counts, YmodemAssumption, Zenon DEF YmodemInv, YmodemTypes
<1>2. written' = written /\ mangled' = mangled
  BY Zenon DEF ReceivesMetadata
<1>3. CASE h.unit # "block" \/ ~h.sound \/ h.number # 0
  <2>1. Complains
    BY <1>3, Zenon DEF ReceivesMetadata
  <2>2. receiver.at \in {"start", "meta", "data", "last"}
    BY Zenon
  <2> QED BY <1>2, <2>1, <2>2, ReceiverComplains, Zenon
<1>4. CASE Cancels
  BY <1>1, <1>2, <1>4, ReceiverCancels, Zenon
<1>5. CASE /\ h.unit = "block" /\ h.data = Metadata
           /\ Replies([at |-> "data", expected |-> 1, retries |-> 0], <<"ACK", "C">>)
  <2>1. {"ACK", "C"} \subseteq {"C", "CAN", "ACK", "NAK"}
    BY Zenon
  <2>2. /\ receiver' = [at |-> "data", expected |-> 1, retries |-> 0] /\ toSender' \in Seq(Units)
        /\ \E s \in Seq(Units) : Longer(s, toSender, Byte1("ACK")) /\ Longer(toSender', s, Byte1("C"))
    BY <1>1, <1>5, <2>1, TwoBytes, Zenon
  <2>3. receiver' \in ReceiverStates /\ receiver'.at = "data" /\ receiver'.expected = 1 /\ receiver'.retries = 0
    BY <2>2, Zenon DEF ReceiverStates, ReceiverPlaces
  <2>4. /\ Len(written) = 0 /\ sender.at \in {"crc1", "header", "failed"} /\ NotAcked(toSender)
    BY <1>1, Zenon DEF Places
  <2>5. Byte1("ACK") \in Units /\ Byte1("C") \in Units
    BY <2>1, ByteType, Zenon
  <2>6. OneBehind(toSender')
    BY <1>1, <2>2, <2>4, <2>5, RequestBehindAnswer, Zenon
  <2>7. Inbound'
    BY <2>4, <2>6, Zenon DEF Inbound
  <2>8. receiver'.expected = (Len(written') + 1) % Modulus
    BY <1>1, <1>2, <2>3, <2>4
  <2>9. receiver'.at \notin {"eot", "last", "done"} /\ receiver'.at \notin {"start", "meta"}
    BY <2>3, Zenon
  <2>10. Listening /\ receiver'.retries <= MaxRetries
    BY <1>1, <2>3 DEF Listening
  <2>11. Val(h) + 1 <= Reach'
    <3>1. Val(h) = 0
      BY <1>5, Zenon DEF Val
    <3>2. Reach' = 1 + mangled
      BY <1>1, <1>2, <2>3, <2>4 DEF Reach
    <3> QED BY <1>1, <3>1, <3>2
  <2> QED BY <1>1, <1>2, <2>2, <2>3, <2>7, <2>8, <2>9, <2>10, <2>11, ReceiverMoves, Zenon
<1> QED BY <1>3, <1>4, <1>5, Zenon DEF ReceivesMetadata

\* A step of the receiver once the file is whole, when it listens for no further block.
LEMMA ReceiverEnds ==
    ASSUME YmodemInv, sender' = sender, toReceiver # <<>>, toReceiver' = Tail(toReceiver),
           written' = written, mangled' = mangled, Entire,
           receiver' \in ReceiverStates, receiver'.at \in {"eot", "last", "done"}, toSender' \in Seq(Units)
    PROVE  YmodemInv'
<1>1. mangled' \in 0..MaxMangled
  BY Zenon DEF YmodemInv, YmodemTypes
<1>2. Entire' /\ Inbound'
  BY Zenon DEF Entire, Inbound
<1>3. receiver'.at \notin {"start", "meta"} /\ receiver'.at # "data" /\ ~Listening'
  BY Zenon DEF Listening
<1> QED BY <1>1, <1>2, <1>3, ReceiverMoves, Zenon

LEMMA ReceivesEotOK ==
    ASSUME YmodemInv, sender' = sender, toReceiver # <<>>, toReceiver' = Tail(toReceiver),
           written' = written, ReceivesEot
    PROVE  YmodemInv'
<1>1. /\ toSender \in Seq(Units) /\ mangled \in 0..MaxMangled /\ MaxMangled \in Nat
      /\ receiver \in ReceiverStates
  BY Counts, Zenon DEF YmodemInv, YmodemTypes, ReceiverStates
<1>2. CASE Cancels /\ mangled' = mangled
  BY <1>1, <1>2, ReceiverCancels, Zenon
<1>3. CASE Cancels /\ mangled < MaxMangled /\ mangled' = mangled + 1
  <2>1. mangled' \in 0..MaxMangled
    BY <1>1, <1>3
  <2> QED BY <1>3, <2>1, ReceiverCancels, Zenon
<1>4. CASE /\ Len(written) = FileBlocks /\ mangled' = mangled
           /\ Replies([receiver EXCEPT !.at = "eot"], <<"NAK">>)
  <2>1. "NAK" \in {"C", "CAN", "ACK", "NAK"}
    BY Zenon
  <2>2. receiver' = [receiver EXCEPT !.at = "eot"] /\ toSender' \in Seq(Units)
    BY <1>1, <1>4, <2>1, OneByte, Zenon
  <2>3. receiver' \in ReceiverStates /\ receiver'.at \in {"eot", "last", "done"}
    BY <1>1, <2>2, Zenon DEF ReceiverStates, ReceiverPlaces
  <2> QED BY <1>4, <2>2, <2>3, ReceiverEnds, Zenon DEF Entire
<1> QED BY <1>2, <1>3, <1>4, Zenon DEF ReceivesEot

LEMMA ReceivesLastOK ==
    ASSUME YmodemInv, sender' = sender, toReceiver # <<>>, toReceiver' = Tail(toReceiver),
           receiver.at = "last", ReceivesLast(Head(toReceiver))
    PROVE  YmodemInv'
<1>1. toSender \in Seq(Units) /\ receiver \in ReceiverStates /\ Entire
  BY Counts, Zenon DEF YmodemInv, YmodemTypes, ReceiverStates, Places
<1>2. written' = written /\ mangled' = mangled
  BY Zenon DEF ReceivesLast
<1>3. CASE Complains
  <2>1. receiver.at \in {"start", "meta", "data", "last"}
    BY Zenon
  <2> QED BY <1>2, <1>3, <2>1, ReceiverComplains, Zenon
<1>4. CASE Replies([receiver EXCEPT !.at = "done"], <<"ACK">>)
  <2>1. "ACK" \in {"C", "CAN", "ACK", "NAK"}
    BY Zenon
  <2>2. receiver' = [receiver EXCEPT !.at = "done"] /\ toSender' \in Seq(Units)
    BY <1>1, <1>4, <2>1, OneByte, Zenon
  <2>3. receiver' \in ReceiverStates /\ receiver'.at \in {"eot", "last", "done"}
    BY <1>1, <2>2, Zenon DEF ReceiverStates, ReceiverPlaces
  <2> QED BY <1>1, <1>2, <2>2, <2>3, ReceiverEnds, Zenon
<1> QED BY <1>3, <1>4, Zenon DEF ReceivesLast

\* The second EOT.
LEMMA ReceivesSecondEotOK ==
    ASSUME YmodemInv, sender' = sender, toReceiver # <<>>, toReceiver' = Tail(toReceiver),
           receiver.at = "eot", written' = written, mangled' = mangled,
           \/ Replies([receiver EXCEPT !.at = "last", !.retries = 0], <<"ACK", "C">>)
           \/ Cancels
    PROVE  YmodemInv'
<1>1. /\ toSender \in Seq(Units) /\ receiver \in ReceiverStates /\ Entire /\ mangled \in 0..MaxMangled
  BY Counts, Zenon DEF YmodemInv, YmodemTypes, ReceiverStates, Places
<1>2. CASE Cancels
  BY <1>1, <1>2, ReceiverCancels, Zenon
<1>3. CASE Replies([receiver EXCEPT !.at = "last", !.retries = 0], <<"ACK", "C">>)
  <2>1. {"ACK", "C"} \subseteq {"C", "CAN", "ACK", "NAK"}
    BY Zenon
  <2>2. receiver' = [receiver EXCEPT !.at = "last", !.retries = 0] /\ toSender' \in Seq(Units)
    BY <1>1, <1>3, <2>1, TwoBytes, Zenon
  <2>3. receiver' \in ReceiverStates /\ receiver'.at \in {"eot", "last", "done"}
    BY <1>1, <2>2, Zenon DEF ReceiverStates, ReceiverPlaces
  <2> QED BY <1>1, <2>2, <2>3, ReceiverEnds, Zenon
<1> QED BY <1>2, <1>3, Zenon

\* Fewer units are lost and refused than there are numbers.
FewLosses == MaxRetries + MaxMangled < Modulus - 1

\* A number says which block it is: one of Modulus in a row.
LEMMA NumberTells ==
    ASSUME FewLosses, YmodemInv, toReceiver # <<>>, receiver.at = "data", IsData(Head(toReceiver))
    PROVE  /\ InSequence(Head(toReceiver)) =>
                Val(Head(toReceiver)) = Len(written) + 1 /\ Head(toReceiver).data = Len(written) + 1
           /\ Repeated(Head(toReceiver)) => Val(Head(toReceiver)) = Len(written)
<1> DEFINE h == Head(toReceiver)
           v == Val(h)
           w == Len(written)
           m == Modulus
<1>1. Listening /\ receiver.expected = (w + 1) % m /\ receiver.retries <= MaxRetries
  BY Zenon DEF YmodemInv, Places, Listening
<1>2. /\ w \in Nat /\ receiver.retries \in Nat /\ mangled \in Nat /\ mangled <= MaxMangled
      /\ m \in Nat \ {0} /\ MaxRetries \in Nat /\ MaxMangled \in Nat /\ FileBlocks \in Nat
  BY Counts, Zenon
<1>3. v \in Nat /\ v <= Reach /\ w <= v /\ h.number = v % m
  BY <1>1, HeadNear, Zenon
<1>4. h.data = v \/ v = 0
  BY Zenon DEF Val
<1>5. v < w + m
  BY <1>1, <1>2, <1>3 DEF Reach, FewLosses
<1> HIDE DEF h, v, w, m
<1>6. ASSUME InSequence(h)
      PROVE  v = w + 1 /\ h.data = w + 1
  <2>1. v % m = (w + 1) % m
    BY <1>1, <1>3, <1>6, Zenon DEF InSequence
  <2>2. v = w + 1
    <3>1. w + 1 \in Nat
      BY <1>2
    <3>2. CASE v = w
      <4>1. w <= w + 1 /\ w + 1 < w + m
        BY <1>2, YmodemAssumption DEF m
      <4>2. w = w + 1
        BY <1>2, <2>1, <3>1, <3>2, <4>1, SameRemainder, Zenon
      <4> QED BY <1>2, <4>2
    <3>3. CASE v # w
      <4>1. w + 1 <= v /\ v < w + 1 + m
        BY <1>2, <1>3, <1>5, <3>3
      <4> QED BY <1>2, <1>3, <2>1, <3>1, <4>1, SameRemainder, Zenon
    <3> QED BY <3>2, <3>3, Zenon
  <2>3. v # 0
    BY <1>2, <2>2
  <2> QED BY <1>4, <2>2, <2>3, Zenon
<1>7. ASSUME Repeated(h)
      PROVE  v = w
  <2>1. h.number = (((w + 1) % m) + m - 1) % m
    BY <1>1, <1>7, Zenon DEF Repeated, m
  <2>2. v % m = w % m
    BY <1>2, <1>3, <2>1, NumberBefore, Zenon
  <2> QED BY <1>2, <1>3, <1>5, <2>2, SameRemainder, Zenon
<1> QED BY <1>6, <1>7, Zenon DEF h, v, w

\* A block answered with ACK.
LEMMA InboundAck ==
    ASSUME YmodemInv, sender' = sender, Entire => Entire', Longer(toSender', toSender, Byte1("ACK")),
           toSender' \in Seq(Units)
    PROVE  Inbound'
<1>1. Inbound /\ toSender \in Seq(Units)
  BY Counts, Zenon DEF YmodemInv
<1>2. Byte1("ACK") \in Units /\ Byte1("ACK").unit # "C"
  BY ByteType, Zenon
<1>3. /\ OneBehind(toSender) => OneBehind(toSender')
      /\ AtMostOne(toSender) => AtMostOne(toSender')
      /\ NoneAtAll(toSender) => NoneAtAll(toSender')
  BY <1>1, <1>2, NoRequestLonger, Zenon
<1> QED BY <1>1, <1>3, Zenon DEF Inbound

\* The last block again.
LEMMA ReceiverAcksAgain ==
    ASSUME YmodemInv, sender' = sender, toReceiver # <<>>, toReceiver' = Tail(toReceiver),
           written' = written, mangled' = mangled, receiver.at = "data",
           IsData(Head(toReceiver)) => Val(Head(toReceiver)) = Len(written),
           Replies(receiver, <<"ACK">>)
    PROVE  YmodemInv'
<1>1. /\ toSender \in Seq(Units) /\ receiver \in ReceiverStates /\ mangled \in 0..MaxMangled /\ Places
      /\ Len(written) \in Nat /\ receiver.retries \in Nat /\ mangled \in Nat
  BY Counts, Zenon DEF YmodemInv, YmodemTypes, ReceiverStates
<1>2. "ACK" \in {"C", "CAN", "ACK", "NAK"}
  BY Zenon
<1>3. receiver' = receiver /\ toSender' \in Seq(Units) /\ Longer(toSender', toSender, Byte1("ACK"))
  BY <1>1, <1>2, OneByte, Zenon
<1>4. Inbound'
  BY <1>3, InboundAck, Zenon DEF Entire
<1>5. Listening /\ receiver.at \notin {"eot", "last", "done"} /\ receiver.at \notin {"start", "meta"}
  BY Zenon DEF Listening
<1>6. receiver'.expected = (Len(written') + 1) % Modulus /\ receiver'.retries <= MaxRetries
  BY <1>1, <1>3, <1>5, Zenon DEF Places
<1>7. Len(written) + 1 <= Reach'
  BY <1>1, <1>3 DEF Reach
<1> QED BY <1>1, <1>3, <1>4, <1>5, <1>6, <1>7, ReceiverMoves, Zenon

\* The next block.
LEMMA ReceiverWrites ==
    ASSUME YmodemInv, sender' = sender, toReceiver # <<>>, toReceiver' = Tail(toReceiver),
           mangled' = mangled, receiver.at = "data", Len(written) < FileBlocks,
           IsData(Head(toReceiver)), Val(Head(toReceiver)) = Len(written) + 1,
           written' = Append(written, Len(written) + 1),
           Replies([receiver EXCEPT !.expected = (receiver.expected + 1) % Modulus, !.retries = 0], <<"ACK">>)
    PROVE  YmodemInv'
<1>1. /\ toSender \in Seq(Units) /\ receiver \in ReceiverStates /\ mangled \in 0..MaxMangled /\ Places
      /\ Len(written) \in Nat /\ mangled \in Nat /\ written \in Seq(Nat) /\ MaxRetries \in Nat
      /\ Modulus \in Nat \ {0}
  BY Counts, Zenon DEF YmodemInv, YmodemTypes, ReceiverStates
<1>2. "ACK" \in {"C", "CAN", "ACK", "NAK"}
  BY Zenon
<1>3. /\ receiver' = [receiver EXCEPT !.expected = (receiver.expected + 1) % Modulus, !.retries = 0]
      /\ toSender' \in Seq(Units) /\ Longer(toSender', toSender, Byte1("ACK"))
  BY <1>1, <1>2, OneByte, Zenon
<1>4. ~Entire
  BY <1>1 DEF Entire
<1>5. Inbound'
  BY <1>3, <1>4, InboundAck, Zenon
<1>6. receiver.expected = (Len(written) + 1) % Modulus /\ receiver.expected \in Nat
  BY <1>1, Zenon DEF Places, ReceiverStates
<1>7. Len(written') = Len(written) + 1
  BY <1>1
<1>8. PICK e \in Nat : e = (receiver.expected + 1) % Modulus
  BY <1>1, <1>6
<1>9. /\ receiver' \in ReceiverStates /\ receiver'.at = "data" /\ receiver'.expected = e
      /\ receiver'.retries = 0
  <2>1. receiver' = [receiver EXCEPT !.expected = e, !.retries = 0]
    BY <1>3, <1>8, Zenon
  <2> QED BY <1>1, <2>1, Zenon DEF ReceiverStates
<1>10. e = (Len(written') + 1) % Modulus
  BY <1>1, <1>6, <1>7, <1>8, NumberAfter, Zenon
<1>11. /\ Listening /\ receiver'.at \notin {"eot", "last", "done"} /\ receiver'.at \notin {"start", "meta"}
       /\ receiver'.retries <= MaxRetries
  BY <1>1, <1>9 DEF Listening
<1>12. Val(Head(toReceiver)) + 1 <= Reach'
  BY <1>1, <1>7, <1>9 DEF Reach
<1> QED BY <1>1, <1>3, <1>5, <1>9, <1>10, <1>11, <1>12, ReceiverMoves, Zenon

LEMMA ReceivesBlockOK ==
    ASSUME FewLosses, YmodemInv, sender' = sender, toReceiver # <<>>, toReceiver' = Tail(toReceiver),
           receiver.at = "data", Head(toReceiver).unit # "EOT", ReceivesBlock(Head(toReceiver))
    PROVE  YmodemInv'
<1> DEFINE h == Head(toReceiver)
<1>1. /\ mangled \in 0..MaxMangled /\ MaxMangled \in Nat /\ Len(written) \in Nat /\ FileBlocks \in Nat
      /\ receiver.at \in {"start", "meta", "data", "last"}
  BY Counts, Zenon DEF YmodemInv, YmodemTypes
<1>2. CASE h.unit # "block" \/ ~h.sound
  <2>1. Complains /\ written' = written /\ mangled' = mangled
    BY <1>2, Zenon DEF ReceivesBlock
  <2> QED BY <1>1, <2>1, ReceiverComplains, Zenon
<1>3. CASE h.unit = "block" /\ h.sound /\ InSequence(h)
  <2>1. \/ Cancels /\ written' = written /\ mangled' = mangled
        \/ /\ Len(written) < FileBlocks /\ written' = Append(written, h.data) /\ mangled' = mangled
           /\ Replies([receiver EXCEPT !.expected = (receiver.expected + 1) % Modulus, !.retries = 0], <<"ACK">>)
        \/ Cancels /\ written' = written /\ mangled < MaxMangled /\ mangled' = mangled + 1
    BY <1>3, Zenon DEF ReceivesBlock
  <2>2. CASE Cancels /\ written' = written /\ mangled' = mangled
    BY <1>1, <2>2, ReceiverCancels, Zenon
  <2>3. CASE Cancels /\ written' = written /\ mangled < MaxMangled /\ mangled' = mangled + 1
    <3>1. mangled' \in 0..MaxMangled
      BY <1>1, <2>3
    <3> QED BY <2>3, <3>1, ReceiverCancels, Zenon
  <2>4. CASE /\ Len(written) < FileBlocks /\ written' = Append(written, h.data) /\ mangled' = mangled
             /\ Replies([receiver EXCEPT !.expected = (receiver.expected + 1) % Modulus, !.retries = 0], <<"ACK">>)
    <3>1. IsData(h)
      <4>1. ~Entire
        BY <1>1, <2>4 DEF Entire
      <4>2. h = toReceiver[1] /\ 1 \in 1..Len(toReceiver)
        BY Counts
      <4> QED BY <1>3, <4>1, <4>2, Zenon DEF YmodemInv, Outbound, IsData
    <3>2. Val(h) = Len(written) + 1 /\ h.data = Len(written) + 1
      BY <1>3, <3>1, NumberTells, Zenon
    <3> QED BY <2>4, <3>1, <3>2, ReceiverWrites, Zenon
  <2> QED BY <2>1, <2>2, <2>3, <2>4, Zenon
<1>4. CASE h.unit = "block" /\ h.sound /\ ~InSequence(h)
  <2>1. /\ IF Repeated(h) THEN Replies(receiver, <<"ACK">>) ELSE Complains
        /\ written' = written /\ mangled' = mangled
    BY <1>4, Zenon DEF ReceivesBlock
  <2>2. CASE Repeated(h)
    <3>1. IsData(h) => Val(h) = Len(written)
      BY <2>2, NumberTells, Zenon
    <3> QED BY <2>1, <2>2, <3>1, ReceiverAcksAgain, Zenon
  <2>3. CASE ~Repeated(h)
    BY <1>1, <2>1, <2>3, ReceiverComplains, Zenon
  <2> QED BY <2>2, <2>3, Zenon
<1> QED BY <1>2, <1>3, <1>4, Zenon

LEMMA ReceiverReadsOK ==
    ASSUME FewLosses, YmodemInv, ReceiverReads
    PROVE  YmodemInv'
<1> DEFINE h == Head(toReceiver)
<1>1. /\ receiver.at \notin {"done", "failed"} /\ toReceiver # <<>> /\ toReceiver' = Tail(toReceiver)
      /\ sender' = sender
  BY Zenon DEF ReceiverReads
<1>2. receiver.at \in ReceiverPlaces
  BY Zenon DEF YmodemInv, YmodemTypes
<1>3. CASE receiver.at \in {"start", "meta"}
  <2>1. ReceivesMetadata(h)
    BY <1>3, Zenon DEF ReceiverReads
  <2> QED BY <1>1, <1>3, <2>1, ReceivesMetadataOK, Zenon
<1>4. CASE receiver.at = "data" /\ h.unit = "EOT"
  <2>1. ReceivesEot /\ written' = written
    BY <1>4, Zenon DEF ReceiverReads
  <2> QED BY <1>1, <2>1, ReceivesEotOK, Zenon
<1>5. CASE receiver.at = "data" /\ h.unit # "EOT"
  <2>1. ReceivesBlock(h)
    BY <1>5, Zenon DEF ReceiverReads
  <2> QED BY <1>1, <1>5, <2>1, ReceivesBlockOK, Zenon
<1>6. CASE receiver.at = "eot"
  <2>1. /\ \/ Replies([receiver EXCEPT !.at = "last", !.retries = 0], <<"ACK", "C">>)
           \/ Cancels
        /\ written' = written /\ mangled' = mangled
    BY <1>6, Zenon DEF ReceiverReads
  <2> QED BY <1>1, <1>6, <2>1, ReceivesSecondEotOK, Zenon
<1>7. CASE receiver.at = "last"
  <2>1. ReceivesLast(h)
    BY <1>7, Zenon DEF ReceiverReads
  <2> QED BY <1>1, <1>7, <2>1, ReceivesLastOK, Zenon
<1> QED BY <1>1, <1>2, <1>3, <1>4, <1>5, <1>6, <1>7, Zenon DEF ReceiverPlaces

-------------------------------------------------------------------------------
\* A step that takes no unit off the wire to the receiver.
LEMMA ChannelMoves ==
    ASSUME YmodemInv, UNCHANGED <<sender, written>>, toReceiver' \in Seq(Units),
           toReceiver' = toReceiver \/ Damaged(toReceiver', toReceiver),
           receiver' \in ReceiverStates, toSender' \in Seq(Units), mangled' \in 0..MaxMangled,
           mangled <= mangled', Inbound',
           \/ receiver'.at = "failed"
           \/ /\ receiver'.at = receiver.at /\ receiver'.retries = receiver.retries
              /\ receiver.at # "start" => receiver'.expected = receiver.expected
              /\ NotAcked(toSender) => NotAcked(toSender')
    PROVE  YmodemInv'
<1> DEFINE q == toReceiver
           p == toReceiver'
           b == sender.block
           w == Len(written)
<1>1. /\ q \in Seq(Units) /\ p \in Seq(Units) /\ w \in Nat /\ mangled \in Nat /\ Reach \in Nat
      /\ receiver.retries \in Nat /\ MaxMangled \in Nat
  BY Counts, Zenon
<1>2. /\ Listening' => Listening /\ receiver'.retries = receiver.retries
      /\ Entire' <=> Entire
      /\ Sending' <=> Sending
  BY Zenon DEF Listening, Entire, Sending
<1>3. mangled' \in Nat
  BY <1>1
<1>4. Listening' => Reach' \in Nat /\ Reach <= Reach'
  BY <1>1, <1>2, <1>3 DEF Reach
<1>5. Places
  BY Zenon DEF YmodemInv
<1>6. /\ Shape(q, w, b) /\ (Sending => Ending(q, b)) /\ (Listening => Near(q, Reach))
      /\ Sending /\ Listening => Room(q, b, Reach)
      /\ Entire \/ \A i \in 1..Len(q) : q[i].data # EmptyHeader
  BY Zenon DEF YmodemInv, Outbound
<1>7. ASSUME Listening'
      PROVE  Near(q, Reach') /\ (Sending => Room(q, b, Reach'))
  <2>1. Reach' \in Nat /\ Reach <= Reach' /\ Near(q, Reach) /\ (Sending => Room(q, b, Reach))
    BY <1>2, <1>4, <1>6, <1>7, Zenon
  <2>2. b \in Nat
    BY Counts, Zenon
  <2>3. Len(q) # 0 => q[1] \in Units
    BY <1>1
  <2>4. Len(q) # 0 => Val(q[1]) \in Nat
    BY <2>3, ValType, Zenon
  <2>5. Near(q, Reach')
    BY <1>1, <2>1, <2>4 DEF Near
  <2>6. Sending => Room(q, b, Reach')
    BY <1>1, <2>1, <2>2 DEF Room
  <2> QED BY <2>5, <2>6, Zenon
<1>8. /\ Shape(p, w, b) /\ (Sending => Ending(p, b)) /\ (Listening' => Near(p, Reach'))
      /\ Sending /\ Listening' => Room(p, b, Reach')
  <2>1. CASE p = q
    BY <1>6, <1>7, <2>1, Zenon
  <2>2. CASE Damaged(p, q)
    BY <1>1, <1>6, <1>7, <2>2, DamagedShape, Zenon
  <2> QED BY <2>1, <2>2, Zenon
<1>9. Entire \/ \A i \in 1..Len(p) : p[i].data # EmptyHeader
  <2>1. CASE p = q
    BY <1>6, <2>1, Zenon
  <2>2. CASE Damaged(p, q)
    <3>1. Len(p) = Len(q) /\ \A i \in 1..Len(q) : i = 1 \/ i \in 2..Len(q)
      BY <1>1, <2>2 DEF Damaged
    <3>2. q[1] \in Units /\ p[1] = Mangled(q[1]) /\ 1 \in 1..Len(q)
      BY <1>1, <2>2 DEF Damaged
    <3>3. p[1].data = EmptyHeader => q[1].data = EmptyHeader
      BY <3>2, MangledKeeps, Zenon
    <3>4. \A i \in 1..Len(q) : p[i].data = EmptyHeader => q[i].data = EmptyHeader
      BY <2>2, <3>1, <3>3, Zenon DEF Damaged
    <3> QED BY <1>6, <3>1, <3>4, Zenon
  <2> QED BY <2>1, <2>2, Zenon
<1>10. Outbound'
  BY <1>2, <1>8, <1>9, Zenon DEF Outbound
<1>11. Places'
  BY <1>2, <1>5, Zenon DEF Places
<1>12. YmodemTypes' /\ Written'
  BY Zenon DEF YmodemInv, YmodemTypes, Written, ReceiverStates
<1> QED BY <1>10, <1>11, <1>12, Zenon DEF YmodemInv

LEMMA ReceiverTimesOutOK ==
    ASSUME YmodemInv, ReceiverTimesOut
    PROVE  YmodemInv'
<1>1. /\ toSender \in Seq(Units) /\ toReceiver \in Seq(Units) /\ receiver \in ReceiverStates
      /\ mangled \in 0..MaxMangled /\ mangled \in Nat /\ Places /\ Inbound
  BY Counts, Zenon DEF YmodemInv, YmodemTypes, ReceiverStates
<1>2. UNCHANGED <<sender, toReceiver, written, mangled>> /\ mangled <= mangled'
  BY <1>1 DEF ReceiverTimesOut
<1>3. CASE receiver.at = "start" /\ receiver.expected < StartRetries
  <2>1. Replies([receiver EXCEPT !.expected = receiver.expected + 1], <<"C">>)
    BY <1>3, Zenon DEF ReceiverTimesOut
  <2>2. "C" \in {"C", "CAN", "ACK", "NAK"}
    BY Zenon
  <2>3. /\ receiver' = [receiver EXCEPT !.expected = receiver.expected + 1]
        /\ toSender' \in Seq(Units) /\ Longer(toSender', toSender, Byte1("C"))
    BY <1>1, <2>1, <2>2, OneByte, Zenon
  <2>4. receiver' \in ReceiverStates /\ receiver'.at = receiver.at /\ receiver'.retries = receiver.retries
    <3>1. receiver.expected + 1 \in Nat
      BY <1>1 DEF ReceiverStates
    <3> QED BY <1>1, <2>3, <3>1, Zenon DEF ReceiverStates
  <2>5. sender.at \in {"crc1", "header", "failed"} /\ NotAcked(toSender)
    BY <1>1, <1>3, Zenon DEF Places
  <2>6. Byte1("C") \in Units /\ Byte1("C").unit # "ACK"
    BY <2>2, ByteType, Zenon
  <2>7. OneBehind(toSender') /\ NotAcked(toSender')
    BY <1>1, <2>3, <2>5, <2>6, FirstRequest, Zenon
  <2>8. Inbound'
    BY <1>2, <2>5, <2>7, Zenon DEF Inbound
  <2> QED BY <1>1, <1>2, <1>3, <2>3, <2>4, <2>7, <2>8, ChannelMoves, Zenon
<1>4. CASE ~(receiver.at = "start" /\ receiver.expected < StartRetries)
  <2>1. Replies([receiver EXCEPT !.at = "failed"], <<>>)
    BY <1>4, Zenon DEF ReceiverTimesOut
  <2>2. [i \in DOMAIN <<>> |-> Byte1(<<>>[i])] = <<>>
    OBVIOUS
  <2>3. receiver' = [receiver EXCEPT !.at = "failed"] /\ toSender' = toSender
    BY <1>1, <2>1, <2>2, JoinNothing, Zenon DEF Replies
  <2>4. receiver' \in ReceiverStates /\ receiver'.at = "failed"
    BY <1>1, <2>3, Zenon DEF ReceiverStates, ReceiverPlaces
  <2>5. Inbound'
    BY <1>1, <1>2, <2>3, Zenon DEF Inbound, Entire
  <2> QED BY <1>1, <1>2, <2>3, <2>4, <2>5, ChannelMoves, Zenon
<1> QED BY <1>3, <1>4, Zenon

\* The first unit of a channel, mangled.
LEMMA HeadDamaged ==
    ASSUME NEW q \in Seq(Units), q # <<>>
    PROVE  LET p == <<Mangled(Head(q))>> \o Tail(q) IN p \in Seq(Units) /\ Damaged(p, q)
<1>1. Head(q) = q[1] /\ q[1] \in Units /\ Len(q) \in Nat /\ Len(q) # 0
  OBVIOUS
<1>2. PICK u \in Units : u = Mangled(q[1])
  BY <1>1, MangledKeeps, Zenon
<1>3. <<u>> \o Tail(q) \in Seq(Units)
  OBVIOUS
<1>4. /\ Len(<<u>> \o Tail(q)) = Len(q) /\ (<<u>> \o Tail(q))[1] = u
      /\ \A i \in 2..Len(q) : (<<u>> \o Tail(q))[i] = q[i]
  BY <1>1
<1> QED BY <1>1, <1>2, <1>3, <1>4, Zenon DEF Damaged

LEMMA MangleOK ==
    ASSUME YmodemInv, Mangle
    PROVE  YmodemInv'
<1>1. /\ toSender \in Seq(Units) /\ toReceiver \in Seq(Units) /\ receiver \in ReceiverStates
      /\ mangled \in 0..MaxMangled /\ mangled \in Nat /\ MaxMangled \in Nat /\ Places /\ Inbound
      /\ receiver.retries \in Nat /\ Len(written) \in Nat /\ Reach \in Nat
  BY Counts, Zenon DEF YmodemInv, YmodemTypes, ReceiverStates
<1>2. UNCHANGED <<sender, receiver, written>> /\ mangled < MaxMangled /\ mangled' = mangled + 1
  BY Zenon DEF Mangle
<1>3. mangled' \in 0..MaxMangled /\ mangled <= mangled'
  BY <1>1, <1>2
<1>4. CASE toSender' = toSender /\ toReceiver # <<>> /\ toReceiver' = Tail(toReceiver)
  <2>1. Inbound'
    BY <1>1, <1>2, <1>4, Zenon DEF Inbound, Entire
  <2>2. Reach' = Reach + 1
    BY <1>1, <1>2 DEF Reach
  <2>3. Listening' /\ IsData(Head(toReceiver)) => Val(Head(toReceiver)) + 1 <= Reach'
    BY <1>1, <1>2, <1>4, <2>2, HeadNear DEF Listening
  <2>4. /\ receiver'.at \in {"eot", "last", "done"} => Entire'
        /\ receiver'.at \in {"start", "meta"} => NotAcked(toSender')
        /\ receiver'.at = "data" => receiver'.expected = (Len(written') + 1) % Modulus
        /\ Listening' => Listening /\ receiver'.retries <= MaxRetries
    BY <1>1, <1>2, <1>4, Zenon DEF Places, Entire, Listening
  <2> QED BY <1>1, <1>2, <1>3, <1>4, <2>1, <2>3, <2>4, ReceiverMoves, Zenon
<1>5. CASE /\ toSender' = toSender /\ toReceiver # <<>>
           /\ toReceiver' = <<Mangled(Head(toReceiver))>> \o Tail(toReceiver)
  <2>1. toReceiver' \in Seq(Units) /\ Damaged(toReceiver', toReceiver)
    BY <1>1, <1>5, HeadDamaged, Zenon
  <2>2. Inbound'
    BY <1>1, <1>2, <1>5, Zenon DEF Inbound, Entire
  <2> QED BY <1>1, <1>2, <1>3, <1>5, <2>1, <2>2, ChannelMoves, Zenon
<1>6. CASE toReceiver' = toReceiver /\ toSender' \in Seq(Units) /\ Quiet(toSender', toSender)
  <2>1. Inbound'
    BY <1>2, <1>6, InboundQuiet, Zenon DEF Entire
  <2>2. NotAcked(toSender) => NotAcked(toSender')
    BY <1>6, Zenon DEF Quiet
  <2> QED BY <1>1, <1>2, <1>3, <1>6, <2>1, <2>2, ChannelMoves, Zenon
<1>7. CASE toReceiver' = toReceiver /\ toSender # <<>> /\ toSender' = Tail(toSender)
  <2>1. toSender' \in Seq(Units) /\ Quiet(toSender', toSender)
    BY <1>1, <1>7, TailShorter, QuietShorter, Zenon
  <2> QED BY <1>6, <1>7, <2>1, Zenon
<1>8. CASE /\ toReceiver' = toReceiver /\ toSender # <<>>
           /\ toSender' = <<Mangled(Head(toSender))>> \o Tail(toSender)
  <2>1. toSender' \in Seq(Units) /\ Quiet(toSender', toSender)
    BY <1>1, <1>8, HeadDamaged, QuietDamaged, Zenon
  <2> QED BY <1>6, <1>8, <2>1, Zenon
<1> QED BY <1>4, <1>5, <1>7, <1>8, Zenon DEF Mangle

LEMMA YmodemInitOK ==
    ASSUME YmodemInit
    PROVE  YmodemInv
<1>1. /\ sender = [at |-> "crc1", block |-> 0, tries |-> 0]
      /\ receiver = [at |-> "start", expected |-> 1, retries |-> 0]
      /\ toReceiver = <<>> /\ toSender = <<Byte1("C")>> /\ written = <<>> /\ mangled = 0
  BY Zenon DEF YmodemInit
<1>2. Byte1("C") \in Units /\ Byte1("C").unit = "C"
  BY ByteType, Zenon
<1>3. YmodemTypes
  BY <1>1, <1>2, YmodemAssumption DEF YmodemTypes, SenderPlaces, ReceiverPlaces
<1>4. Written
  BY <1>1, YmodemAssumption DEF Written
<1>5. Len(toSender) = 1 /\ \A i \in 1..Len(toSender) : i = 1 /\ toSender[i].unit = "C"
  BY <1>1, <1>2
<1>6. NotAcked(toSender) /\ OneBehind(toSender)
  BY <1>5, Zenon DEF NotAcked, OneBehind
<1>7. Places
  BY <1>1, <1>6, YmodemAssumption DEF Places, Listening
<1>8. Len(toReceiver) = 0 /\ \A i \in 1..Len(toReceiver) : FALSE
  BY <1>1
<1>9. Shape(toReceiver, Len(written), sender.block) /\ Ending(toReceiver, sender.block)
  BY <1>8, Zenon DEF Shape, Ending
<1>10. Near(toReceiver, Reach)
  BY <1>8, Zenon DEF Near
<1>11. Room(toReceiver, sender.block, Reach)
  BY <1>1 DEF Room, Reach
<1>12. Outbound
  BY <1>8, <1>9, <1>10, <1>11, Zenon DEF Outbound
<1>13. Inbound
  BY <1>1, <1>6, Zenon DEF Inbound
<1> QED BY <1>3, <1>4, <1>7, <1>12, <1>13, Zenon DEF YmodemInv

\* No transfer stores a wrong file, whatever its length and however answers are
\* delayed, as long as fewer units are lost or mangled, on top of the retries, than
\* there are block numbers: the receiver then never mistakes a block for another.
THEOREM SpecFileIntact ==
    ASSUME FewLosses
    PROVE  YmodemSpec => []FileIntact
<1>1. YmodemInit => YmodemInv
  BY YmodemInitOK, Zenon
<1>2. YmodemInv /\ [YmodemNext]_ymodemVars => YmodemInv'
  <2> SUFFICES ASSUME YmodemInv, [YmodemNext]_ymodemVars
               PROVE  YmodemInv'
    BY Zenon
  <2>1. CASE SenderReads
    BY <2>1, SenderReadsOK, Zenon
  <2>2. CASE SenderTimesOut
    BY <2>2, SenderTimesOutOK, Zenon
  <2>3. CASE ReceiverReads
    BY <2>3, ReceiverReadsOK, Zenon
  <2>4. CASE ReceiverTimesOut
    BY <2>4, ReceiverTimesOutOK, Zenon
  <2>5. CASE Mangle
    BY <2>5, MangleOK, Zenon
  <2>6. CASE UNCHANGED ymodemVars
    <3>1. UNCHANGED <<sender, receiver, toReceiver, toSender, written, late, mangled>>
      BY <2>6, Zenon DEF ymodemVars
    <3> QED BY <3>1, Zenon DEF YmodemInv, YmodemTypes, Written, Places, Outbound, Inbound, Entire,
                              Sending, Listening, Reach
  <2> QED BY <2>1, <2>2, <2>3, <2>4, <2>5, <2>6, Zenon DEF YmodemNext
<1>3. YmodemInv => FileIntact
  <2> SUFFICES ASSUME YmodemInv
               PROVE  FileIntact
    BY Zenon
  <2>1. written \in Seq(Nat) /\ \A i \in 1..Len(written) : written[i] = i
    BY Zenon DEF YmodemInv, YmodemTypes, Written
  <2>2. written = [i \in 1..Len(written) |-> i]
    BY <2>1
  <2>3. "done" \in {sender.at, receiver.at} => Len(written) = FileBlocks
    BY Zenon DEF YmodemInv, Places, Entire
  <2> QED BY <2>2, <2>3, Zenon DEF FileIntact
<1> QED BY <1>1, <1>2, <1>3, PTL DEF YmodemSpec
===============================================================================
