---------------------------- MODULE Clocks_proofs -----------------------------
(* What is kept between two looks at the clock: the secrets of the cookie    *)
(* gate, the cached bound of the timers and the buckets of the rate limiter. *)
EXTENDS CookieGate, Timers, RateLimiter, TLAPS, WellFoundedInduction, FiniteSetTheorems

-------------------------------------------------------------------------------
(* What passes the gate under load has proven its address, for any           *)
(* addresses, losses and delays. A cookie proves an address no earlier than  *)
(* the secret it was made from was drawn, which the invariant says of every  *)
(* cookie there is, on its way or kept; so what passes has proven its        *)
(* address while that secret was in use.                                     *)

CookieSet == [secret : Nat, addr : AllAddrs]
GateType == [secret : Nat, age : Nat, elapsed : Nat, count : Nat, prev : Nat, busy : BOOLEAN]
SenderType == [mac1 : Nat \cup {None}, cookie : CookieSet \cup {None}, cookieAge : Nat]

GateTypes ==
    /\ gate \in [GateNodes -> GateType]
    /\ sender \in [GateNodes -> SenderType]
    /\ addr \in GateAddrs
    /\ \A m \in wire : /\ m.from \in GateNodes /\ m.src \in AllAddrs
                       /\ m.mac2 \in CookieSet \cup {None} /\ m.cookie \in CookieSet \cup {None}
    /\ proofAge \in [GateNodes -> [AllAddrs -> Nat]]

\* A cookie made from the secret of node n proves an address no earlier than the
\* secret was drawn.
Proves(c) == c # None => \A n \in GateNodes : c.secret = gate[n].secret =>
                n \in Loaded /\ proofAge[n][c.addr] <= gate[n].age
\* A cookie on its way is of its sender, for the address it goes to.
OnItsWay(m) == m.cookie # None => m.kind = "cookie" /\ m.cookie.addr = m.src /\
                 \A n \in GateNodes : m.cookie.secret = gate[n].secret => n \in Loaded /\ m.from = n

GateInv ==
    /\ GateTypes
    /\ gate["i"].secret # gate["r"].secret
    /\ \A n \in GateNodes : Proves(sender[n].cookie)
    /\ \A m \in wire : Proves(m.mac2) /\ OnItsWay(m)
    /\ AddressProofIsFresh

-------------------------------------------------------------------------------
\* Every cookie anybody holds counts as using its secret.
LEMMA InUse ==
    /\ \A n \in GateNodes : gate[n].secret \in SecretsInUse
    /\ \A n \in GateNodes : sender[n].cookie # None => sender[n].cookie.secret \in SecretsInUse
    /\ \A m \in wire : /\ m.mac2 # None => m.mac2.secret \in SecretsInUse
                       /\ m.cookie # None => m.cookie.secret \in SecretsInUse
<1>1. /\ \A n \in GateNodes : sender[n].cookie \in Cookies
      /\ \A m \in wire : m.mac2 \in Cookies /\ m.cookie \in Cookies
  BY Zenon DEF Cookies
<1>2. \A c \in Cookies : c # None => c.secret \in SecretsInUse
  BY Zenon DEF SecretsInUse
<1> QED BY <1>1, <1>2, Zenon DEF SecretsInUse

\* A step that keeps the secrets or draws new ones, passes held cookies on, and
\* answers with cookies of the secret in force.
LEMMA GateStep ==
    ASSUME GateInv, gate' \in [GateNodes -> GateType], gate'["i"].secret # gate'["r"].secret,
           \A n \in GateNodes : \/ gate'[n].secret = gate[n].secret /\ gate'[n].age = gate[n].age
                                \/ gate'[n].secret \notin SecretsInUse,
           sender' \in [GateNodes -> SenderType],
           \A n \in GateNodes : sender'[n].cookie = sender[n].cookie,
           addr' \in GateAddrs, proofAge' = proofAge, passAge' < CookieRefreshTime,
           \A m \in wire' :
             \/ m \in wire
             \/ /\ m.from \in GateNodes /\ m.src \in AllAddrs /\ m.cookie = None
                /\ m.mac2 = None \/ \E n \in GateNodes : m.mac2 = sender[n].cookie
             \/ /\ m.from \in GateNodes /\ m.from \in Loaded /\ m.src \in AllAddrs
                /\ m.kind = "cookie" /\ m.mac2 = None
                /\ m.cookie = [secret |-> gate'[m.from].secret, addr |-> m.src]
    PROVE  GateInv'
<1>1. /\ \A n \in GateNodes : sender[n].cookie \in CookieSet \cup {None}
      /\ \A m \in wire : /\ m.from \in GateNodes /\ m.src \in AllAddrs
                         /\ m.mac2 \in CookieSet \cup {None} /\ m.cookie \in CookieSet \cup {None}
  BY Zenon DEF GateInv, GateTypes, SenderType
<1>2. \A n \in GateNodes : gate'[n].secret \in Nat
  BY Zenon DEF GateType
<1>3. ASSUME NEW m \in wire'
      PROVE  /\ m.from \in GateNodes /\ m.src \in AllAddrs
             /\ m.mac2 \in CookieSet \cup {None} /\ m.cookie \in CookieSet \cup {None}
  <2>1. CASE m \in wire
    BY <1>1, <2>1, Zenon
  <2>2. CASE /\ m.from \in GateNodes /\ m.src \in AllAddrs /\ m.cookie = None
             /\ m.mac2 = None \/ \E n \in GateNodes : m.mac2 = sender[n].cookie
    BY <1>1, <2>2, Zenon
  <2>3. CASE /\ m.from \in GateNodes /\ m.src \in AllAddrs /\ m.mac2 = None
             /\ m.cookie = [secret |-> gate'[m.from].secret, addr |-> m.src]
    <3>1. gate'[m.from].secret \in Nat
      BY <1>2, <2>3, Zenon
    <3> QED BY <2>3, <3>1 DEF CookieSet
  <2> QED BY <2>1, <2>2, <2>3, Zenon
<1>4. GateTypes'
  BY <1>3, Zenon DEF GateInv, GateTypes
<1>5. ASSUME NEW c, Proves(c), c # None => c.secret \in SecretsInUse
      PROVE  Proves(c)'
  BY <1>5, Zenon DEF Proves
<1>6. \A n \in GateNodes : Proves(sender[n].cookie)'
  <2> TAKE n \in GateNodes
  <2>1. PICK c : c = sender[n].cookie
    BY Zenon
  <2>2. Proves(c)'
    BY <1>5, <2>1, InUse, Zenon DEF GateInv
  <2> QED BY <2>1, <2>2, Zenon DEF Proves
<1>7. ASSUME NEW m \in wire' PROVE Proves(m.mac2)' /\ OnItsWay(m)'
  <2>1. CASE m \in wire
    <3>1. Proves(m.mac2)'
      BY <1>5, <2>1, InUse, Zenon DEF GateInv
    <3>2. OnItsWay(m)'
      BY <2>1, InUse DEF GateInv, OnItsWay
    <3> QED BY <3>1, <3>2, Zenon
  <2>2. CASE /\ m.cookie = None
             /\ m.mac2 = None \/ \E n \in GateNodes : m.mac2 = sender[n].cookie
    <3>1. Proves(m.mac2)'
      BY <1>5, <2>2, InUse DEF GateInv, Proves
    <3> QED BY <2>2, <3>1, Zenon DEF OnItsWay
  <2>3. CASE /\ m.from \in GateNodes /\ m.from \in Loaded /\ m.src \in AllAddrs
             /\ m.kind = "cookie" /\ m.mac2 = None
             /\ m.cookie = [secret |-> gate'[m.from].secret, addr |-> m.src]
    <3>1. m.cookie.secret = gate'[m.from].secret /\ m.cookie.addr = m.src
      BY <2>3
    <3>2. \A n \in GateNodes : gate'[m.from].secret = gate'[n].secret => n = m.from
      BY <2>3, Zenon DEF GateNodes
    <3> QED BY <2>3, <3>1, <3>2, Zenon DEF OnItsWay, Proves
  <2> QED BY <2>1, <2>2, <2>3, Zenon
<1> QED BY <1>4, <1>6, <1>7, Zenon DEF GateInv, AddressProofIsFresh

\* note_handshake_msg counts; the secret is as it was.
LEMMA NotedKeeps ==
    ASSUME NEW g \in GateType
    PROVE  Noted(g) \in GateType /\ Noted(g).secret = g.secret /\ Noted(g).age = g.age
<1>1. PICK next \in GateType :
        /\ next = IF g.elapsed >= 1
                  THEN [g EXCEPT !.prev = IF g.elapsed < 2 THEN g.count ELSE 0, !.count = 0, !.elapsed = 0]
                  ELSE g
        /\ next.secret = g.secret /\ next.age = g.age
  <2>1. CASE g.elapsed >= 1
    <3>1. PICK p \in Nat : p = IF g.elapsed < 2 THEN g.count ELSE 0
      BY Zenon DEF GateType
    <3>2. [g EXCEPT !.prev = p, !.count = 0, !.elapsed = 0] \in GateType
      BY Zenon DEF GateType
    <3>3. /\ [g EXCEPT !.prev = p, !.count = 0, !.elapsed = 0].secret = g.secret
          /\ [g EXCEPT !.prev = p, !.count = 0, !.elapsed = 0].age = g.age
      BY Zenon DEF GateType
    <3> QED BY <2>1, <3>1, <3>2, <3>3, Zenon
  <2>2. CASE ~(g.elapsed >= 1)
    BY <2>2, Zenon
  <2> QED BY <2>1, <2>2, Zenon
<1>2. PICK k \in Nat : k = IF next.count <= HandshakesPerSec THEN next.count + 1 ELSE next.count
  BY DEF GateType
<1>3. Noted(g) = [next EXCEPT !.count = k]
  BY <1>1, <1>2, Zenon DEF Noted
<1>4. /\ [next EXCEPT !.count = k] \in GateType
      /\ [next EXCEPT !.count = k].secret = next.secret /\ [next EXCEPT !.count = k].age = next.age
  BY Zenon DEF GateType
<1> QED BY <1>1, <1>3, <1>4, Zenon

\* CookieSecret::refresh leaves a secret younger than the refresh time: the one
\* it found, or one nobody holds a cookie of.
LEMMA RefreshedSecret ==
    ASSUME NEW g \in GateType, SecretsLeft
    PROVE  /\ SecretRefreshed(g) \in GateType /\ SecretRefreshed(g).age < CookieRefreshTime
           /\ \/ SecretRefreshed(g) = g
              \/ SecretRefreshed(g).secret \notin SecretsInUse
<1>1. CookieRefreshTime \in Nat \ {0} /\ MaxNames \in Nat
  BY GateAssumption, Zenon
<1>2. FreshSecret \in 0..MaxNames /\ FreshSecret \notin SecretsInUse
  BY Zenon DEF SecretsLeft, FreshSecret
<1>3. PICK f \in Nat : f = FreshSecret /\ f \notin SecretsInUse
  BY <1>1, <1>2
<1>4. CASE g.age >= CookieRefreshTime
  <2>1. SecretRefreshed(g) = [g EXCEPT !.secret = f, !.age = 0]
    BY <1>3, <1>4, Zenon DEF SecretRefreshed
  <2>2. [g EXCEPT !.secret = f, !.age = 0] \in GateType
    BY Zenon DEF GateType
  <2>3. [g EXCEPT !.secret = f, !.age = 0].secret = f /\ [g EXCEPT !.secret = f, !.age = 0].age = 0
    BY Zenon DEF GateType
  <2> QED BY <1>1, <1>3, <2>1, <2>2, <2>3
<1>5. CASE ~(g.age >= CookieRefreshTime)
  <2>1. SecretRefreshed(g) = g
    BY <1>5, Zenon DEF SecretRefreshed
  <2>2. g.age \in Nat
    BY Zenon DEF GateType
  <2> QED BY <1>1, <1>5, <2>1, <2>2
<1> QED BY <1>4, <1>5, Zenon

\* What the gate makes of a message: the secret is kept or is one of nobody's
\* cookies, what passes under load proved its address in time, and the reply is
\* a cookie of the secret in force.
LEMMA GateOutcome ==
    ASSUME GateInv, SecretsLeft, NEW n \in GateNodes, NEW m \in wire, NEW allowed,
           NEW out, out = Gate(n, m, allowed)
    PROVE  /\ out.gate \in GateType
           /\ \/ out.gate.secret = gate[n].secret /\ out.gate.age = gate[n].age
              \/ out.gate.secret \notin SecretsInUse
           /\ out.age < CookieRefreshTime
           /\ \A r \in out.reply : /\ r.from = n /\ n \in Loaded /\ r.src = m.src
                                   /\ r.kind = "cookie" /\ r.mac2 = None
                                   /\ r.cookie = [secret |-> out.gate.secret, addr |-> m.src]
<1>0. gate[n] \in GateType /\ passAge < CookieRefreshTime
  BY Zenon DEF GateInv, GateTypes, AddressProofIsFresh
<1>1. PICK g \in GateType : g = Noted(gate[n]) /\ g.secret = gate[n].secret /\ g.age = gate[n].age
  BY <1>0, NotedKeeps, Zenon
<1>2. PICK fresh \in GateType :
        /\ fresh = SecretRefreshed(g) /\ fresh.age < CookieRefreshTime
        /\ fresh = g \/ fresh.secret \notin SecretsInUse
  BY RefreshedSecret, Zenon
<1>3. CASE n \notin Loaded
  <2>1. out = [gate |-> gate[n], pass |-> TRUE, reply |-> {}, age |-> passAge]
    BY <1>3, Zenon DEF Gate
  <2>2. out.gate = gate[n] /\ out.reply = {} /\ out.age = passAge
    BY <2>1
  <2> QED BY <1>0, <2>2, Zenon
<1>4. CASE n \in Loaded /\ ~UnderLoad(g)
  <2>1. out = [gate |-> g, pass |-> TRUE, reply |-> {}, age |-> passAge]
    BY <1>1, <1>4, Zenon DEF Gate
  <2>2. out.gate = g /\ out.reply = {} /\ out.age = passAge
    BY <2>1
  <2> QED BY <1>0, <1>1, <2>2, Zenon
<1>5. CASE n \in Loaded /\ UnderLoad(g)
  <2> DEFINE proved == m.mac2 = CookieFor(fresh, m.src)
  <2>1. out = [gate |-> fresh, pass |-> proved /\ allowed,
               reply |-> IF proved THEN {} ELSE {CookieReply(fresh, m, n)},
               age |-> IF proved /\ allowed THEN proofAge[n][m.src] ELSE passAge]
    BY <1>1, <1>2, <1>5, Zenon DEF Gate
  <2>2. /\ out.gate = fresh
        /\ out.reply = IF proved THEN {} ELSE {CookieReply(fresh, m, n)}
        /\ out.age = IF proved /\ allowed THEN proofAge[n][m.src] ELSE passAge
    BY <2>1
  <2>3. \/ fresh.secret = gate[n].secret /\ fresh.age = gate[n].age
        \/ fresh.secret \notin SecretsInUse
    BY <1>1, <1>2, Zenon
  <2>4. out.age < CookieRefreshTime
    <3>1. CASE proved
      <4>1. /\ m.mac2 = [secret |-> fresh.secret, addr |-> m.src]
            /\ m.mac2.secret = fresh.secret /\ m.mac2.addr = m.src
        BY <3>1 DEF CookieFor
      <4>2. m.src \in AllAddrs /\ fresh.secret \in Nat /\ fresh.age \in Nat
        BY Zenon DEF GateInv, GateTypes, GateType
      <4>3. m.mac2 # None
        BY <4>1, <4>2, GateAssumption DEF AllAddrs
      <4>4. fresh.secret = gate[n].secret /\ fresh.age = gate[n].age
        BY <2>3, <4>1, <4>3, InUse, Zenon
      <4>5. proofAge[n][m.src] <= fresh.age
        BY <4>1, <4>3, <4>4, Zenon DEF GateInv, Proves
      <4>6. proofAge[n][m.src] \in Nat
        BY <4>2, Zenon DEF GateInv, GateTypes
      <4>7. proofAge[n][m.src] < CookieRefreshTime
        BY <1>2, <4>2, <4>5, <4>6, GateAssumption
      <4> QED BY <1>0, <2>2, <4>7, Zenon
    <3>2. CASE ~proved
      BY <1>0, <2>2, <3>2, Zenon
    <3> QED BY <3>1, <3>2, Zenon
  <2>5. \A r \in out.reply : r = CookieReply(fresh, m, n)
    BY <2>2, Zenon
  <2>6. /\ CookieReply(fresh, m, n).from = n /\ CookieReply(fresh, m, n).src = m.src
        /\ CookieReply(fresh, m, n).kind = "cookie" /\ CookieReply(fresh, m, n).mac2 = None
        /\ CookieReply(fresh, m, n).cookie = [secret |-> fresh.secret, addr |-> m.src]
    BY Zenon DEF CookieReply, CookieFor
  <2> QED BY <1>5, <2>2, <2>3, <2>4, <2>5, <2>6, Zenon
<1> QED BY <1>3, <1>4, <1>5, Zenon

\* A message of the node's own carries the cookie it holds, or none.
LEMMA OwnMessage ==
    ASSUME GateInv, NEW n \in GateNodes, NEW kind, NEW of, NEW m, m = GateMessage(n, kind, of)
    PROVE  /\ m.from \in GateNodes /\ m.src \in AllAddrs /\ m.cookie = None
           /\ m.mac2 = None \/ m.mac2 = sender[n].cookie
<1>1. /\ m.from = n /\ m.cookie = None /\ m.mac2 = Mac2(n) /\ m.src = AddrOf(n)
  BY Zenon DEF GateMessage
<1>2. AddrOf(n) \in AllAddrs
  BY Zenon DEF AddrOf, AllAddrs, GateInv, GateTypes
<1>3. Mac2(n) = None \/ Mac2(n) = sender[n].cookie
  BY Zenon DEF Mac2
<1> QED BY <1>1, <1>2, <1>3, Zenon

\* Sending keeps the cookie.
LEMMA RecordKeeps ==
    ASSUME GateInv, NamesLeft, NEW n \in GateNodes
    PROVE  /\ Record(n) \in [GateNodes -> SenderType]
           /\ \A k \in GateNodes : Record(n)[k].cookie = sender[k].cookie
<1>1. PICK f \in Nat : f = FreshName
  BY GateAssumption DEF NamesLeft, FreshName
<1>2. sender \in [GateNodes -> SenderType] /\ sender[n] \in SenderType
  BY Zenon DEF GateInv, GateTypes
<1>3. [sender[n] EXCEPT !.mac1 = f] \in SenderType /\ [sender[n] EXCEPT !.mac1 = f].cookie = sender[n].cookie
  BY <1>2, Zenon DEF SenderType
<1>4. PICK v \in SenderType : v = [sender[n] EXCEPT !.mac1 = f] /\ v.cookie = sender[n].cookie
  BY <1>3, Zenon
<1>5. Record(n) = [sender EXCEPT ![n] = v]
  BY <1>1, <1>2, <1>4, Zenon DEF Record
<1> QED BY <1>2, <1>4, <1>5, Zenon

\* A changed gate of one node.
LEMMA OneGate ==
    ASSUME GateInv, NEW n \in GateNodes, NEW g \in GateType, gate' = [gate EXCEPT ![n] = g],
           \/ g.secret = gate[n].secret /\ g.age = gate[n].age
           \/ g.secret \notin SecretsInUse
    PROVE  /\ gate' \in [GateNodes -> GateType] /\ gate'["i"].secret # gate'["r"].secret
           /\ gate'[n] = g
           /\ \A k \in GateNodes : \/ gate'[k].secret = gate[k].secret /\ gate'[k].age = gate[k].age
                                   \/ gate'[k].secret \notin SecretsInUse
<1>1. gate \in [GateNodes -> GateType] /\ gate["i"].secret # gate["r"].secret
  BY Zenon DEF GateInv, GateTypes
<1>2. gate' \in [GateNodes -> GateType] /\ gate'[n] = g /\ \A k \in GateNodes \ {n} : gate'[k] = gate[k]
  BY <1>1, Zenon
<1>3. gate'["i"].secret # gate'["r"].secret
  BY <1>1, <1>2, InUse, Zenon DEF GateNodes
<1> QED BY <1>2, <1>3, Zenon

\* The invariant holds at first.
LEMMA InitGate == GateInit => GateInv
<1> SUFFICES ASSUME GateInit PROVE GateInv
  BY Zenon
<1> USE GateAssumption
<1>1. \A n \in GateNodes :
        /\ gate[n] = [secret |-> IF n = "i" THEN 0 ELSE 1, age |-> 0, elapsed |-> 0, count |-> 0, prev |-> 0, busy |-> FALSE]
        /\ sender[n] = [mac1 |-> None, cookie |-> None, cookieAge |-> 0]
  BY Zenon DEF GateInit
<1>2. \A n \in GateNodes : gate[n] \in GateType /\ sender[n] \in SenderType
  <2> TAKE n \in GateNodes
  <2>1. PICK k \in Nat : k = IF n = "i" THEN 0 ELSE 1
    BY Zenon
  <2>2. gate[n] = [secret |-> k, age |-> 0, elapsed |-> 0, count |-> 0, prev |-> 0, busy |-> FALSE]
    BY <1>1, <2>1, Zenon
  <2>3. gate[n] \in GateType
    BY <2>2 DEF GateType
  <2>4. sender[n] = [mac1 |-> None, cookie |-> None, cookieAge |-> 0]
    BY <1>1, Zenon
  <2>5. sender[n] \in SenderType
    BY <2>4 DEF SenderType
  <2> QED BY <2>3, <2>5, Zenon
<1>3. addr \in GateAddrs
  BY Zenon DEF GateInit
<1>4. proofAge \in [GateNodes -> [AllAddrs -> Nat]]
  BY Zenon DEF GateInit
<1>5. gate = [n \in GateNodes |-> gate[n]] /\ sender = [n \in GateNodes |-> sender[n]] /\ wire = {} /\ passAge = 0
  BY Zenon DEF GateInit
<1>6. GateTypes
  BY <1>2, <1>3, <1>4, <1>5, Zenon DEF GateTypes
<1>7. gate["i"].secret = 0 /\ gate["r"].secret = 1
  BY <1>1 DEF GateNodes
<1>8. \A n \in GateNodes : sender[n].cookie = None
  BY Zenon DEF GateInit
<1> QED BY <1>5, <1>6, <1>7, <1>8 DEF GateInv, Proves, AddressProofIsFresh

\* An initiation carries the cookie its sender holds.
LEMMA SendInitiationStep == GateInv /\ SendInitiation => GateInv'
<1> SUFFICES ASSUME GateInv, SendInitiation PROVE GateInv'
  BY Zenon
<1>1. /\ "i" \in GateNodes /\ gate' = gate /\ addr' = addr /\ proofAge' = proofAge /\ passAge' = passAge
      /\ sender' = Record("i") /\ NamesLeft /\ wire' = wire \cup {GateMessage("i", "initiation", None)}
  BY Zenon DEF SendInitiation, GateNodes
<1>2. /\ gate' \in [GateNodes -> GateType] /\ gate'["i"].secret # gate'["r"].secret
      /\ addr' \in GateAddrs /\ passAge' < CookieRefreshTime
  BY <1>1, Zenon DEF GateInv, GateTypes, AddressProofIsFresh
<1>3. /\ sender' \in [GateNodes -> SenderType]
      /\ \A n \in GateNodes : sender'[n].cookie = sender[n].cookie
  BY <1>1, RecordKeeps, Zenon
<1>4. PICK q : q = GateMessage("i", "initiation", None)
  BY Zenon
<1>5. /\ q.from \in GateNodes /\ q.src \in AllAddrs /\ q.cookie = None
      /\ q.mac2 = None \/ q.mac2 = sender["i"].cookie
  BY <1>1, <1>4, OwnMessage
<1>6. \A m \in wire' :
             \/ m \in wire
             \/ /\ m.from \in GateNodes /\ m.src \in AllAddrs /\ m.cookie = None
                /\ m.mac2 = None \/ \E n \in GateNodes : m.mac2 = sender[n].cookie
  BY <1>1, <1>4, <1>5, Zenon
<1> QED BY <1>1, <1>2, <1>3, <1>6, GateStep, Zenon

\* An initiation at the gate: it passes, or it is answered with a cookie.
LEMMA InitiationStep ==
    ASSUME GateInv, NEW m, NEW allowed, NEW again, GateInitiation(m, allowed, again)
    PROVE  GateInv'
<1>1. PICK out : out = Gate("r", m, allowed)
  BY Zenon
<1>2. /\ "r" \in GateNodes /\ m \in wire /\ NamesLeft /\ SecretsLeft
      /\ gate' = [gate EXCEPT !["r"] = out.gate] /\ passAge' = out.age
      /\ wire' = Left(m, again) \cup out.reply
               \cup (IF out.pass THEN {GateMessage("r", "response", m.name)} ELSE {})
      /\ sender' = IF out.pass THEN Record("r") ELSE sender
      /\ addr' = addr /\ proofAge' = proofAge
  BY <1>1, Zenon DEF GateInitiation, GateNodes
<1>3. /\ out.gate \in GateType
      /\ \/ out.gate.secret = gate["r"].secret /\ out.gate.age = gate["r"].age
         \/ out.gate.secret \notin SecretsInUse
      /\ out.age < CookieRefreshTime
      /\ \A r \in out.reply : /\ r.from = "r" /\ "r" \in Loaded /\ r.src = m.src
                              /\ r.kind = "cookie" /\ r.mac2 = None
                              /\ r.cookie = [secret |-> out.gate.secret, addr |-> m.src]
  BY <1>1, <1>2, GateOutcome
<1>4. /\ gate' \in [GateNodes -> GateType] /\ gate'["i"].secret # gate'["r"].secret
      /\ gate'["r"] = out.gate
      /\ \A k \in GateNodes : \/ gate'[k].secret = gate[k].secret /\ gate'[k].age = gate[k].age
                              \/ gate'[k].secret \notin SecretsInUse
  BY <1>2, <1>3, OneGate, Zenon
<1>5. /\ sender' \in [GateNodes -> SenderType]
      /\ \A n \in GateNodes : sender'[n].cookie = sender[n].cookie
  BY <1>2, RecordKeeps, Zenon DEF GateInv, GateTypes
<1>6. addr' \in GateAddrs /\ m.src \in AllAddrs
  BY <1>2, Zenon DEF GateInv, GateTypes
<1>7. PICK q : q = GateMessage("r", "response", m.name)
  BY Zenon
<1>8. /\ q.from \in GateNodes /\ q.src \in AllAddrs /\ q.cookie = None
      /\ q.mac2 = None \/ q.mac2 = sender["r"].cookie
  <2>1. "r" \in GateNodes
    BY <1>2, Zenon
  <2> QED BY <2>1, <1>7, OwnMessage
<1>9. \A k \in wire' : k \in wire \/ k \in out.reply \/ k = q
  BY <1>2, <1>7, Zenon DEF Left
<1>10. \A k \in out.reply :
             /\ k.from \in GateNodes /\ k.from \in Loaded /\ k.src \in AllAddrs
             /\ k.kind = "cookie" /\ k.mac2 = None
             /\ k.cookie = [secret |-> gate'[k.from].secret, addr |-> k.src]
  BY <1>2, <1>3, <1>4, <1>6, Zenon
<1> QED BY <1>2, <1>3, <1>4, <1>5, <1>6, <1>8, <1>9, <1>10, GateStep

\* A response at the gate: it passes, or it is answered with a cookie.
LEMMA ResponseStep ==
    ASSUME GateInv, NEW m, NEW allowed, NEW again, GateResponse(m, allowed, again)
    PROVE  GateInv'
<1>1. PICK out : out = Gate("i", m, allowed)
  BY Zenon
<1>2. /\ "i" \in GateNodes /\ m \in wire /\ SecretsLeft
      /\ gate' = [gate EXCEPT !["i"] = out.gate] /\ passAge' = out.age
      /\ wire' = Left(m, again) \cup out.reply
      /\ sender' = sender /\ addr' = addr /\ proofAge' = proofAge
  BY <1>1, Zenon DEF GateResponse, GateNodes
<1>3. /\ out.gate \in GateType
      /\ \/ out.gate.secret = gate["i"].secret /\ out.gate.age = gate["i"].age
         \/ out.gate.secret \notin SecretsInUse
      /\ out.age < CookieRefreshTime
      /\ \A r \in out.reply : /\ r.from = "i" /\ "i" \in Loaded /\ r.src = m.src
                              /\ r.kind = "cookie" /\ r.mac2 = None
                              /\ r.cookie = [secret |-> out.gate.secret, addr |-> m.src]
  BY <1>1, <1>2, GateOutcome
<1>4. /\ gate' \in [GateNodes -> GateType] /\ gate'["i"].secret # gate'["r"].secret
      /\ gate'["i"] = out.gate
      /\ \A k \in GateNodes : \/ gate'[k].secret = gate[k].secret /\ gate'[k].age = gate[k].age
                              \/ gate'[k].secret \notin SecretsInUse
  BY <1>2, <1>3, OneGate, Zenon
<1>5. /\ sender' \in [GateNodes -> SenderType] /\ addr' \in GateAddrs /\ m.src \in AllAddrs
  BY <1>2, Zenon DEF GateInv, GateTypes
<1>6. \A k \in wire' : k \in wire \/ k \in out.reply
  BY <1>2, Zenon DEF Left
<1>7. \A k \in out.reply :
             /\ k.from \in GateNodes /\ k.from \in Loaded /\ k.src \in AllAddrs
             /\ k.kind = "cookie" /\ k.mac2 = None
             /\ k.cookie = [secret |-> gate'[k.from].secret, addr |-> k.src]
  BY <1>2, <1>3, <1>4, <1>5, Zenon
<1> QED BY <1>2, <1>3, <1>4, <1>5, <1>6, <1>7, GateStep, Zenon

\* rx_cookie_reply: the cookie taken was made for this address, which has just
\* been proved.
LEMMA CookieReplyStep ==
    ASSUME GateInv, NEW m, RxCookieReply(m)
    PROVE  GateInv'
<1>1. PICK n : n = OtherNode(m.from)
  BY Zenon
<1>2. /\ m \in wire /\ wire' \subseteq wire /\ m.kind = "cookie"
      /\ gate' = gate /\ addr' = addr /\ passAge' = passAge
  BY Zenon DEF RxCookieReply
<1>3. n \in GateNodes /\ m.from \in GateNodes /\ m.src \in AllAddrs /\ m.cookie \in CookieSet \cup {None}
  BY <1>1, <1>2, Zenon DEF OtherNode, GateNodes, GateInv, GateTypes
<1>4. CASE sender' = sender /\ proofAge' = proofAge
  <2>1. /\ gate' \in [GateNodes -> GateType] /\ gate'["i"].secret # gate'["r"].secret
        /\ sender' \in [GateNodes -> SenderType] /\ addr' \in GateAddrs /\ passAge' < CookieRefreshTime
    BY <1>2, <1>4, Zenon DEF GateInv, GateTypes, AddressProofIsFresh
  <2> QED BY <1>2, <1>4, <2>1, GateStep, Zenon
<1>5. CASE /\ sender' = [sender EXCEPT ![n].cookie = m.cookie, ![n].cookieAge = 0]
           /\ proofAge' = [proofAge EXCEPT ![m.from][m.src] = 0]
  <2>1. /\ sender \in [GateNodes -> SenderType] /\ sender[n] \in SenderType
        /\ proofAge \in [GateNodes -> [AllAddrs -> Nat]]
        /\ \A k \in GateNodes : gate[k].age \in Nat
    BY <1>3, Zenon DEF GateInv, GateTypes, GateType
  <2>20. PICK given \in CookieSet \cup {None} : given = m.cookie
    BY <1>3, Zenon
  <2>21. /\ [sender[n] EXCEPT !.cookie = given, !.cookieAge = 0] \in SenderType
         /\ [sender[n] EXCEPT !.cookie = given, !.cookieAge = 0].cookie = given
    BY <2>1, Zenon DEF SenderType
  <2>2. PICK v \in SenderType : v = [sender[n] EXCEPT !.cookie = m.cookie, !.cookieAge = 0] /\ v.cookie = m.cookie
    BY <2>20, <2>21, Zenon
  <2>3. sender' = [sender EXCEPT ![n] = v]
    BY <1>3, <1>5, <2>1, <2>2, Zenon
  <2>4. /\ sender' \in [GateNodes -> SenderType] /\ sender'[n].cookie = m.cookie
        /\ \A k \in GateNodes \ {n} : sender'[k] = sender[k]
    BY <1>3, <2>1, <2>2, <2>3, Zenon
  <2>5. /\ proofAge' \in [GateNodes -> [AllAddrs -> Nat]] /\ proofAge'[m.from][m.src] = 0
        /\ \A k \in GateNodes : \A a \in AllAddrs :
              proofAge'[k][a] = proofAge[k][a] \/ proofAge'[k][a] = 0
    BY <1>3, <1>5, <2>1, Zenon
  <2>6. GateTypes'
    BY <1>2, <2>4, <2>5, Zenon DEF GateInv, GateTypes
  <2>7. ASSUME NEW c \in CookieSet \cup {None}, Proves(c)
        PROVE  Proves(c)'
    <3>1. SUFFICES ASSUME c # None, NEW k \in GateNodes, c.secret = gate[k].secret
                   PROVE  k \in Loaded /\ proofAge'[k][c.addr] <= gate[k].age
      BY <1>2, Zenon DEF Proves
    <3>2. k \in Loaded /\ proofAge[k][c.addr] <= gate[k].age /\ c.addr \in AllAddrs
      BY <2>7, <3>1, Zenon DEF Proves, CookieSet
    <3> QED BY <2>1, <2>5, <3>2
  <2>8. Proves(m.cookie)'
    <3>1. SUFFICES ASSUME m.cookie # None, NEW k \in GateNodes, m.cookie.secret = gate[k].secret
                   PROVE  k \in Loaded /\ proofAge'[k][m.cookie.addr] <= gate[k].age
      BY <1>2, Zenon DEF Proves
    <3>2. k \in Loaded /\ m.from = k /\ m.cookie.addr = m.src
      BY <1>2, <3>1, Zenon DEF GateInv, OnItsWay
    <3> QED BY <2>1, <2>5, <3>2
  <2>9. ASSUME NEW k \in GateNodes PROVE Proves(sender[k].cookie)'
    <3>1. CASE k = n
      BY <2>4, <2>8, <3>1, Zenon DEF Proves
    <3>2. CASE k # n
      <4>1. sender'[k] = sender[k]
        BY <2>4, <3>2, Zenon
      <4>2. PICK c \in CookieSet \cup {None} : c = sender[k].cookie
        BY <2>1, Zenon DEF SenderType
      <4>3. Proves(c)'
        BY <2>7, <4>2, Zenon DEF GateInv
      <4> QED BY <4>1, <4>2, <4>3, Zenon DEF Proves
    <3> QED BY <3>1, <3>2, Zenon
  <2>10. \A k \in wire' : Proves(k.mac2)' /\ OnItsWay(k)'
    BY <1>2, <2>7, Zenon DEF GateInv, GateTypes, OnItsWay
  <2> QED BY <1>2, <2>6, <2>9, <2>10, Zenon DEF GateInv, AddressProofIsFresh
<1> QED BY <1>1, <1>4, <1>5, Zenon DEF RxCookieReply

\* The network, the clock of the load estimate and the pool leave secrets and
\* cookies alone.
LEMMA OutsideStep ==
    ASSUME GateInv, \/ \E m \in wire : LoseDatagram(m)
                    \/ \E a \in GateAddrs : Roam(a)
                    \/ \E n \in Loaded : Busy(n) \/ Second(n)
    PROVE  GateInv'
<1>0. /\ gate \in [GateNodes -> GateType] /\ gate["i"].secret # gate["r"].secret
      /\ sender \in [GateNodes -> SenderType] /\ addr \in GateAddrs /\ passAge < CookieRefreshTime
  BY Zenon DEF GateInv, GateTypes, AddressProofIsFresh
<1>1. CASE \E m \in wire : LoseDatagram(m)
  <2>1. wire' \subseteq wire /\ gate' = gate /\ sender' = sender /\ addr' = addr /\ proofAge' = proofAge /\ passAge' = passAge
    BY <1>1, Zenon DEF LoseDatagram
  <2> QED BY <1>0, <2>1, GateStep, Zenon
<1>2. CASE \E a \in GateAddrs : Roam(a)
  <2>1. wire' = wire /\ gate' = gate /\ sender' = sender /\ addr' \in GateAddrs /\ proofAge' = proofAge /\ passAge' = passAge
    BY <1>2, Zenon DEF Roam
  <2> QED BY <1>0, <2>1, GateStep, Zenon
<1>3. CASE \E n \in Loaded : Busy(n) \/ Second(n)
  <2>1. PICK n \in GateNodes : Busy(n) \/ Second(n)
    BY <1>3, GateAssumption, Zenon DEF GateNodes
  <2>2. wire' = wire /\ sender' = sender /\ addr' = addr /\ proofAge' = proofAge /\ passAge' = passAge
    BY <2>1, Zenon DEF Busy, Second
  <2>3. gate[n] \in GateType
    BY <1>0, Zenon
  <2>4. CASE Busy(n)
    <3>1. PICK b \in BOOLEAN : b = ~gate[n].busy
      BY Zenon
    <3>20. /\ [gate[n] EXCEPT !.busy = b] \in GateType
           /\ [gate[n] EXCEPT !.busy = b].secret = gate[n].secret
           /\ [gate[n] EXCEPT !.busy = b].age = gate[n].age
      BY <2>3, Zenon DEF GateType
    <3>2. PICK g \in GateType : g = [gate[n] EXCEPT !.busy = b] /\ g.secret = gate[n].secret /\ g.age = gate[n].age
      BY <3>20, Zenon
    <3>3. gate' = [gate EXCEPT ![n] = g]
      BY <1>0, <2>4, <3>1, <3>2, Zenon DEF Busy
    <3> QED BY <1>0, <2>2, <3>2, <3>3, OneGate, GateStep, Zenon
  <2>5. CASE Second(n)
    <3>1. PICK e \in Nat : e = gate[n].elapsed + 1
      BY <2>3 DEF GateType
    <3>20. /\ [gate[n] EXCEPT !.elapsed = e] \in GateType
           /\ [gate[n] EXCEPT !.elapsed = e].secret = gate[n].secret
           /\ [gate[n] EXCEPT !.elapsed = e].age = gate[n].age
      BY <2>3, Zenon DEF GateType
    <3>2. PICK g \in GateType : g = [gate[n] EXCEPT !.elapsed = e] /\ g.secret = gate[n].secret /\ g.age = gate[n].age
      BY <3>20, Zenon
    <3>3. gate' = [gate EXCEPT ![n] = g]
      BY <1>0, <2>5, <3>1, <3>2, Zenon DEF Second
    <3> QED BY <1>0, <2>2, <3>2, <3>3, OneGate, GateStep, Zenon
  <2> QED BY <2>1, <2>4, <2>5, Zenon
<1> QED BY <1>1, <1>2, <1>3, Zenon

\* An interval ages secrets and proofs alike.
LEMMA PassStep == GateInv /\ Pass => GateInv'
<1> SUFFICES ASSUME GateInv, Pass PROVE GateInv'
  BY Zenon
<1>0. /\ gate \in [GateNodes -> GateType] /\ gate["i"].secret # gate["r"].secret
      /\ sender \in [GateNodes -> SenderType] /\ addr \in GateAddrs /\ passAge < CookieRefreshTime
      /\ proofAge \in [GateNodes -> [AllAddrs -> Nat]]
      /\ CookieRefreshTime \in Nat
  BY GateAssumption, Zenon DEF GateInv, GateTypes, AddressProofIsFresh
<1>1. addr' = addr /\ wire' = wire /\ passAge' = passAge
  BY Zenon DEF Pass
<1>2. \A a \in Nat : Older(a, CookieRefreshTime) \in Nat
  BY <1>0 DEF Older
<1>3. \A a, b \in Nat : a <= b => Older(a, CookieRefreshTime) <= Older(b, CookieRefreshTime)
  BY <1>0 DEF Older
<1>4. ASSUME NEW n \in GateNodes
      PROVE  /\ gate'[n] \in GateType /\ gate'[n].secret = gate[n].secret
             /\ gate'[n].age = IF n \in Loaded THEN Older(gate[n].age, CookieRefreshTime) ELSE gate[n].age
  <2>1. gate[n] \in GateType
    BY <1>0, Zenon
  <2>2. PICK a \in Nat : a = Older(gate[n].age, CookieRefreshTime)
    BY <1>2, <2>1, Zenon DEF GateType
  <2>3. /\ [gate[n] EXCEPT !.age = a, !.elapsed = 2] \in GateType
        /\ [gate[n] EXCEPT !.age = a, !.elapsed = 2].secret = gate[n].secret
        /\ [gate[n] EXCEPT !.age = a, !.elapsed = 2].age = a
    BY <2>1, Zenon DEF GateType
  <2>4. gate'[n] = IF n \notin Loaded THEN gate[n] ELSE [gate[n] EXCEPT !.age = a, !.elapsed = 2]
    BY <2>2, Zenon DEF Pass
  <2> QED BY <2>1, <2>2, <2>3, <2>4, Zenon
<1>5. ASSUME NEW n \in GateNodes
      PROVE  sender'[n] \in SenderType /\ sender'[n].cookie = sender[n].cookie
  <2>1. sender[n] \in SenderType
    BY <1>0, Zenon
  <2>2. PICK a \in Nat : a = Older(sender[n].cookieAge, CookieRefreshTime)
    BY <1>2, <2>1, Zenon DEF SenderType
  <2>3. /\ [sender[n] EXCEPT !.cookieAge = a] \in SenderType
        /\ [sender[n] EXCEPT !.cookieAge = a].cookie = sender[n].cookie
    BY <2>1, Zenon DEF SenderType
  <2>4. sender'[n] = IF sender[n].cookie = None THEN sender[n] ELSE [sender[n] EXCEPT !.cookieAge = a]
    BY <2>2, Zenon DEF Pass
  <2> QED BY <2>1, <2>3, <2>4, Zenon
<1>6. /\ proofAge' \in [GateNodes -> [AllAddrs -> Nat]]
      /\ \A n \in GateNodes : \A a \in AllAddrs : proofAge'[n][a] = Older(proofAge[n][a], CookieRefreshTime)
  BY <1>0, <1>2, Zenon DEF Pass
<1>7. gate' = [n \in GateNodes |-> gate'[n]] /\ sender' = [n \in GateNodes |-> sender'[n]]
  BY Zenon DEF Pass
<1>8. gate' \in [GateNodes -> GateType] /\ sender' \in [GateNodes -> SenderType]
  BY <1>4, <1>5, <1>7, Zenon
<1>9. GateTypes'
  BY <1>0, <1>1, <1>6, <1>8, Zenon DEF GateInv, GateTypes
<1>10. ASSUME NEW c \in CookieSet \cup {None}, Proves(c)
       PROVE  Proves(c)'
  <2>1. SUFFICES ASSUME c # None, NEW k \in GateNodes, c.secret = gate'[k].secret
                 PROVE  k \in Loaded /\ proofAge'[k][c.addr] <= gate'[k].age
    BY Zenon DEF Proves
  <2>2. k \in Loaded /\ proofAge[k][c.addr] <= gate[k].age /\ c.addr \in AllAddrs
    BY <1>4, <1>10, <2>1, Zenon DEF Proves, CookieSet
  <2>3. gate[k].age \in Nat /\ proofAge[k][c.addr] \in Nat
    BY <1>0, <2>2, Zenon DEF GateType
  <2> QED BY <1>3, <1>4, <1>6, <2>2, <2>3, Zenon
<1>11. ASSUME NEW k \in GateNodes PROVE Proves(sender[k].cookie)'
  <2>1. PICK c \in CookieSet \cup {None} : c = sender[k].cookie
    BY <1>0, Zenon DEF SenderType
  <2>2. Proves(c)'
    BY <1>10, <2>1, Zenon DEF GateInv
  <2> QED BY <1>5, <2>1, <2>2, Zenon DEF Proves
<1>12. \A k \in wire' : Proves(k.mac2)' /\ OnItsWay(k)'
  BY <1>1, <1>4, <1>10 DEF GateInv, GateTypes, OnItsWay
<1>13. gate'["i"].secret # gate'["r"].secret
  BY <1>0, <1>4, Zenon DEF GateNodes
<1> QED BY <1>0, <1>1, <1>9, <1>11, <1>12, <1>13, Zenon DEF GateInv, AddressProofIsFresh

(* For any number of addresses, any refresh time and any load threshold: what   *)
(* passes the gate under load comes from an address that received a cookie less *)
(* than the refresh time ago (check_mac2_or_reply, rx_cookie_reply).            *)
THEOREM SpecAddressProofIsFresh == GateSpec => []AddressProofIsFresh
<1>1. GateInit => GateInv
  BY InitGate, Zenon
<1>2. GateInv /\ [GateNext]_gateVars => GateInv'
  <2> SUFFICES ASSUME GateInv, [GateNext]_gateVars PROVE GateInv'
    BY Zenon
  <2>1. CASE SendInitiation
    BY <2>1, SendInitiationStep, Zenon
  <2>2. CASE Pass
    BY <2>2, PassStep, Zenon
  <2>3. CASE \E allowed \in Verdicts, again \in BOOLEAN : GateReceive(allowed, again)
    BY <2>3, InitiationStep, ResponseStep, CookieReplyStep, Zenon DEF GateReceive
  <2>4. CASE \/ \E m \in wire : LoseDatagram(m)
             \/ \E a \in GateAddrs : Roam(a)
             \/ \E n \in Loaded : Busy(n) \/ Second(n)
    BY <2>4, OutsideStep, Zenon
  <2>5. CASE UNCHANGED gateVars
    BY <2>5, Zenon DEF gateVars, GateInv, GateTypes, AddressProofIsFresh, Proves, OnItsWay
  <2> QED BY <2>1, <2>2, <2>3, <2>4, <2>5, Zenon DEF GateNext
<1>3. GateInv => AddressProofIsFresh
  BY Zenon DEF GateInv
<1> QED BY <1>1, <1>2, <1>3, PTL DEF GateSpec

-------------------------------------------------------------------------------
(* The cached bound of the timers is never late, for every choice of the     *)
(* intervals.  The invariant says more than NeverLate: the bound is below    *)
(* every deadline, the attempt deadline that does not count included, and    *)
(* that deadline is only there while a handshake runs; otherwise starting    *)
(* one could make a deadline count that the cache was never told of.         *)

Moments == Nat \cup {None}
TimerState == [due : [Deadlines -> Moments], at : Moments]

Bounded(T) == \A t \in Deadlines : T.due[t] # None => T.at # None /\ T.at <= T.due[t]
AttemptRuns(T) == T.due["attempt"] # None => T.due["retry"] # None
Good(T) == T \in TimerState /\ Bounded(T) /\ AttemptRuns(T)

TimersInv == Good(Timer) /\ clock \in Nat

-------------------------------------------------------------------------------
\* A set of naturals that is not empty has a least element: the minimum
\* scan_deadlines computes exists.
LEMMA LeastNatural ==
    ASSUME NEW S \in SUBSET Nat, S # {}
    PROVE  \E m \in S : \A k \in S : m <= k
<1> DEFINE Less == OpToRel(<, Nat)
<1>1. IsWellFoundedOn(Less, Nat)
  BY NatLessThanWellFounded, Zenon
<1>2. \A k, m \in Nat : <<k, m>> \in Less <=> k < m
  BY Zenon DEF OpToRel
<1> HIDE DEF Less
<1>3. \E m \in S : \A k \in S : ~ (<<k, m>> \in Less)
  BY <1>1, WFMin, Zenon
<1>4. PICK m \in S : \A k \in S : ~ (<<k, m>> \in Less)
  BY <1>3, Zenon
<1>5. \A k \in S : ~ (k < m)
  BY <1>2, <1>4, Zenon
<1>6. \A k \in S : m <= k
  BY <1>5
<1> QED BY <1>6, Zenon

\* TimerCache::arm gives an instant no later than the one armed, nor than the
\* bound there was.
LEMMA ArmBounds ==
    ASSUME NEW at \in Moments, NEW d \in Nat
    PROVE  /\ Arm(at, d) \in Nat /\ Arm(at, d) # None /\ Arm(at, d) <= d
           /\ at # None => Arm(at, d) <= at
BY TimersAssumption DEF Arm, Moments

\* Installing a deadline with the cache told of it keeps the bound.
LEMMA PutGood ==
    ASSUME NEW T, Good(T), NEW t \in Deadlines, t # "attempt", NEW d \in Nat
    PROVE  Good(Put(T, t, d))
<1> DEFINE U == Put(T, t, d)
<1>1. U.due = [T.due EXCEPT ![t] = d] /\ U.at = Arm(T.at, d)
  BY Zenon DEF Put
<1>2. T.due \in [Deadlines -> Moments] /\ T.at \in Moments
  BY Zenon DEF Good, TimerState
<1>3. /\ Arm(T.at, d) \in Nat /\ Arm(T.at, d) # None /\ Arm(T.at, d) <= d
      /\ T.at # None => Arm(T.at, d) <= T.at
  BY <1>2, ArmBounds, Zenon
<1>4. U \in TimerState
  BY <1>2, <1>3, Zenon DEF Put, TimerState, Moments
<1>5. ASSUME NEW s \in Deadlines, U.due[s] # None
      PROVE  U.at # None /\ U.at <= U.due[s]
  <2>1. CASE s = t
    BY <1>1, <1>2, <1>3, <2>1, Zenon
  <2>2. CASE s # t
    <3>1. U.due[s] = T.due[s]
      BY <1>1, <1>2, <2>2, Zenon
    <3>2. T.at # None /\ T.at <= T.due[s]
      BY <1>5, <3>1, Zenon DEF Good, Bounded
    <3>3. T.due[s] \in Nat /\ T.at \in Nat
      BY <1>2, <1>5, <3>1, <3>2, Zenon DEF Moments
    <3> QED BY <1>1, <1>3, <3>1, <3>2, <3>3
  <2> QED BY <2>1, <2>2, Zenon
<1>6. AttemptRuns(U)
  <2>1. U.due["attempt"] = T.due["attempt"]
    BY <1>1, <1>2, Zenon DEF Deadlines
  <2>2. T.due["retry"] # None => U.due["retry"] # None
    BY <1>1, <1>2, TimersAssumption, Zenon DEF Deadlines
  <2> QED BY <2>1, <2>2, Zenon DEF Good, AttemptRuns
<1> QED BY <1>4, <1>5, <1>6, Zenon DEF Good, Bounded

\* Clearing deadlines needs no bookkeeping, as long as a handshake that is
\* cleared takes its attempt deadline with it.
LEMMA DisarmedGood ==
    ASSUME NEW T, Good(T), NEW S \in SUBSET Deadlines, "retry" \in S => "attempt" \in S
    PROVE  Good(Disarmed(T, S))
<1> DEFINE U == Disarmed(T, S)
<1>1. T.due \in [Deadlines -> Moments] /\ T.at \in Moments /\ T = [due |-> T.due, at |-> T.at]
  BY Zenon DEF Good, TimerState
<1>2. U = [due |-> [t \in Deadlines |-> IF t \in S THEN None ELSE T.due[t]], at |-> T.at]
  BY <1>1 DEF Disarmed
<1>3. U \in TimerState
  BY <1>1, <1>2 DEF TimerState, Moments
<1>4. \A t \in Deadlines : U.due[t] # None => U.due[t] = T.due[t]
  BY <1>2
<1>5. Bounded(U)
  BY <1>2, <1>4 DEF Good, Bounded
<1>6. AttemptRuns(U)
  BY <1>2 DEF Good, AttemptRuns, Deadlines
<1> QED BY <1>3, <1>5, <1>6, Zenon DEF Good

\* Lowering the bound keeps it below.
LEMMA LoweredGood ==
    ASSUME NEW T, Good(T), NEW d \in Nat
    PROVE  Good([T EXCEPT !.at = Arm(@, d)])
<1> DEFINE U == [T EXCEPT !.at = Arm(@, d)]
<1>1. T.due \in [Deadlines -> Moments] /\ T.at \in Moments /\ T = [due |-> T.due, at |-> T.at]
  BY Zenon DEF Good, TimerState
<1>2. U = [due |-> T.due, at |-> Arm(T.at, d)]
  BY <1>1
<1>3. /\ Arm(T.at, d) \in Nat /\ Arm(T.at, d) # None
      /\ T.at # None => Arm(T.at, d) <= T.at
  BY <1>1, ArmBounds, Zenon
<1>4. U \in TimerState
  BY <1>1, <1>2, <1>3, Zenon DEF TimerState, Moments
<1>5. ASSUME NEW s \in Deadlines, U.due[s] # None
      PROVE  U.at # None /\ U.at <= U.due[s]
  <2>1. T.at # None /\ T.at <= T.due[s]
    BY <1>2, <1>5, Zenon DEF Good, Bounded
  <2>2. T.due[s] \in Nat /\ T.at \in Nat
    BY <1>1, <1>2, <1>5, <2>1, Zenon DEF Moments
  <2> QED BY <1>2, <1>3, <2>1, <2>2
<1>6. AttemptRuns(U)
  BY <1>2, Zenon DEF Good, AttemptRuns
<1> HIDE DEF U
<1> QED BY <1>4, <1>5, <1>6, Zenon DEF Good, Bounded, U

-------------------------------------------------------------------------------
(* The handlers, each from the operations above.                             *)

\* commit_handshake_start: the attempt deadline is set before the cache is told,
\* and the cache is told before the handler ends.
LEMMA StageGood ==
    ASSUME NEW T, Good(T), clock \in Nat, NEW j \in Jitter
    PROVE  Good(StageInitiation(T, j))
<1>1. CASE Initiating(T)
  BY <1>1, Zenon DEF StageInitiation
<1>2. CASE ~Initiating(T)
  <2> DEFINE B == BuildInitiation(T, j)
             a == clock + RekeyAttemptTime
             U == StageInitiation(T, j)
  <2>1. clock + RekeyTimeout + j \in Nat /\ a \in Nat
    BY TimersAssumption
  <2>2. Good(B)
    BY <2>1, PutGood, Zenon DEF BuildInitiation, Deadlines
  <2>3. T.due["attempt"] = None
    BY <1>2, Zenon DEF Good, AttemptRuns, Initiating
  <2>4. /\ B.due \in [Deadlines -> Moments] /\ B.at \in Moments
        /\ B = [due |-> B.due, at |-> B.at]
    BY <2>2, Zenon DEF Good, TimerState
  <2>5. B.due["retry"] # None
    <3>1. T.due \in [Deadlines -> Moments]
      BY Zenon DEF Good, TimerState
    <3>2. B.due["retry"] = clock + RekeyTimeout + j
      BY <3>1, Zenon DEF BuildInitiation, Put, Deadlines
    <3> QED BY <2>1, <3>2, TimersAssumption, Zenon
  <2>6. U = [due |-> [B.due EXCEPT !["attempt"] = a], at |-> Arm(B.at, a)]
    <3> HIDE DEF B
    <3>1. U = [[B EXCEPT !.due["attempt"] = a] EXCEPT !.at = Arm(@, a)]
      BY <1>2, <2>3, Zenon DEF StageInitiation, B
    <3> QED BY <2>4, <3>1, Zenon
  <2> HIDE DEF B, U, a
  <2>7. /\ Arm(B.at, a) \in Nat /\ Arm(B.at, a) # None /\ Arm(B.at, a) <= a
        /\ B.at # None => Arm(B.at, a) <= B.at
    BY <2>1, <2>4, ArmBounds, Zenon
  <2>8. U \in TimerState
    BY <2>1, <2>4, <2>6, <2>7, Zenon DEF TimerState, Moments
  <2>9. ASSUME NEW s \in Deadlines, U.due[s] # None
        PROVE  U.at # None /\ U.at <= U.due[s]
    <3>1. CASE s = "attempt"
      BY <2>4, <2>6, <2>7, <3>1, Zenon
    <3>2. CASE s # "attempt"
      <4>1. U.due[s] = B.due[s]
        BY <2>4, <2>6, <3>2, Zenon
      <4>2. B.at # None /\ B.at <= B.due[s]
        BY <2>2, <2>9, <4>1, Zenon DEF Good, Bounded
      <4>3. B.due[s] \in Nat /\ B.at \in Nat
        BY <2>4, <2>9, <4>1, <4>2, Zenon DEF Moments
      <4> QED BY <2>6, <2>7, <4>1, <4>2, <4>3
    <3> QED BY <3>1, <3>2, Zenon
  <2>10. AttemptRuns(U)
    BY <2>4, <2>5, <2>6, Zenon DEF AttemptRuns, Deadlines
  <2> QED BY <2>8, <2>9, <2>10, Zenon DEF Good, Bounded, U
<1> QED BY <1>1, <1>2, Zenon

\* Restarting the persistent keepalive tells the cache.
LEMMA RestartGood ==
    ASSUME NEW T, Good(T), clock \in Nat
    PROVE  Good(RestartPersistent(T))
<1>1. CASE PersistentKeepalive = None
  BY <1>1, DisarmedGood, Zenon DEF RestartPersistent, Deadlines
<1>2. CASE PersistentKeepalive # None
  <2>1. clock + PersistentKeepalive \in Nat
    BY <1>2, TimersAssumption
  <2> QED BY <1>2, <2>1, PutGood, Zenon DEF RestartPersistent, Deadlines
<1> QED BY <1>1, <1>2, Zenon

\* So does sealing a packet, which moves the timers of its session.
LEMMA SealGood ==
    ASSUME NEW T, Good(T), clock \in Nat, NEW data \in BOOLEAN, NEW j \in Jitter
    PROVE  Good(SealTransport(T, data, j))
<1> DEFINE sent == RestartPersistent(Disarmed(T, {"keepalive"}))
<1>1. Good(sent)
  <2>1. Good(Disarmed(T, {"keepalive"}))
    BY DisarmedGood, Zenon DEF Deadlines
  <2> QED BY <2>1, RestartGood, Zenon
<1>2. clock + KeepaliveTimeout + RekeyTimeout + j \in Nat
  BY TimersAssumption
<1>3. Good(Put(sent, "reply", clock + KeepaliveTimeout + RekeyTimeout + j))
  BY <1>1, <1>2, PutGood, Zenon DEF Deadlines
<1> QED BY <1>1, <1>3, Zenon DEF SealTransport

\* So does sending, with the handshake it may begin.
LEMMA SentGood ==
    ASSUME NEW T, Good(T), clock \in Nat, NEW data \in BOOLEAN, NEW j \in Jitter
    PROVE  \A U \in Sent(T, data, j) : Good(U)
<1>1. Good(SealTransport(T, data, j))
  BY SealGood, Zenon
<1>2. Good(StageInitiation(SealTransport(T, data, j), j))
  BY <1>1, StageGood, Zenon
<1> QED BY <1>1, <1>2, Zenon DEF Sent

\* Giving up a handshake takes its deadlines away together.
LEMMA AbortGood ==
    ASSUME NEW T, Good(T)
    PROVE  Good(AbortHandshake(T))
BY DisarmedGood, Zenon DEF AbortHandshake, Deadlines

\* Arming the retry of a reconciliation tells the cache.
LEMMA ReconcileGood ==
    ASSUME NEW T, Good(T), clock \in Nat
    PROVE  Good(ReconcileArmed(T))
<1>1. clock + NegativeTtl \in Nat
  BY TimersAssumption
<1>2. Good(Put(T, "reconcile", clock + NegativeTtl))
  BY <1>1, PutGood, Zenon DEF Deadlines
<1>3. T.due["reconcile"] # None => T.due["reconcile"] \in Nat
  BY Zenon DEF Good, TimerState, Moments, Deadlines
<1>4. T.due["reconcile"] # None => Good([T EXCEPT !.at = Arm(@, T.due["reconcile"])])
  BY <1>3, LoweredGood, Zenon
<1> QED BY <1>2, <1>4, Zenon DEF ReconcileArmed

\* One step of timeout leaves a good state whichever deadline it serves.
LEMMA TimeoutGood ==
    ASSUME NEW T, Good(T), clock \in Nat, NEW j \in Jitter, NEW U \in TimeoutStep(T, j)
    PROVE  Good(U)
<1> DEFINE one(t) == Disarmed(T, {t})
<1>1. /\ Good(one("parked")) /\ Good(one("resolve")) /\ Good(one("reconcile"))
      /\ Good(one("expiry")) /\ Good(one("keepalive")) /\ Good(one("persistent"))
      /\ Good(one("reply"))
  BY DisarmedGood, Zenon DEF Deadlines
<1>2. Good(Disarmed(one("resolve"), {"parked"})) /\ Good(ReconcileArmed(one("resolve")))
  <2> HIDE DEF one
  <2> QED BY <1>1, DisarmedGood, ReconcileGood, Zenon DEF Deadlines
<1>3. Good(Put(T, "reconcile", clock + NegativeTtl))
  <2>1. clock + NegativeTtl \in Nat
    BY TimersAssumption
  <2> QED BY <2>1, PutGood, Zenon DEF Deadlines
<1>4. Good(Disarmed(Put(T, "resolve", clock + ResolveTimeout), {"reconcile"}))
  <2>1. clock + ResolveTimeout \in Nat
    BY TimersAssumption
  <2>2. Good(Put(T, "resolve", clock + ResolveTimeout))
    BY <2>1, PutGood, Zenon DEF Deadlines
  <2> QED BY <2>2, DisarmedGood, Zenon DEF Deadlines
<1>5. Good(AbortHandshake(T)) /\ Good(Disarmed(AbortHandshake(T), {"parked"}))
  <2>1. Good(AbortHandshake(T))
    BY AbortGood, Zenon
  <2> QED BY <2>1, DisarmedGood, Zenon DEF Deadlines
<1>6. Good(BuildInitiation(T, j))
  <2>1. clock + RekeyTimeout + j \in Nat
    BY TimersAssumption
  <2> QED BY <2>1, PutGood, Zenon DEF BuildInitiation, Deadlines
<1>7. \A V \in Sent(one("keepalive"), FALSE, j) \cup Sent(one("persistent"), FALSE, j) : Good(V)
  <2> HIDE DEF one
  <2> QED BY <1>1, SentGood, Zenon
<1>8. Good(RestartPersistent(StageInitiation(one("persistent"), j)))
  <2>1. Good(StageInitiation(one("persistent"), j))
    <3> HIDE DEF one
    <3> QED BY <1>1, StageGood, Zenon
  <2> QED BY <2>1, RestartGood, Zenon
<1>9. Good(StageInitiation(one("reply"), j))
  <2> HIDE DEF one
  <2> QED BY <1>1, StageGood, Zenon
<1> QED BY <1>1, <1>2, <1>3, <1>4, <1>5, <1>6, <1>7, <1>8, <1>9, Zenon DEF TimeoutStep

\* The recomputed bound: the least deadline, or none when there is none.
LEMMA ScanGood ==
    ASSUME NEW T, Good(T)
    PROVE  Good([T EXCEPT !.at = ScanDeadlines(T)])
<1> DEFINE U == [T EXCEPT !.at = ScanDeadlines(T)]
<1>1. T.due \in [Deadlines -> Moments] /\ T.at \in Moments /\ T = [due |-> T.due, at |-> T.at]
  BY Zenon DEF Good, TimerState
<1>2. U = [due |-> T.due, at |-> ScanDeadlines(T)]
  BY <1>1
<1>3. \A t \in Deadlines : T.due[t] # None <=> t \in Counted(T)
  BY Zenon DEF Good, AttemptRuns, Counted, Initiating
<1>4. CASE Counted(T) = {}
  <2>1. ScanDeadlines(T) = None
    BY <1>4, Zenon DEF ScanDeadlines
  <2> HIDE DEF U
  <2> QED BY <1>1, <1>2, <1>3, <1>4, <2>1, Zenon DEF Good, TimerState, Bounded, AttemptRuns, Moments, U
<1>5. CASE Counted(T) # {}
  <2>1. Instants(T) \in SUBSET Nat
    BY <1>1, Zenon DEF Instants, Counted, Moments
  <2>2. Instants(T) # {}
    BY <1>5, Zenon DEF Instants
  <2>3. \E d \in Instants(T) : \A e \in Instants(T) : d <= e
    BY <2>1, <2>2, LeastNatural, Zenon
  <2>4. /\ ScanDeadlines(T) \in Instants(T)
        /\ \A e \in Instants(T) : ScanDeadlines(T) <= e
    BY <1>5, <2>3, Zenon DEF ScanDeadlines
  <2>5. ScanDeadlines(T) \in Nat /\ ScanDeadlines(T) # None
    BY <2>1, <2>4, TimersAssumption, Zenon
  <2>6. \A t \in Deadlines : T.due[t] # None => ScanDeadlines(T) <= T.due[t]
    BY <1>3, <2>4, Zenon DEF Instants
  <2> HIDE DEF U
  <2> QED BY <1>1, <1>2, <2>5, <2>6, Zenon DEF Good, TimerState, Bounded, AttemptRuns, Moments, U
<1> QED BY <1>4, <1>5, Zenon

-------------------------------------------------------------------------------
\* A handler that ends in a good state keeps the invariant.
LEMMA BecameGood ==
    ASSUME NEW T, Good(T), TimersInv, TimerBecame(T)
    PROVE  TimersInv'
<1>1. T = [due |-> T.due, at |-> T.at]
  BY Zenon DEF Good, TimerState
<1>2. Timer' = T
  BY <1>1, Zenon DEF TimerBecame, Timer
<1>3. clock' \in Nat
  BY Zenon DEF TimerBecame, TimersInv
<1>4. Good(Timer')
  BY <1>2, Zenon
<1> QED BY <1>3, <1>4, Zenon DEF TimersInv, Good, Bounded, AttemptRuns

\* At the start no deadline is set.
LEMMA TimersInitial == TimersInit => TimersInv
<1> SUFFICES ASSUME TimersInit PROVE TimersInv
  BY Zenon
<1>1. Timer = [due |-> [t \in Deadlines |-> None], at |-> None]
  BY Zenon DEF TimersInit, Timer
<1>2. Timer \in TimerState
  BY <1>1, Zenon DEF TimerState, Moments
<1>3. \A t \in Deadlines : Timer.due[t] = None
  BY <1>1, Zenon
<1>4. Bounded(Timer) /\ AttemptRuns(Timer)
  BY <1>3, Zenon DEF Bounded, AttemptRuns, Deadlines
<1> QED BY <1>2, <1>4, Zenon DEF Good, TimersInv, TimersInit

\* Every step keeps the bound below every deadline.
LEMMA TimersStep == TimersInv /\ [TimersNext]_timerVars => TimersInv'
<1> SUFFICES ASSUME TimersInv, [TimersNext]_timerVars
             PROVE  TimersInv'
  BY Zenon
<1>0. Good(Timer) /\ clock \in Nat
  BY Zenon DEF TimersInv
<1>1. ASSUME TimerTick PROVE TimersInv'
  <2>1. Timer' = Timer /\ clock' \in Nat
    BY <1>0, <1>1 DEF TimerTick, Timer
  <2>2. Good(Timer')
    BY <1>0, <2>1, Zenon
  <2> QED BY <2>1, <2>2, Zenon DEF TimersInv, Good, Bounded, AttemptRuns
<1>2. ASSUME PeerInstalled PROVE TimersInv'
  BY <1>0, <1>2, RestartGood, BecameGood, Zenon DEF PeerInstalled
<1>3. ASSUME PeerTaken PROVE TimersInv'
  <2> DEFINE S == {"keepalive", "persistent", "reply", "attempt", "retry", "expiry", "parked"}
  <2>1. S \in SUBSET Deadlines /\ "attempt" \in S
    BY Zenon DEF Deadlines
  <2> HIDE DEF S
  <2>2. Good(Disarmed(Timer, S))
    BY <1>0, <2>1, DisarmedGood, Zenon
  <2> QED BY <1>3, <2>2, BecameGood, Zenon DEF PeerTaken, S
<1>4. ASSUME SessionResponded PROVE TimersInv'
  <2>1. clock + RejectAfterTime \in Nat
    BY <1>0, TimersAssumption
  <2>2. Good(Put(Timer, "expiry", clock + RejectAfterTime))
    BY <1>0, <2>1, PutGood, Zenon DEF Deadlines
  <2> QED BY <1>4, <2>2, BecameGood, Zenon DEF SessionResponded
<1>5. ASSUME ParkForResolve PROVE TimersInv'
  <2> DEFINE d == clock + ResolveTimeout
             moved == [Timer EXCEPT !.due["resolve"] = d]
  <2>1. d \in Nat
    BY <1>0, TimersAssumption
  <2>2. PICK asked \in {Put(Timer, "resolve", d), Timer, moved} : TimerBecame(Put(asked, "parked", d))
    BY <1>5, Zenon DEF ParkForResolve
  <2> HIDE DEF d
  <2>3. CASE asked = Put(Timer, "resolve", d)
    <3>1. Good(asked)
      BY <1>0, <2>1, <2>3, PutGood, Zenon DEF Deadlines
    <3>2. Good(Put(asked, "parked", d))
      BY <2>1, <3>1, PutGood, Zenon DEF Deadlines
    <3> QED BY <2>2, <3>2, BecameGood, Zenon
  <2>4. CASE asked = Timer
    <3>1. Good(Put(asked, "parked", d))
      BY <1>0, <2>1, <2>4, PutGood, Zenon DEF Deadlines
    <3> QED BY <2>2, <3>1, BecameGood, Zenon
  <2>5. CASE asked = moved
    \* The parked packet arms the cache with the deadline of both.
    <3> DEFINE P == Put(Put(Timer, "resolve", d), "parked", d)
    <3>1. Good(Put(Timer, "resolve", d))
      BY <1>0, <2>1, PutGood, Zenon DEF Deadlines
    <3>2. Good(P)
      BY <2>1, <3>1, PutGood, Zenon DEF Deadlines
    <3>3. Arm(Arm(cached, d), d) = Arm(cached, d)
      BY <1>0, <2>1, Zenon DEF Arm, Good, TimerState, Moments, Timer
    <3>4. P = Put(asked, "parked", d)
      BY <2>5, <3>3, Zenon DEF Put, Timer
    <3> QED BY <2>2, <3>2, <3>4, BecameGood, Zenon
  <2> QED BY <2>2, <2>3, <2>4, <2>5, Zenon
<1>6. ASSUME LookupAnswered PROVE TimersInv'
  <2>1. Good(Disarmed(Timer, {"resolve", "parked"}))
    BY <1>0, DisarmedGood, Zenon DEF Deadlines
  <2> QED BY <1>6, <2>1, BecameGood, Zenon DEF LookupAnswered
<1>7. ASSUME MarkerSet PROVE TimersInv'
  <2>1. Good(Disarmed(Timer, {"parked"})) /\ clock + NegativeTtl \in Nat
    BY <1>0, TimersAssumption, DisarmedGood DEF Deadlines
  <2>2. Good(Put(Disarmed(Timer, {"parked"}), "resolve", clock + NegativeTtl))
    BY <2>1, PutGood, Zenon DEF Deadlines
  <2> QED BY <1>7, <2>2, BecameGood, Zenon DEF MarkerSet
<1>8. ASSUME UpdateFailed PROVE TimersInv'
  BY <1>0, <1>8, ReconcileGood, BecameGood, Zenon DEF UpdateFailed
<1>9. ASSUME NEW data \in BOOLEAN, RxData(data) PROVE TimersInv'
  <2> DEFINE heard == RestartPersistent(Disarmed(Timer, {"reply"}))
  <2>1. Good(Disarmed(Timer, {"reply"}))
    BY <1>0, DisarmedGood, Zenon DEF Deadlines
  <2>2. Good(heard)
    BY <1>0, <2>1, RestartGood, Zenon
  <2>3. clock + KeepaliveTimeout \in Nat
    BY <1>0, TimersAssumption
  <2>4. Good(Put(heard, "keepalive", clock + KeepaliveTimeout))
    BY <2>2, <2>3, PutGood, Zenon DEF Deadlines
  <2> QED BY <1>9, <2>2, <2>4, BecameGood, Zenon DEF RxData
<1>10. ASSUME NEW j \in Jitter, SendToPeer(j) PROVE TimersInv'
  <2>1. CASE HasSession(Timer)
    <3>1. PICK T \in Sent(Timer, TRUE, j) : TimerBecame(T)
      BY <1>10, <2>1, Zenon DEF SendToPeer
    <3>2. Good(T)
      BY <1>0, SentGood, Zenon
    <3> QED BY <3>1, <3>2, BecameGood, Zenon
  <2>2. CASE ~HasSession(Timer)
    <3>1. clock + RekeyAttemptTime \in Nat
      BY <1>0, TimersAssumption
    <3>2. Good(Put(Timer, "parked", clock + RekeyAttemptTime))
      BY <1>0, <3>1, PutGood, Zenon DEF Deadlines
    <3>3. Good(StageInitiation(Put(Timer, "parked", clock + RekeyAttemptTime), j))
      BY <1>0, <3>2, StageGood, Zenon
    <3> QED BY <1>10, <2>2, <3>3, BecameGood, Zenon DEF SendToPeer
  <2> QED BY <2>1, <2>2, Zenon
<1>11. ASSUME NEW j \in Jitter, ResponseReceived(j) PROVE TimersInv'
  <2> DEFINE made == Put(AbortHandshake(Timer), "expiry", clock + RejectAfterTime)
             data == due["parked"] # None
  <2>1. clock + RejectAfterTime \in Nat
    BY <1>0, TimersAssumption
  <2>2. Good(AbortHandshake(Timer))
    BY <1>0, AbortGood, Zenon
  <2>3. Good(made)
    BY <2>1, <2>2, PutGood, Zenon DEF Deadlines
  <2>4. PICK T \in Sent(Disarmed(made, {"parked"}), data, j) : TimerBecame(T)
    BY <1>11, Zenon DEF ResponseReceived
  <2> HIDE DEF made
  <2>5. Good(Disarmed(made, {"parked"}))
    BY <2>3, DisarmedGood, Zenon DEF Deadlines
  <2>6. data \in BOOLEAN
    BY Zenon
  <2> HIDE DEF data
  <2>7. Good(T)
    BY <1>0, <2>5, <2>6, SentGood, Zenon
  <2> QED BY <2>4, <2>7, BecameGood, Zenon
<1>12. ASSUME NEW j \in Jitter, HandleTimeout(j) PROVE TimersInv'
  <2>1. CASE TimeoutStep(Timer, j) # {}
    <3>1. PICK T \in TimeoutStep(Timer, j) : TimerBecame([T EXCEPT !.at = Arm(@, clock)])
      BY <1>12, <2>1, Zenon DEF HandleTimeout
    <3>2. Good([T EXCEPT !.at = Arm(@, clock)])
      BY <1>0, TimeoutGood, LoweredGood, Zenon
    <3> QED BY <3>1, <3>2, BecameGood, Zenon
  <2>2. CASE TimeoutStep(Timer, j) = {}
    <3>1. TimerBecame([Timer EXCEPT !.at = ScanDeadlines(Timer)])
      BY <1>12, <2>2, Zenon DEF HandleTimeout
    <3>2. Good([Timer EXCEPT !.at = ScanDeadlines(Timer)])
      BY <1>0, ScanGood, Zenon
    <3> QED BY <3>1, <3>2, BecameGood, Zenon
  <2> QED BY <2>1, <2>2, Zenon
<1>13. ASSUME UNCHANGED timerVars PROVE TimersInv'
  <2>1. Timer' = Timer /\ clock' = clock
    BY <1>13, Zenon DEF timerVars, Timer
  <2>2. Good(Timer')
    BY <1>0, <2>1, Zenon
  <2> QED BY <1>0, <2>1, <2>2, Zenon DEF TimersInv, Good, Bounded, AttemptRuns
<1> QED BY <1>1, <1>2, <1>3, <1>4, <1>5, <1>6, <1>7, <1>8, <1>9, <1>10, <1>11, <1>12, <1>13, Zenon
        DEF TimersNext

\* The runner never sleeps through a deadline: the instant TimerCache keeps is at
\* or before every deadline the engine has, for all intervals and jitters.
THEOREM SpecNeverLate == TimersSpec => []NeverLate
<1>1. TimersInv => NeverLate
  <2> SUFFICES ASSUME TimersInv, NEW t \in Counted(Timer)
               PROVE  cached # None /\ cached <= due[t]
    BY Zenon DEF NeverLate
  <2>1. t \in Deadlines /\ Timer.due[t] # None
    BY Zenon DEF Counted
  <2>2. Timer.at # None /\ Timer.at <= Timer.due[t]
    BY <2>1, Zenon DEF TimersInv, Good, Bounded
  <2> QED BY <2>2, Zenon DEF Timer
<1> QED BY <1>1, TimersInitial, TimersStep, PTL DEF TimersSpec

-------------------------------------------------------------------------------
(* Buckets refilled when they are looked at grant and refuse what Budgets,   *)
(* which is refilled all the time, does: for every rate, cost, burst, table  *)
(* size and interval.  The invariant says that no bucket is from the future  *)
(* or over its capacity, that the table keeps its bound, and that the budget *)
(* of evictions was last refilled at a multiple of its interval, so that the *)
(* remainder of an interval is never lost.                                   *)

BucketState == [millitokens : 0..CapacityMt, last : 0..now]

RateInv ==
    /\ now \in Nat
    /\ DOMAIN buckets \in SUBSET SourceKeys
    /\ \A k \in DOMAIN buckets : buckets[k] \in BucketState
    /\ buckets = [k \in DOMAIN buckets |-> buckets[k]]
    /\ Cardinality(DOMAIN buckets) <= MaxBuckets
    /\ available \in 0..Burst
    /\ lastRefill \in 0..now /\ lastRefill % Interval = 0

-------------------------------------------------------------------------------
(* Arithmetic.                                                               *)

\* Division with remainder.
LEMMA Remainder ==
    ASSUME NEW c \in Int, NEW n \in Nat \ {0}
    PROVE  /\ c \div n \in Int /\ c % n \in 0..n - 1
           /\ c = ((c \div n) * n) + (c % n)
OBVIOUS

\* Only zero is less than n away from zero among the multiples of n.
LEMMA NoSmallMultiple ==
    ASSUME NEW q \in Int, NEW n \in Nat \ {0}, NEW r \in Int, r = q * n, -n < r, r < n
    PROVE  q = 0
<1>1. CASE q >= 1
  <2>1. q * n >= n
     BY <1>1
  <2> QED BY <2>1
<1>2. CASE q <= -1
  <2>1. q * n <= -n
     BY <1>2
  <2> QED BY <2>1
<1> QED BY <1>1, <1>2

\* Quotient and remainder are unique.
LEMMA RemainderUnique ==
    ASSUME NEW n \in Nat \ {0}, NEW q \in Int, NEW r \in 0..n - 1, NEW c \in Int, c = (q * n) + r
    PROVE  c \div n = q /\ c % n = r
<1> DEFINE p == c \div n
           s == c % n
<1>1. p \in Int /\ s \in 0..n - 1 /\ c = (p * n) + s
  BY Remainder, Zenon
<1> HIDE DEF p, s
<1>2. (p - q) * n = r - s
  BY <1>1
<1>3. p - q = 0
  BY <1>1, <1>2, NoSmallMultiple
<1>4. p = q /\ r = s
  BY <1>1, <1>2, <1>3
<1> QED BY <1>4, Zenon DEF p, s

\* The quotient grows by one exactly when the remainder comes to zero.
LEMMA QuotientGrows ==
    ASSUME NEW x \in Nat, NEW n \in Nat \ {0}
    PROVE  (x + 1) \div n = IF (x + 1) % n = 0 THEN (x \div n) + 1 ELSE x \div n
<1> DEFINE q == x \div n
           r == x % n
<1>1. q \in Int /\ r \in 0..n - 1 /\ x = (q * n) + r
  BY Remainder
<1> HIDE DEF q, r
<1>2. CASE r = n - 1
  <2>1. x + 1 = ((q + 1) * n) + 0
    BY <1>1, <1>2
  <2>2. (x + 1) \div n = q + 1 /\ (x + 1) % n = 0
    BY <1>1, <2>1, RemainderUnique
  <2> QED BY <2>2, Zenon DEF q
<1>3. CASE r # n - 1
  <2>1. x + 1 = (q * n) + (r + 1) /\ r + 1 \in 0..n - 1
    BY <1>1, <1>3
  <2>2. (x + 1) \div n = q /\ (x + 1) % n = r + 1
    BY <1>1, <2>1, RemainderUnique
  <2>3. r + 1 # 0
    BY <1>1
  <2> QED BY <2>2, <2>3, Zenon DEF q
<1> QED BY <1>2, <1>3, Zenon

\* A multiple of n taken off does not change the remainder.
LEMMA SameRemainder ==
    ASSUME NEW x \in Nat, NEW m \in Nat, NEW n \in Nat \ {0}, m % n = 0
    PROVE  (x - m) % n = x % n
<1> DEFINE q == x \div n
           r == x % n
           p == m \div n
<1>1. q \in Int /\ r \in 0..n - 1 /\ x = (q * n) + r /\ p \in Int /\ m = p * n
  <2>1. m = (p * n) + (m % n) /\ p \in Int
    BY Remainder
  <2>2. q \in Int /\ r \in 0..n - 1 /\ x = (q * n) + r
    BY Remainder
  <2> QED BY <2>1, <2>2
<1> HIDE DEF q, r, p
<1>2. x - m = ((q - p) * n) + r
  BY <1>1
<1>3. (x - m) % n = r
  BY <1>1, <1>2, RemainderUnique
<1> QED BY <1>3, Zenon DEF r

\* A full bucket covers the cost of one operation.
LEMMA CapacityCovers == CapacityMt \in Nat /\ CostMt \in Nat /\ CostMt <= CapacityMt
<1>1. BurstOps * CostMt >= CostMt /\ BurstOps * CostMt \in Nat
  BY RateAssumption
<1> QED BY <1>1, RateAssumption, Zenon DEF CapacityMt

-------------------------------------------------------------------------------
(* One bucket.                                                               *)

\* What a bucket holds is between zero and its capacity.
LEMMA TokensBounded ==
    ASSUME NEW t \in Nat, NEW b, b.millitokens \in 0..CapacityMt, b.last \in 0..t
    PROVE  TokensAt(b, t) \in 0..CapacityMt
<1>1. (t - b.last) * PerSec \in Nat
  BY RateAssumption
<1> HIDE DEF CapacityMt
<1>2. CapacityMt \in Nat
  BY CapacityCovers, Zenon
<1> DEFINE gained == (t - b.last) * PerSec
<1> HIDE DEF gained
<1>3. gained \in Nat /\ TokensAt(b, t) = Least(b.millitokens + gained, CapacityMt)
  BY <1>1, Zenon DEF gained, TokensAt
<1> QED BY <1>2, <1>3 DEF Least

\* A millisecond later it holds PerSec more, up to its capacity.
LEMMA TokensGrow ==
    ASSUME NEW t \in Nat, NEW b, b.millitokens \in 0..CapacityMt, b.last \in 0..t
    PROVE  TokensAt(b, t + 1) = Least(TokensAt(b, t) + PerSec, CapacityMt)
<1> DEFINE gained == (t - b.last) * PerSec
<1>1. gained \in Nat /\ (t + 1 - b.last) * PerSec = gained + PerSec /\ PerSec \in Nat
  <2>1. b.last \in Nat /\ t - b.last \in Nat /\ PerSec \in Nat
    BY RateAssumption
  <2>2. \A x, p \in Nat : x * p \in Nat /\ (x + 1) * p = x * p + p
    OBVIOUS
  <2>3. t + 1 - b.last = (t - b.last) + 1
    BY <2>1
  <2> QED BY <2>1, <2>2, <2>3, Zenon
<1>2. CapacityMt \in Nat
  BY CapacityCovers, Zenon
<1>3. TokensAt(b, t) = Least(b.millitokens + gained, CapacityMt)
  BY Zenon DEF TokensAt
<1> HIDE DEF gained
<1>4. TokensAt(b, t + 1) = Least(b.millitokens + (gained + PerSec), CapacityMt)
  BY <1>1 DEF TokensAt
<1> QED BY <1>1, <1>2, <1>3, <1>4 DEF Least

\* At the moment of its refill it holds what is written in it.
LEMMA TokensNow ==
    ASSUME NEW t \in Nat, NEW n \in 0..CapacityMt
    PROVE  TokensAt([millitokens |-> n, last |-> t], t) = n
<1>1. (t - t) * PerSec = 0
  BY RateAssumption
<1>2. CapacityMt \in Nat
  BY CapacityCovers, Zenon
<1> QED BY <1>1, <1>2 DEF TokensAt, Least

\* try_take leaves the refilled bucket, less the cost if it covers it.
LEMMA TakenTokens ==
    ASSUME NEW t \in Nat, NEW b, b.millitokens \in 0..CapacityMt, b.last \in 0..t
    PROVE  /\ Taken(b, t).millitokens \in 0..CapacityMt /\ Taken(b, t).last = t
           /\ Taken(b, t) = [millitokens |-> Taken(b, t).millitokens, last |-> t]
           /\ TokensAt(Taken(b, t), t) =
                IF TokensAt(b, t) >= CostMt THEN TokensAt(b, t) - CostMt ELSE TokensAt(b, t)
<1>1. TokensAt(b, t) \in 0..CapacityMt /\ CostMt \in Nat /\ CapacityMt \in Nat
  BY TokensBounded, CapacityCovers, Zenon
<1> DEFINE n == IF TokensAt(b, t) >= CostMt THEN TokensAt(b, t) - CostMt ELSE TokensAt(b, t)
<1>2. n \in 0..CapacityMt
  BY <1>1
<1>3. Taken(b, t) = [millitokens |-> n, last |-> t]
  BY Zenon DEF Taken, Covers
<1> HIDE DEF n
<1>4. TokensAt(Taken(b, t), t) = n
  BY <1>2, <1>3, TokensNow, Zenon
<1> QED BY <1>2, <1>3, <1>4 DEF n

\* Budgets counts a set as RateLimiter does.
LEMMA SameCount == \A S : Eager!Cardinality(S) = Cardinality(S)
BY Zenon DEF Eager!Cardinality, Cardinality

\* A bucket of the table, seen from a state of the program.
LEMMA BucketOf ==
    ASSUME RateInv, NEW k \in DOMAIN buckets
    PROVE  /\ k \in SourceKeys /\ buckets[k].millitokens \in 0..CapacityMt /\ buckets[k].last \in 0..now
           /\ TokensAt(buckets[k], now) \in 0..CapacityMt /\ LazyTokens[k] = TokensAt(buckets[k], now)
<1>1. k \in SourceKeys /\ buckets[k].millitokens \in 0..CapacityMt /\ buckets[k].last \in 0..now /\ now \in Nat
  BY Zenon DEF RateInv, BucketState
<1>2. TokensAt(buckets[k], now) \in 0..CapacityMt
  BY <1>1, TokensBounded, Zenon
<1> QED BY <1>1, <1>2, Zenon DEF LazyTokens

\* The sources short of their burst are the buckets collect keeps.
LEMMA ShortAreKept ==
    ASSUME RateInv
    PROVE  /\ {j \in SourceKeys : LazyTokens[j] < CapacityMt} = Kept(now)
           /\ Kept(now) \in SUBSET DOMAIN buckets
           /\ IsFiniteSet(DOMAIN buckets) /\ IsFiniteSet(Kept(now))
<1>1. ASSUME NEW j \in SourceKeys
      PROVE  LazyTokens[j] < CapacityMt <=> j \in Kept(now)
  <2>1. CASE j \in DOMAIN buckets
    <3>1. TokensAt(buckets[j], now) \in 0..CapacityMt /\ LazyTokens[j] = TokensAt(buckets[j], now)
      BY <2>1, BucketOf, Zenon
    <3>2. CapacityMt \in Nat
      BY CapacityCovers, Zenon
    <3> QED BY <2>1, <3>1, <3>2 DEF Kept, IsFull
  <2>2. CASE j \notin DOMAIN buckets
    <3>1. LazyTokens[j] = CapacityMt /\ CapacityMt \in Nat
      BY <2>2, CapacityCovers, Zenon DEF LazyTokens
    <3> QED BY <2>2, <3>1 DEF Kept
  <2> QED BY <2>1, <2>2, Zenon
<1>2. Kept(now) \in SUBSET DOMAIN buckets /\ DOMAIN buckets \in SUBSET SourceKeys
  BY Zenon DEF Kept, RateInv
<1>3. IsFiniteSet(DOMAIN buckets)
  BY <1>2, RateAssumption, FS_Subset, Zenon
<1>4. IsFiniteSet(Kept(now))
  BY <1>2, <1>3, FS_Subset, Zenon
<1>5. {j \in SourceKeys : LazyTokens[j] < CapacityMt} = Kept(now)
  BY <1>1, <1>2, Zenon
<1> QED BY <1>2, <1>3, <1>4, <1>5, Zenon

-------------------------------------------------------------------------------
(* One lemma per action: the invariant, and the step of Budgets it is.       *)

\* The budget of evictions, and what a refill makes of it.
LEMMA RefillFacts ==
    ASSUME RateInv
    PROVE  /\ now \in Nat /\ lastRefill \in Nat /\ now - lastRefill \in Nat
           /\ available \in 0..Burst /\ Burst \in Nat /\ Interval \in Nat \ {0}
           /\ (now - lastRefill) \div Interval \in Nat
           /\ LazyEvictions \in 0..Burst
<1>1. /\ now \in Nat /\ lastRefill \in Nat /\ now - lastRefill \in Nat
      /\ available \in 0..Burst /\ Burst \in Nat /\ Interval \in Nat \ {0}
  BY RateAssumption DEF RateInv
<1>2. (now - lastRefill) \div Interval \in Nat
  BY <1>1
<1>3. LazyEvictions \in 0..Burst
  BY <1>1, <1>2 DEF LazyEvictions, Least
<1> QED BY <1>1, <1>2, <1>3, Zenon

\* A millisecond passes: every lazy budget grows as the eager one.
LEMMA TickKeeps ==
    ASSUME RateInv, RateTick
    PROVE  RateInv' /\ Eager!Grow
<1>1. /\ now < MaxRateTime /\ now' = now + 1 /\ ruling' = "none" /\ buckets' = buckets
      /\ available' = available /\ lastRefill' = lastRefill
  BY Zenon DEF RateTick
<1>2. RateInv'
  BY <1>1 DEF RateInv, BucketState
<1>3. LazyTokens' = [k \in SourceKeys |-> Least(LazyTokens[k] + PerSec, CapacityMt)]
  <2>1. ASSUME NEW k \in SourceKeys
        PROVE  (IF k \in DOMAIN buckets' THEN TokensAt(buckets'[k], now') ELSE CapacityMt)
                 = Least(LazyTokens[k] + PerSec, CapacityMt)
    <3>1. CASE k \in DOMAIN buckets
      <4>1. TokensAt(buckets[k], now + 1) = Least(TokensAt(buckets[k], now) + PerSec, CapacityMt)
        BY <3>1, BucketOf, TokensGrow, Zenon DEF RateInv
      <4>2. LazyTokens[k] = TokensAt(buckets[k], now)
        BY <3>1, BucketOf, Zenon
      <4> QED BY <1>1, <3>1, <4>1, <4>2, Zenon
    <3>2. CASE k \notin DOMAIN buckets
      <4>1. LazyTokens[k] = CapacityMt
        BY <3>2, Zenon DEF LazyTokens
      <4>2. Least(CapacityMt + PerSec, CapacityMt) = CapacityMt
        BY CapacityCovers, RateAssumption DEF Least
      <4> QED BY <1>1, <3>2, <4>1, <4>2, Zenon
    <3> QED BY <3>1, <3>2, Zenon
  <2>2. LazyTokens' = [k \in SourceKeys |-> IF k \in DOMAIN buckets' THEN TokensAt(buckets'[k], now') ELSE CapacityMt]
    BY Zenon DEF LazyTokens, TokensAt, Least
  <2> QED BY <2>1, <2>2, Zenon
<1>4. LazyEvictions' = IF (now + 1) % Interval = 0 THEN Least(LazyEvictions + 1, Burst) ELSE LazyEvictions
  <2> DEFINE x == now - lastRefill
             q == x \div Interval
  <2>1. x \in Nat /\ q \in Nat /\ available \in 0..Burst /\ Burst \in Nat /\ Interval \in Nat \ {0} /\ now + 1 \in Nat
    BY RefillFacts
  <2>2. (x + 1) \div Interval = IF (x + 1) % Interval = 0 THEN q + 1 ELSE q
    BY <2>1, QuotientGrows, Zenon
  <2>3. (x + 1) % Interval = (now + 1) % Interval
    <3>1. x + 1 = (now + 1) - lastRefill
      BY RefillFacts
    <3> QED BY <2>1, <3>1, RefillFacts, SameRemainder DEF RateInv
  <2>4. LazyEvictions' = Least(available + ((x + 1) \div Interval), Burst)
    <3>1. now' - lastRefill' = x + 1
      BY <1>1, RefillFacts
    <3>2. LazyEvictions' = Least(available' + ((now' - lastRefill') \div Interval), Burst)
      BY Zenon DEF LazyEvictions, Least
    <3> QED BY <1>1, <3>1, <3>2, Zenon
  <2>5. LazyEvictions = Least(available + q, Burst)
    BY Zenon DEF LazyEvictions
  <2> HIDE DEF q, x
  <2>6. CASE (now + 1) % Interval = 0
    <3>1. LazyEvictions' = Least(available + (q + 1), Burst)
      BY <2>2, <2>3, <2>4, <2>6, Zenon
    <3>2. Least(available + (q + 1), Burst) = Least(Least(available + q, Burst) + 1, Burst)
      BY <2>1 DEF Least
    <3> QED BY <2>5, <2>6, <3>1, <3>2, Zenon
  <2>7. CASE (now + 1) % Interval # 0
    BY <2>2, <2>3, <2>4, <2>5, <2>7, Zenon
  <2> QED BY <2>6, <2>7, Zenon
<1> QED BY <1>1, <1>2, <1>3, <1>4, Zenon DEF Eager!Grow, Eager!Least, Least

\* A known source: its bucket is refilled and charged.
LEMMA KnownKeeps ==
    ASSUME RateInv, NEW k \in SourceKeys, AllowKnown(k)
    PROVE  RateInv' /\ Eager!Charge(k)
<1>1. /\ k \in DOMAIN buckets /\ buckets' = [buckets EXCEPT ![k] = Taken(buckets[k], now)]
      /\ ruling' = (IF Covers(buckets[k], now) THEN "allowed" ELSE "denied")
      /\ now' = now /\ available' = available /\ lastRefill' = lastRefill
  BY Zenon DEF AllowKnown, Answer
<1> DEFINE b == buckets[k]
           t == Taken(b, now)
<1>2. /\ now \in Nat /\ b.millitokens \in 0..CapacityMt /\ b.last \in 0..now
      /\ TokensAt(b, now) \in 0..CapacityMt /\ LazyTokens[k] = TokensAt(b, now)
  BY <1>1, BucketOf, Zenon DEF RateInv
<1>3. /\ t.millitokens \in 0..CapacityMt /\ t.last = now /\ t = [millitokens |-> t.millitokens, last |-> now]
      /\ TokensAt(t, now) = IF TokensAt(b, now) >= CostMt THEN TokensAt(b, now) - CostMt ELSE TokensAt(b, now)
  BY <1>2, TakenTokens, Zenon
<1> HIDE DEF t
<1>4. DOMAIN buckets' = DOMAIN buckets /\ \A j \in DOMAIN buckets : buckets'[j] = IF j = k THEN t ELSE buckets[j]
  BY <1>1, Zenon DEF t
<1>5. t \in BucketState
  BY <1>2, <1>3 DEF BucketState
<1>6. RateInv'
  <2>1. \A j \in DOMAIN buckets' : buckets'[j] \in BucketState'
    BY <1>1, <1>4, <1>5, Zenon DEF RateInv, BucketState
  <2>2. buckets' = [j \in DOMAIN buckets' |-> buckets'[j]]
    BY <1>1, Zenon DEF RateInv
  <2> QED BY <1>1, <1>4, <2>1, <2>2, Zenon DEF RateInv
<1>7. LazyEvictions' = LazyEvictions
  BY <1>1, Zenon DEF LazyEvictions
<1>8. LazyTokens' = [LazyTokens EXCEPT ![k] = TokensAt(t, now)]
  <2>1. LazyTokens' = [j \in SourceKeys |-> IF j \in DOMAIN buckets' THEN TokensAt(buckets'[j], now') ELSE CapacityMt]
    BY Zenon DEF LazyTokens, TokensAt, Least
  <2>2. LazyTokens = [j \in SourceKeys |-> IF j \in DOMAIN buckets THEN TokensAt(buckets[j], now) ELSE CapacityMt]
    BY Zenon DEF LazyTokens
  <2>3. ASSUME NEW j \in SourceKeys
        PROVE  (IF j \in DOMAIN buckets' THEN TokensAt(buckets'[j], now') ELSE CapacityMt)
                 = IF j = k THEN TokensAt(t, now) ELSE LazyTokens[j]
    BY <1>1, <1>4, <2>2, <2>3, Zenon
  <2>4. DOMAIN LazyTokens = SourceKeys
    BY <2>2, Zenon
  <2> QED BY <2>1, <2>2, <2>3, <2>4, Zenon
<1>9. ~Eager!Crowded(k)
  <2>1. SUFFICES ASSUME LazyTokens[k] = CapacityMt
                 PROVE  ~(Cardinality({j \in SourceKeys : LazyTokens[j] < CapacityMt}) >= MaxBuckets)
    BY SameCount, Zenon DEF Eager!Crowded
  <2>2. /\ {j \in SourceKeys : LazyTokens[j] < CapacityMt} = Kept(now)
        /\ Kept(now) \in SUBSET DOMAIN buckets /\ IsFiniteSet(DOMAIN buckets)
    BY ShortAreKept, Zenon
  <2>3. k \notin Kept(now)
    <3>1. ~(LazyTokens[k] < CapacityMt)
      BY <2>1, CapacityCovers
    <3> QED BY <2>2, <3>1, Zenon
  <2>4. Kept(now) \in SUBSET (DOMAIN buckets \ {k})
    BY <2>2, <2>3, Zenon
  <2>5. /\ IsFiniteSet(DOMAIN buckets \ {k}) /\ Cardinality(DOMAIN buckets \ {k}) = Cardinality(DOMAIN buckets) - 1
        /\ Cardinality(DOMAIN buckets) \in Nat /\ Cardinality(DOMAIN buckets \ {k}) \in Nat
    BY <1>1, <2>2, FS_RemoveElement, FS_CardinalityType, Zenon
  <2>6. Cardinality(Kept(now)) <= Cardinality(DOMAIN buckets \ {k}) /\ Cardinality(Kept(now)) \in Nat
    BY <2>4, <2>5, FS_Subset, FS_CardinalityType, Zenon
  <2>7. Cardinality(DOMAIN buckets) <= MaxBuckets /\ MaxBuckets \in Nat
    BY RateAssumption, Zenon DEF RateInv
  <2>8. PICK held \in Nat, rest \in Nat, short \in Nat :
          /\ held = Cardinality(DOMAIN buckets) /\ short = Cardinality(Kept(now))
          /\ rest = Cardinality(DOMAIN buckets \ {k})
    BY <2>5, <2>6, Zenon
  <2>9. rest = held - 1 /\ short <= rest /\ held <= MaxBuckets
    BY <2>5, <2>6, <2>7, <2>8, Zenon
  <2>10. ~(short >= MaxBuckets)
    BY <2>7, <2>9
  <2> QED BY <2>2, <2>8, <2>10, Zenon
<1>10. LazyTokens = [LazyTokens EXCEPT ![k] = LazyTokens[k]]
  BY Zenon DEF LazyTokens
<1>11. TokensAt(b, now) \in Int /\ CostMt \in Int
  BY <1>2, CapacityCovers
<1>12. CASE TokensAt(b, now) >= CostMt
  <2>1. ruling' = "allowed" /\ LazyTokens' = [LazyTokens EXCEPT ![k] = LazyTokens[k] - CostMt]
    BY <1>1, <1>2, <1>3, <1>8, <1>12, Zenon DEF Covers
  <2> QED BY <1>1, <1>2, <1>6, <1>7, <1>9, <1>12, <2>1, Zenon DEF Eager!Charge
<1>13. CASE ~(TokensAt(b, now) >= CostMt)
  <2>1. ruling' = "denied" /\ LazyTokens' = LazyTokens /\ LazyTokens[k] < CostMt
    BY <1>1, <1>2, <1>3, <1>8, <1>10, <1>11, <1>13 DEF Covers
  <2> QED BY <1>1, <1>6, <1>7, <2>1, Zenon DEF Eager!Charge
<1> QED BY <1>12, <1>13, Zenon

\* A new source: full buckets make room for it, and it is refused when there are none.
LEMMA NewKeeps ==
    ASSUME RateInv, NEW k \in SourceKeys, AllowNew(k)
    PROVE  RateInv' /\ Eager!Charge(k)
<1> DEFINE full == Cardinality(DOMAIN buckets) >= MaxBuckets
           kept == IF full THEN Kept(now) ELSE DOMAIN buckets
           room == Cardinality(kept) < MaxBuckets
           t == Taken(FullBucket(now), now)
<1>1. /\ k \notin DOMAIN buckets
      /\ buckets' = [j \in kept \cup (IF room THEN {k} ELSE {}) |-> IF j = k THEN t ELSE buckets[j]]
      /\ ruling' = (IF room /\ Covers(FullBucket(now), now) THEN "allowed" ELSE "denied")
      /\ now' = now /\ available' = available /\ lastRefill' = lastRefill
  BY Zenon DEF AllowNew, Answer
<1>2. /\ {j \in SourceKeys : LazyTokens[j] < CapacityMt} = Kept(now)
      /\ Kept(now) \in SUBSET DOMAIN buckets /\ IsFiniteSet(DOMAIN buckets) /\ IsFiniteSet(Kept(now))
  BY ShortAreKept, Zenon
<1>3. now \in Nat /\ CapacityMt \in Nat /\ CostMt \in Nat /\ CostMt <= CapacityMt
  BY CapacityCovers, Zenon DEF RateInv
<1>4. TokensAt(FullBucket(now), now) = CapacityMt /\ Covers(FullBucket(now), now)
  BY <1>3, TokensNow DEF FullBucket, Covers
<1>5. /\ t.millitokens \in 0..CapacityMt /\ t.last = now /\ t = [millitokens |-> t.millitokens, last |-> now]
      /\ TokensAt(t, now) = CapacityMt - CostMt
  <2>1. FullBucket(now).millitokens \in 0..CapacityMt /\ FullBucket(now).last \in 0..now
    BY <1>3 DEF FullBucket
  <2> QED BY <1>3, <1>4, <2>1, TakenTokens, Zenon
<1> HIDE DEF t
<1>6. t \in BucketState
  BY <1>3, <1>5 DEF BucketState
<1>7. /\ kept \in SUBSET DOMAIN buckets /\ Kept(now) \in SUBSET kept /\ IsFiniteSet(kept)
  BY <1>2, Zenon
<1>8. /\ Cardinality(Kept(now)) \in Nat /\ Cardinality(kept) \in Nat /\ Cardinality(DOMAIN buckets) \in Nat
      /\ Cardinality(Kept(now)) <= Cardinality(kept) /\ Cardinality(kept) <= Cardinality(DOMAIN buckets)
  BY <1>2, <1>7, FS_Subset, FS_CardinalityType, Zenon
<1>9. Cardinality(DOMAIN buckets) <= MaxBuckets /\ MaxBuckets \in Nat
  BY RateAssumption, Zenon DEF RateInv
<1>10. room <=> Cardinality(Kept(now)) < MaxBuckets
  <2>1. CASE full
    BY <2>1, Zenon
  <2>2. CASE ~full
    <3>1. kept = DOMAIN buckets
      BY <2>2, Zenon
    <3> HIDE DEF kept
    <3> QED BY <1>8, <1>9, <2>2, <3>1
  <2> QED BY <2>1, <2>2, Zenon
<1>11. Eager!Crowded(k) <=> ~room
  <2>1. LazyTokens[k] = CapacityMt
    BY <1>1, Zenon DEF LazyTokens
  <2>2. Eager!Crowded(k) <=> Cardinality(Kept(now)) >= MaxBuckets
    BY <1>2, <2>1, SameCount, Zenon DEF Eager!Crowded
  <2> HIDE DEF room
  <2> QED BY <1>8, <1>9, <1>10, <2>2
<1> HIDE DEF kept, room, full
<1>12. LazyEvictions' = LazyEvictions
  BY <1>1, Zenon DEF LazyEvictions
<1>13. ASSUME NEW j \in SourceKeys, j \in DOMAIN buckets, j \notin kept
       PROVE  LazyTokens[j] = CapacityMt
  <2>1. ~(LazyTokens[j] < CapacityMt)
    BY <1>2, <1>7, <1>13, Zenon
  <2>2. LazyTokens[j] \in 0..CapacityMt
    BY <1>13, BucketOf, Zenon
  <2> QED BY <1>3, <2>1, <2>2
<1>14. LazyTokens' = [j \in SourceKeys |-> IF room /\ j = k THEN CapacityMt - CostMt ELSE LazyTokens[j]]
  <2>1. LazyTokens' = [j \in SourceKeys |-> IF j \in DOMAIN buckets' THEN TokensAt(buckets'[j], now') ELSE CapacityMt]
    BY Zenon DEF LazyTokens, TokensAt, Least
  <2>2. ASSUME NEW j \in SourceKeys
        PROVE  (IF j \in DOMAIN buckets' THEN TokensAt(buckets'[j], now') ELSE CapacityMt)
                 = IF room /\ j = k THEN CapacityMt - CostMt ELSE LazyTokens[j]
    <3>1. CASE j = k
      <4>1. j \in DOMAIN buckets' <=> room
        BY <1>1, <1>7, <3>1, Zenon
      <4>2. room => buckets'[j] = t
        BY <1>1, <3>1, Zenon
      <4>3. LazyTokens[j] = CapacityMt
        BY <1>1, <3>1, Zenon DEF LazyTokens
      <4> QED BY <1>1, <1>5, <3>1, <4>1, <4>2, <4>3, Zenon
    <3>2. CASE j # k /\ j \in kept
      <4>1. j \in DOMAIN buckets' /\ buckets'[j] = buckets[j] /\ j \in DOMAIN buckets
        BY <1>1, <1>7, <3>2, Zenon
      <4> QED BY <1>1, <3>2, <4>1, Zenon DEF LazyTokens
    <3>3. CASE j # k /\ j \notin kept
      <4>1. j \notin DOMAIN buckets'
        BY <1>1, <3>3, Zenon
      <4>2. LazyTokens[j] = CapacityMt
        BY <1>13, <3>3, Zenon DEF LazyTokens
      <4> QED BY <3>3, <4>1, <4>2, Zenon
    <3> QED BY <3>1, <3>2, <3>3, Zenon
  <2> QED BY <2>1, <2>2, Zenon
<1>15. RateInv'
  <2>1. DOMAIN buckets' = kept \cup (IF room THEN {k} ELSE {}) /\ buckets' = [j \in DOMAIN buckets' |-> buckets'[j]]
    BY <1>1, Zenon
  <2>2. DOMAIN buckets' \in SUBSET SourceKeys
    BY <1>7, <2>1, Zenon DEF RateInv
  <2>3. \A j \in DOMAIN buckets' : buckets'[j] \in BucketState'
    <3>1. \A j \in kept : buckets[j] \in BucketState
      BY <1>7, Zenon DEF RateInv
    <3>2. BucketState' = BucketState
      BY <1>1, Zenon DEF BucketState
    <3> QED BY <1>1, <1>6, <2>1, <3>1, <3>2, Zenon
  <2>4. Cardinality(DOMAIN buckets') <= MaxBuckets
    <3>1. CASE room
      <4>1. Cardinality(kept \cup {k}) = Cardinality(kept) + 1
        BY <1>1, <1>7, FS_AddElement, Zenon
      <4>2. Cardinality(kept) < MaxBuckets
        BY <3>1, Zenon DEF room
      <4> QED BY <1>8, <1>9, <2>1, <3>1, <4>1, <4>2
    <3>2. CASE ~room
      <4>1. DOMAIN buckets' = kept
        BY <2>1, <3>2, Zenon
      <4> QED BY <1>8, <1>9, <4>1
    <3> QED BY <3>1, <3>2, Zenon
  <2> QED BY <1>1, <2>1, <2>2, <2>3, <2>4, Zenon DEF RateInv
<1>16. LazyTokens[k] = CapacityMt
  BY <1>1, Zenon DEF LazyTokens
<1>17. CASE room
  <2>1. LazyTokens' = [LazyTokens EXCEPT ![k] = LazyTokens[k] - CostMt]
    BY <1>14, <1>16, <1>17, Zenon DEF LazyTokens
  <2>2. ruling' = "allowed" /\ LazyTokens[k] >= CostMt /\ ~Eager!Crowded(k)
    BY <1>1, <1>3, <1>4, <1>11, <1>16, <1>17, Zenon
  <2> QED BY <1>1, <1>12, <1>15, <2>1, <2>2, Zenon DEF Eager!Charge
<1>18. CASE ~room
  <2>1. LazyTokens' = LazyTokens
    <3>1. LazyTokens = [j \in SourceKeys |-> LazyTokens[j]]
      BY Zenon DEF LazyTokens
    <3> QED BY <1>14, <1>18, <3>1, Zenon
  <2> QED BY <1>1, <1>11, <1>12, <1>15, <1>18, <2>1, Zenon DEF Eager!Charge
<1> QED BY <1>17, <1>18, Zenon

\* The eviction budget: refilled by whole intervals, with the remainder kept.
LEMMA TakeManyKeeps ==
    ASSUME RateInv, NEW n \in 1..(Burst + 1), TryTakeMany(n)
    PROVE  RateInv' /\ Eager!Spend(n)
<1> DEFINE refills == (now - lastRefill) \div Interval
           filled == IF refills = 0 THEN available ELSE Least(available + refills, Burst)
<1>1. /\ now \in Nat /\ lastRefill \in Nat /\ now - lastRefill \in Nat
      /\ available \in 0..Burst /\ Burst \in Nat /\ Interval \in Nat \ {0}
      /\ refills \in Nat /\ LazyEvictions \in 0..Burst
  BY RefillFacts, Zenon
<1>2. filled = LazyEvictions
  BY <1>1 DEF LazyEvictions, Least
<1>3. /\ now' = now /\ buckets' = buckets
  BY Zenon DEF TryTakeMany
<1>4. LazyTokens' = LazyTokens
  BY <1>3, Zenon DEF LazyTokens
<1>5. CASE n > Burst
  <2>1. available' = available /\ lastRefill' = lastRefill /\ ruling' = "denied"
    BY <1>5, Zenon DEF TryTakeMany, Answer
  <2>2. RateInv'
    BY <1>3, <2>1, Zenon DEF RateInv, BucketState
  <2>3. LazyEvictions' = LazyEvictions
    BY <1>3, <2>1, Zenon DEF LazyEvictions
  <2>4. LazyEvictions < n
    BY <1>1, <1>5
  <2> QED BY <1>3, <1>4, <2>1, <2>2, <2>3, <2>4, Zenon DEF Eager!Spend
<1>6. CASE ~(n > Burst)
  <2>1. /\ lastRefill' = lastRefill + refills * Interval
        /\ available' = (IF filled < n THEN filled ELSE filled - n)
        /\ ruling' = (IF filled >= n THEN "allowed" ELSE "denied")
    BY <1>6, Zenon DEF TryTakeMany, Answer
  <2> DEFINE r == (now - lastRefill) % Interval
  <2>2. r \in 0..Interval - 1 /\ now - lastRefill = (refills * Interval) + r
    <3> DEFINE x == now - lastRefill
    <3>1. x \in Int
      BY <1>1
    <3>2. x % Interval \in 0..Interval - 1 /\ x = ((x \div Interval) * Interval) + (x % Interval)
      <4> HIDE DEF x
      <4> QED BY <1>1, <3>1, Remainder, Zenon
    <3> QED BY <3>2, Zenon
  <2>3. refills * Interval \in Nat
    BY <1>1
  <2>4. lastRefill' \in 0..now /\ now - lastRefill' = r
    <3> HIDE DEF r, refills
    <3> DEFINE m == refills * Interval
    <3>1. m \in Nat /\ lastRefill' = lastRefill + m /\ now - lastRefill = m + r
      BY <2>1, <2>2, <2>3, Zenon
    <3> HIDE DEF m
    <3> QED BY <1>1, <2>2, <3>1
  <2>5. lastRefill' % Interval = 0
    <3> DEFINE p == lastRefill \div Interval
    <3>1. p \in Int /\ lastRefill = p * Interval
      <4>1. p \in Int /\ lastRefill = (p * Interval) + (lastRefill % Interval)
        BY <1>1, Remainder
      <4> QED BY <1>1, <4>1 DEF RateInv
    <3> HIDE DEF p, refills, filled
    <3> DEFINE q == p + refills
    <3>2. lastRefill' = (q * Interval) + 0
      BY <1>1, <2>1, <3>1
    <3>3. q \in Int /\ 0 \in 0..Interval - 1 /\ lastRefill' \in Int
      BY <1>1, <2>4, <3>1
    <3> HIDE DEF q
    <3>4. ASSUME NEW x \in Int, x = (q * Interval) + 0
          PROVE  x % Interval = 0
      BY <1>1, <3>3, <3>4, RemainderUnique
    <3> QED BY <3>2, <3>3, <3>4, Zenon
  <2>6. r \div Interval = 0
    <3> HIDE DEF r
    <3>1. r = (0 * Interval) + r /\ r \in Int
      BY <1>1, <2>2
    <3> QED BY <1>1, <2>2, <3>1, RemainderUnique
  <2> HIDE DEF refills, filled, r
  <2>7. available' \in 0..Burst
    BY <1>1, <1>2, <2>1
  <2>8. RateInv'
    BY <1>3, <2>4, <2>5, <2>7, Zenon DEF RateInv, BucketState
  <2>9. LazyEvictions' = available'
    <3>1. LazyEvictions' = Least(available' + ((now' - lastRefill') \div Interval), Burst)
      BY Zenon DEF LazyEvictions, Least
    <3>2. LazyEvictions' = Least(available' + 0, Burst)
      BY <1>3, <2>4, <2>6, <3>1, Zenon
    <3>3. available' + 0 = available' /\ available' <= Burst
      <4>1. \A a \in 0..Burst : a + 0 = a /\ a <= Burst
        BY RateAssumption
      <4> QED BY <2>7, <4>1, Zenon
    <3>4. Least(available', Burst) = available'
      BY <3>3, Zenon DEF Least
    <3> QED BY <3>2, <3>3, <3>4, Zenon
  <2>10. CASE LazyEvictions >= n
    BY <1>1, <1>2, <1>3, <1>4, <2>1, <2>8, <2>9, <2>10 DEF Eager!Spend
  <2>11. CASE LazyEvictions < n
    BY <1>1, <1>2, <1>3, <1>4, <2>1, <2>8, <2>9, <2>11 DEF Eager!Spend
  <2> QED BY <1>1, <2>10, <2>11
<1> QED BY <1>5, <1>6, Zenon

-------------------------------------------------------------------------------
\* At the start every budget is full and the table is empty.
LEMMA RateInitial == RateInit => RateInv /\ Eager!BudgetsInit
<1> SUFFICES ASSUME RateInit PROVE RateInv /\ Eager!BudgetsInit
  BY Zenon
<1>1. now = 0 /\ DOMAIN buckets = {} /\ available = Burst /\ lastRefill = 0 /\ ruling = "none"
  BY Zenon DEF RateInit
<1>2. buckets = [k \in DOMAIN buckets |-> buckets[k]]
  BY Zenon DEF RateInit
<1>3. Cardinality(DOMAIN buckets) <= MaxBuckets
  BY <1>1, RateAssumption, FS_EmptySet
<1>4. 0 % Interval = 0 /\ 0 \div Interval = 0
  BY RateAssumption
<1>5. RateInv
  BY <1>1, <1>2, <1>3, <1>4, RateAssumption DEF RateInv
<1>6. LazyTokens = [k \in SourceKeys |-> CapacityMt]
  BY <1>1, Zenon DEF LazyTokens
<1>7. LazyEvictions = Burst
  BY <1>1, <1>4, RateAssumption DEF LazyEvictions, Least
<1> QED BY <1>1, <1>5, <1>6, <1>7, Zenon DEF Eager!BudgetsInit

\* Every step keeps the invariant and is a step of Budgets, or changes nothing it sees.
LEMMA RateStep ==
    RateInv /\ [RateNext]_rateVars
      => RateInv' /\ [Eager!BudgetsNext]_<<now, LazyTokens, LazyEvictions, ruling>>
<1> SUFFICES ASSUME RateInv, [RateNext]_rateVars
             PROVE  RateInv' /\ [Eager!BudgetsNext]_<<now, LazyTokens, LazyEvictions, ruling>>
  BY Zenon
<1>1. CASE RateTick
  BY <1>1, TickKeeps, Zenon DEF Eager!BudgetsNext
<1>2. ASSUME NEW k \in SourceKeys, AllowKnown(k) PROVE RateInv' /\ Eager!BudgetsNext
  BY <1>2, KnownKeeps, Zenon DEF Eager!BudgetsNext
<1>3. ASSUME NEW k \in SourceKeys, AllowNew(k) PROVE RateInv' /\ Eager!BudgetsNext
  BY <1>3, NewKeeps, Zenon DEF Eager!BudgetsNext
<1>4. ASSUME NEW n \in 1..(Burst + 1), TryTakeMany(n) PROVE RateInv' /\ Eager!BudgetsNext
  BY <1>4, TakeManyKeeps, Zenon DEF Eager!BudgetsNext
<1>5. CASE UNCHANGED rateVars
  <2>1. now' = now /\ buckets' = buckets /\ available' = available /\ lastRefill' = lastRefill /\ ruling' = ruling
    BY <1>5, Zenon DEF rateVars
  <2>2. RateInv'
    BY <2>1, Zenon DEF RateInv, BucketState
  <2>3. LazyTokens' = LazyTokens /\ LazyEvictions' = LazyEvictions
    BY <2>1, Zenon DEF LazyTokens, LazyEvictions
  <2> QED BY <2>1, <2>2, <2>3, Zenon
<1> QED BY <1>1, <1>2, <1>3, <1>4, <1>5, Zenon DEF RateNext

\* Lazy refills, the table that forgets full buckets and the interval budget grant and
\* refuse exactly what Budgets does, for every rate, burst, table size and interval.
THEOREM SpecImplementsBudgets == RateSpec => ImplementsBudgets
BY RateInitial, RateStep, PTL DEF RateSpec, ImplementsBudgets, Eager!BudgetsSpec
===============================================================================
