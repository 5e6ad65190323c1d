------------------------------ MODULE CookieGate ------------------------------
(* Cookies and load (cookie.rs, and the gate before handshake messages in      *)
(* lib.rs).  Node "i" initiates, node "r" responds; either may be under load   *)
(* and then answers a message without a valid mac2 with a cookie reply, which  *)
(* the sender's next message answers in turn.  A mac1 is the message's name; a *)
(* cookie is the secret and the source address it was made from.  Only ages    *)
(* matter to the code, so there are ages, up to the limit they are compared    *)
(* with.                                                                       *)
EXTENDS Naturals, FiniteSets, Optional

CONSTANTS
    GateAddrs,          \* source addresses of the initiator
    CookieRefreshTime,  \* in retransmission intervals
    HandshakesPerSec,   \* under_load_handshakes_per_sec
    MaxNames,           \* bound: names (mac1) and secrets in use together
    MaxWire,            \* bound: datagrams in the network when one is sent
    MaxLosses,          \* bound: messages lost, duplicated and addresses changed
    Loaded,             \* nodes that may be under load: the thresholds of the others
                        \* are out of reach, and their load is not kept
    Verdicts,           \* of the per-address rate limiter
    Prompt              \* TRUE: messages arrive or are lost within an interval

ASSUME GateAssumption ==
    /\ CookieRefreshTime \in Nat \ {0} /\ MaxNames \in Nat
    /\ Loaded \subseteq {"i", "r"}
    /\ GateAddrs # {} /\ None \notin [secret : Nat, addr : GateAddrs \cup {"r"}]

GateNodes == {"i", "r"}
OtherNode(n) == IF n = "i" THEN "r" ELSE "i"

VARIABLES
    gate,       \* node -> [secret, age, elapsed, count, prev, busy]
    sender,     \* node -> [mac1, cookie, cookieAge]: what it keeps for its peer
    addr,       \* the source address of the initiator
    wire,       \* datagrams: kind, name and sender; `of' is: the message replied to
    retry,      \* the retransmission deadline has passed
    through,    \* the initiator holds an accepted response
    losses,
    proofAge,   \* history: node -> address -> time since its cookie arrived there
    passAge     \* history: that time, at the latest message passed under load

gateVars == <<gate, sender, addr, wire, retry, through, losses, proofAge, passAge>>

AddrOf(n) == IF n = "i" THEN addr ELSE "r"
AllAddrs == GateAddrs \cup {"r"}

Cookies == {sender[n].cookie : n \in GateNodes} \cup {m.mac2 : m \in wire} \cup {m.cookie : m \in wire}
SecretsInUse == {gate[n].secret : n \in GateNodes} \cup {c.secret : c \in Cookies \ {None}}
FreshSecret == CHOOSE s \in 0..MaxNames : s \notin SecretsInUse
NamesInUse == {sender[n].mac1 : n \in GateNodes} \cup {m.name : m \in wire}
FreshName == CHOOSE k \in 0..MaxNames : k \notin NamesInUse
NamesLeft == \E k \in 0..MaxNames : k \notin NamesInUse
SecretsLeft == \E k \in 0..MaxNames : k \notin SecretsInUse

Older(a, limit) == IF a < limit THEN a + 1 ELSE a

-------------------------------------------------------------------------------
\* apply_macs: mac2 from the newest cookie while it is fresh.
Mac2(n) == IF sender[n].cookie # None /\ sender[n].cookieAge < CookieRefreshTime
           THEN sender[n].cookie ELSE None

GateMessage(n, kind, of) ==
    [kind |-> kind, name |-> FreshName, of |-> of, mac2 |-> Mac2(n), cookie |-> None,
     from |-> n, src |-> AddrOf(n)]

\* note_handshake_msg: the count of the window before, if it was the last one.
\* A count past the threshold is as good as any larger one.
Noted(g) ==
    LET next == IF g.elapsed >= 1
                THEN [g EXCEPT !.prev = IF g.elapsed < 2 THEN g.count ELSE 0, !.count = 0, !.elapsed = 0]
                ELSE g
    IN  [next EXCEPT !.count = IF @ <= HandshakesPerSec THEN @ + 1 ELSE @]

\* under_load: few free slots, or many messages in this window or the last.
UnderLoad(g) == g.busy \/ g.count > HandshakesPerSec \/ g.prev > HandshakesPerSec

\* Mutant: the secret is renewed after the check.
SecretKept(g) == g

\* CookieSecret::refresh.
SecretRefreshed(g) == IF g.age >= CookieRefreshTime THEN [g EXCEPT !.secret = FreshSecret, !.age = 0] ELSE g

CookieFor(g, a) == [secret |-> g.secret, addr |-> a]

\* create_cookie_reply: to the source, bound to the mac1 of the message.
CookieReply(g, m, n) ==
    [kind |-> "cookie", name |-> m.name, of |-> None, mac2 |-> None, cookie |-> CookieFor(g, m.src),
     from |-> n, src |-> m.src]

\* What the gate makes of message m at node n: its new state, whether the
\* message passes, and the reply.
Gate(n, m, allowed) ==
    LET g == Noted(gate[n])
        fresh == SecretRefreshed(g)
        proved == m.mac2 = CookieFor(fresh, m.src)
    IN  IF n \notin Loaded THEN [gate |-> gate[n], pass |-> TRUE, reply |-> {}, age |-> passAge]
        ELSE IF ~UnderLoad(g) THEN [gate |-> g, pass |-> TRUE, reply |-> {}, age |-> passAge]
        ELSE [gate |-> fresh, pass |-> proved /\ allowed,
              reply |-> IF proved THEN {} ELSE {CookieReply(fresh, m, n)},
              age |-> IF proved /\ allowed THEN proofAge[n][m.src] ELSE passAge]

\* Node n sends a handshake message; its mac1 is what a cookie must answer.
Record(n) == [sender EXCEPT ![n].mac1 = FreshName]

\* Mutant: the answer to a challenge is not sent (the cookie ends the retransmissions).
SendInitiationUnchallenged ==
    /\ retry /\ ~through /\ NamesLeft /\ Cardinality(wire) < MaxWire /\ sender["i"].cookie = None
    /\ wire' = wire \cup {GateMessage("i", "initiation", None)}
    /\ sender' = Record("i") /\ retry' = FALSE
    /\ UNCHANGED <<gate, addr, through, losses, proofAge, passAge>>

\* The initiator's first initiation and its retransmissions.
SendInitiation ==
    /\ retry /\ ~through /\ NamesLeft /\ Cardinality(wire) < MaxWire
    /\ wire' = wire \cup {GateMessage("i", "initiation", None)}
    /\ sender' = Record("i") /\ retry' = FALSE
    /\ UNCHANGED <<gate, addr, through, losses, proofAge, passAge>>

\* What stays in the network when m is delivered: the datagram may have been
\* duplicated.
Left(m, again) == IF again THEN wire ELSE wire \ {m}
Budgeted(again) == (again => losses < MaxLosses) /\ losses' = IF again THEN losses + 1 ELSE losses

\* rx_initiation at the responder, up to the response.
GateInitiation(m, allowed, again) ==
    LET out == Gate("r", m, allowed) IN
    /\ m \in wire /\ m.kind = "initiation" /\ NamesLeft /\ SecretsLeft /\ Budgeted(again)
    /\ gate' = [gate EXCEPT !["r"] = out.gate]
    /\ passAge' = out.age
    /\ wire' = Left(m, again) \cup out.reply
               \cup (IF out.pass THEN {GateMessage("r", "response", m.name)} ELSE {})
    /\ sender' = IF out.pass THEN Record("r") ELSE sender
    /\ UNCHANGED <<addr, retry, through, proofAge>>

\* rx_response at the initiator: past the gate, it must answer the initiation
\* the slot holds.
GateResponse(m, allowed, again) ==
    LET out == Gate("i", m, allowed) IN
    /\ m \in wire /\ m.kind = "response" /\ SecretsLeft /\ Budgeted(again)
    /\ gate' = [gate EXCEPT !["i"] = out.gate]
    /\ passAge' = out.age
    /\ wire' = Left(m, again) \cup out.reply
    /\ through' = (through \/ (out.pass /\ m.of = sender["i"].mac1))
    /\ UNCHANGED <<sender, addr, retry, proofAge>>

\* consume_cookie_reply: the AEAD opens for the newest message sent only.
Bound(m, n) == m.name = sender[n].mac1

\* rx_cookie_reply: at the node the message had come from, if it is still there.
RxCookieReply(m) ==
    LET n == OtherNode(m.from) IN
    /\ m \in wire /\ m.kind = "cookie"
    /\ wire' = wire \ {m}
    /\ IF AddrOf(n) # m.src \/ ~Bound(m, n) THEN UNCHANGED <<sender, proofAge>>
       ELSE /\ sender' = [sender EXCEPT ![n].cookie = m.cookie, ![n].cookieAge = 0]
            /\ proofAge' = [proofAge EXCEPT ![m.from][m.src] = 0]
    /\ UNCHANGED <<gate, addr, retry, through, losses, passAge>>

\* The network loses a datagram; the initiator's address changes.
LoseDatagram(m) ==
    /\ m \in wire /\ losses < MaxLosses /\ losses' = losses + 1
    /\ wire' = wire \ {m}
    /\ UNCHANGED <<gate, sender, addr, retry, through, proofAge, passAge>>
Roam(a) ==
    /\ a # addr /\ losses < MaxLosses /\ losses' = losses + 1 /\ addr' = a
    /\ UNCHANGED <<gate, sender, wire, retry, through, proofAge, passAge>>

\* The session pool of a node fills up or empties.
Busy(n) ==
    /\ gate' = [gate EXCEPT ![n].busy = ~@]
    /\ UNCHANGED <<sender, addr, wire, retry, through, losses, proofAge, passAge>>

\* A second within an interval: a window of the load estimate.
Second(n) ==
    /\ gate[n].elapsed < 2 /\ gate[n].count > 0
    /\ gate' = [gate EXCEPT ![n].elapsed = @ + 1]
    /\ UNCHANGED <<sender, addr, wire, retry, through, losses, proofAge, passAge>>

\* One retransmission interval (5 s, several windows of the load estimate).
Pass ==
    /\ ~through /\ (Prompt => wire = {} /\ ~retry)
    /\ gate' = [n \in GateNodes |-> IF n \notin Loaded THEN gate[n]
                               ELSE [gate[n] EXCEPT !.age = Older(@, CookieRefreshTime), !.elapsed = 2]]
    /\ sender' = [n \in GateNodes |-> IF sender[n].cookie = None THEN sender[n]
                                 ELSE [sender[n] EXCEPT !.cookieAge = Older(@, CookieRefreshTime)]]
    /\ proofAge' = [n \in GateNodes |-> [a \in AllAddrs |-> Older(proofAge[n][a], CookieRefreshTime)]]
    /\ retry' = TRUE
    /\ UNCHANGED <<addr, wire, through, losses, passAge>>

GateInit ==
    /\ gate = [n \in GateNodes |-> [secret |-> IF n = "i" THEN 0 ELSE 1, age |-> 0, elapsed |-> 0,
                                count |-> 0, prev |-> 0, busy |-> FALSE]]
    /\ sender = [n \in GateNodes |-> [mac1 |-> None, cookie |-> None, cookieAge |-> 0]]
    /\ addr = (CHOOSE a \in GateAddrs : TRUE) /\ wire = {} /\ retry = TRUE /\ through = FALSE /\ losses = 0
    /\ proofAge = [n \in GateNodes |-> [a \in AllAddrs |-> CookieRefreshTime]] /\ passAge = 0

GateReceive(allowed, again) ==
    \E m \in wire : \/ GateInitiation(m, allowed, again)
                  \/ GateResponse(m, allowed, again)
                  \/ RxCookieReply(m)

GateNext ==
    \/ SendInitiation \/ Pass
    \/ \E allowed \in Verdicts, again \in BOOLEAN : GateReceive(allowed, again)
    \/ \E m \in wire : LoseDatagram(m)
    \/ \E a \in GateAddrs : Roam(a)
    \/ \E n \in Loaded : Busy(n) \/ Second(n)

GateSpec == GateInit /\ [][GateNext]_gateVars

\* The runner reads the socket and services the retransmission timer of an
\* initiation it has sent; the rate limiter allows a sender that keeps to its rate.
GateFairness ==
    /\ WF_gateVars(sender["i"].mac1 # None /\ SendInitiation) /\ WF_gateVars(Pass)
    /\ WF_gateVars(GateReceive(TRUE, FALSE))

-------------------------------------------------------------------------------
(* What passes under load comes from an address that received a cookie less    *)
(* than the refresh time ago: the secret is renewed before the cookie is       *)
(* checked, so a cookie outlives neither its secret nor, however late it is     *)
(* used or however often it is repeated, the two minutes (check_mac2_or_reply). *)
AddressProofIsFresh == passAge < CookieRefreshTime

(* The handshake gets through two loaded nodes: after finitely many losses and *)
(* moves, with prompt delivery and a sender within its rate, an initiation sent *)
(* leads to a response accepted, each side's challenge being answered by the    *)
(* next retransmission (rx_cookie_reply).                                       *)
GetsThrough == sender["i"].mac1 # None ~> through
===============================================================================
