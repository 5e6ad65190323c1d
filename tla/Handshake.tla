------------------------------ MODULE Handshake ------------------------------
(* Two engines, each the only peer of the other, over a network that loses,  *)
(* duplicates and reorders datagrams: initiations and responses, the         *)
(* rotation of session generations, and the passive timers that notice a     *)
(* dead session.  A session is named by the initiation and the response that *)
(* made it, so two ends hold the same transport keys when the names are      *)
(* equal.  Session slots are never short here (see SessionTable).            *)
EXTENDS Naturals, Optional

CONSTANTS
    Nodes,
    Other,          \* the other node of each node
    Persistent,     \* nodes configured with a persistent keepalive
    Timely,         \* every datagram arrives or is lost before a timer fires
    MaxTs,          \* bound: initiations a node sends
    MaxResp,        \* bound: responses a node sends
    MaxEvents       \* bound: packets, persistent keepalives, losses, restarts, aging

ASSUME OtherAssumption ==
    /\ Other \in [Nodes -> Nodes]
    /\ \A n \in Nodes : Other[n] # n /\ Other[Other[n]] = n
ASSUME ConstantsAssumption ==
    /\ Persistent \subseteq Nodes /\ Timely \in BOOLEAN
    /\ MaxTs \in Nat /\ MaxResp \in Nat /\ MaxEvents \in Nat

VARIABLES
    node,       \* the state each engine keeps for its peer
    net,        \* datagrams sent; one stays while it may still be delivered
    installed,  \* history: the sessions each node has derived
    lost,       \* history: the sessions a node forgot by restart or old age
    events      \* how many of the bounded events have happened

vars == <<node, net, installed, lost, events>>

KeyType == [initiator : Nodes, ts : Nat, resp : Nat]
SessionType == [key : KeyType, confirmed : BOOLEAN, rekeyed : BOOLEAN,
                age : 0..2]     \* 1 after rekey_after, 2 when late enough to rekey on receipt
ASSUME NoneAssumption == None \notin SessionType

NodeType ==
    [ts : Nat,                  \* last_ts, the clock of initiations
     greatest : Nat,            \* greatest_ts accepted from the peer
     resp : Nat,                \* history: responses made
     pending : Nat,             \* the initiation the handshake slot answers to, or 0
     current : SessionType \cup {None},
     previous : SessionType \cup {None},
     next : SessionType \cup {None},
     parked : BOOLEAN,          \* packets wait for the handshake
     keepaliveDue : BOOLEAN,
     replyDue : BOOLEAN]

MessageType ==
    [type : {"init"}, from : Nodes, ts : Nat]
      \cup [type : {"resp"}, from : Nodes, key : KeyType]
      \cup [type : {"data"}, from : Nodes, key : KeyType, empty : BOOLEAN]

Initiation(n, ts) == [type |-> "init", from |-> n, ts |-> ts]
Response(n, key) == [type |-> "resp", from |-> n, key |-> key]
Data(n, key, empty) == [type |-> "data", from |-> n, key |-> key, empty |-> empty]

\* Session::new: only the initiator may send at once.
NewSession(key, confirmed) ==
    [key |-> key, confirmed |-> confirmed, rekeyed |-> FALSE, age |-> 0]

NewNode(ts, resp) ==
    [ts |-> ts, greatest |-> 0, resp |-> resp, pending |-> 0,
     current |-> None, previous |-> None, next |-> None,
     parked |-> FALSE, keepaliveDue |-> FALSE, replyDue |-> FALSE]

Generations(s) == {s.current, s.previous, s.next} \ {None}
Holds(s) == {g.key : g \in Generations(s)}

-------------------------------------------------------------------------------
(* What the handlers share.                                                  *)

\* build_initiation: a fresh ephemeral and a later timestamp, same slot.
Rebuilt(s) == [s EXCEPT !.ts = @ + 1, !.pending = s.ts + 1]

\* ensure_handshake: one handshake at a time.
EnsureHandshake(s) == IF s.pending = 0 THEN Rebuilt(s) ELSE s

\* usable_session: the current one, once confirmed.
Usable(s) == s.current # None /\ s.current.confirmed

\* seal_transport under the current session, and the rekey it may call for.
Seal(n, s, empty) ==
    LET rekey == s.current.key.initiator = n /\ s.current.age > 0 /\ ~s.current.rekeyed
        sealed == [s EXCEPT !.current.rekeyed = @ \/ rekey, !.keepaliveDue = FALSE,
                            !.replyDue = @ \/ ~empty]
    IN  IF rekey THEN EnsureHandshake(sealed) ELSE sealed

\* rotate_current: what was previous is forgotten.
Rotate(s, session) == [s EXCEPT !.previous = s.current, !.current = session]

\* Node n goes to state s and sends: an initiation whenever its clock moved.
Send(n, s, messages, rest) ==
    /\ s.ts <= MaxTs
    /\ node' = [node EXCEPT ![n] = s]
    /\ net' = rest \cup messages
                \cup (IF s.ts = node[n].ts THEN {} ELSE {Initiation(n, s.ts)})

\* The replay filter takes a transport message once; the others may come again.
Consumed(m) == IF Timely \/ m.type = "data" THEN net \ {m} ELSE net

Event == events < MaxEvents /\ events' = events + 1

\* A timer fires: all datagrams have long arrived, if the network is timely.
Elapsed == (Timely => net = {}) /\ UNCHANGED <<installed, lost, events>>

-------------------------------------------------------------------------------
(* The handlers.                                                             *)

\* send_to_peer, for a packet from the inner interface.
SendInner(n) ==
    LET s == node[n] IN
    /\ IF Usable(s)
       THEN Send(n, Seal(n, s, FALSE), {Data(n, s.current.key, FALSE)}, net)
       ELSE Send(n, EnsureHandshake([s EXCEPT !.parked = TRUE]), {}, net)
    /\ Event /\ UNCHANGED <<installed, lost>>

\* Mutant: the responder starts to use its session at once.
RespondAtOnce(n, key, s) == Rotate(s, NewSession(key, TRUE))

\* respond_to_initiation: the session waits in next, whatever was there before.
Respond(n, key, s) == [s EXCEPT !.next = NewSession(key, FALSE)]

\* rx_initiation and accept_authenticated_initiation.
RxInitiation(n, m) ==
    LET s == node[n]
        key == [initiator |-> m.from, ts |-> m.ts, resp |-> s.resp + 1]
    IN  /\ m.type = "init" /\ m.from = Other[n]
        /\ m.ts > s.greatest /\ s.resp < MaxResp
        /\ Send(n, Respond(n, key, [s EXCEPT !.greatest = m.ts, !.resp = @ + 1]),
                {Response(n, key)}, Consumed(m))
        /\ installed' = [installed EXCEPT ![n] = @ \cup {key}]
        /\ UNCHANGED <<lost, events>>

\* Mutant: a response to an earlier initiation of the attempt is taken as well.
AnswersAny(s, key) == s.pending # 0 /\ key.ts <= s.pending

\* consume_response: authentic only for the ephemeral key of the newest initiation.
Answers(s, key) == s.pending # 0 /\ key.ts = s.pending

\* rx_response: the initiator speaks first, with what was parked or a keepalive.
RxResponse(n, m) ==
    LET s == node[n]
        open == Rotate([s EXCEPT !.pending = 0, !.parked = FALSE], NewSession(m.key, TRUE))
    IN  /\ m.type = "resp" /\ m.from = Other[n] /\ Answers(s, m.key)
        /\ Send(n, Seal(n, open, ~s.parked), {Data(n, m.key, ~s.parked)}, Consumed(m))
        /\ installed' = [installed EXCEPT ![n] = @ \cup {m.key}]
        /\ UNCHANGED <<lost, events>>

\* Mutant: a keepalive is answered too.
HeardAny(s, empty) == [s EXCEPT !.replyDue = FALSE, !.keepaliveDue = TRUE]

\* What an authentic message does to the passive timers.
Heard(s, empty) == [s EXCEPT !.replyDue = FALSE, !.keepaliveDue = @ \/ ~empty]

\* rx_data: confirmation of a waiting session, then timers, then the late rekey.
RxData(n, m) ==
    LET s == node[n]
        turned == IF s.next # None /\ s.next.key = m.key
                  THEN Rotate([s EXCEPT !.next = None], [s.next EXCEPT !.confirmed = TRUE])
                  ELSE s
        heard == Heard(turned, m.empty)
        late(g) == /\ g # None /\ g.key = m.key /\ g.key.initiator = n
                   /\ g.age = 2 /\ ~g.rekeyed
        rekeying == IF late(heard.current)
                    THEN EnsureHandshake([heard EXCEPT !.current.rekeyed = TRUE])
                    ELSE IF late(heard.previous)
                    THEN EnsureHandshake([heard EXCEPT !.previous.rekeyed = TRUE])
                    ELSE heard
    IN  /\ m.type = "data" /\ m.from = Other[n] /\ m.key \in Holds(s)
        /\ Send(n, rekeying, {}, Consumed(m))
        /\ UNCHANGED <<installed, lost, events>>

\* A datagram the receiver has no use for, or that the network loses.
Unwanted(n, m) ==
    /\ m.from = Other[n]
    /\ CASE m.type = "init" -> m.ts <= node[n].greatest
         [] m.type = "resp" -> ~Answers(node[n], m.key)
         [] m.type = "data" -> m.key \notin Holds(node[n])

Ignore(n, m) ==
    /\ Timely /\ Unwanted(n, m)
    /\ net' = net \ {m} /\ UNCHANGED <<node, installed, lost, events>>

Lose(m) ==
    /\ Timely /\ Event
    /\ net' = net \ {m} /\ UNCHANGED <<node, installed, lost>>

-------------------------------------------------------------------------------
(* Timers.                                                                   *)

Retransmit(n) ==
    /\ node[n].pending # 0
    /\ Send(n, Rebuilt(node[n]), {}, net) /\ Elapsed

\* Rekey-Attempt-Time is over; many losses, so never in a run that is Timely.
GiveUp(n) ==
    /\ ~Timely /\ node[n].pending # 0
    /\ Send(n, [node[n] EXCEPT !.pending = 0, !.parked = FALSE], {}, net) /\ Elapsed

PacketExpires(n) ==
    /\ ~Timely /\ node[n].parked
    /\ Send(n, [node[n] EXCEPT !.parked = FALSE], {}, net) /\ Elapsed

KeepaliveTimer(n) ==
    LET s == [node[n] EXCEPT !.keepaliveDue = FALSE] IN
    /\ node[n].keepaliveDue
    /\ IF Usable(s) THEN Send(n, Seal(n, s, TRUE), {Data(n, s.current.key, TRUE)}, net)
                    ELSE Send(n, s, {}, net)
    /\ Elapsed

PersistentKeepaliveTimer(n) ==
    LET s == node[n] IN
    /\ n \in Persistent
    /\ IF Usable(s) THEN Send(n, Seal(n, s, TRUE), {Data(n, s.current.key, TRUE)}, net)
                    ELSE Send(n, EnsureHandshake(s), {}, net)
    /\ (Timely => net = {}) /\ Event /\ UNCHANGED <<installed, lost>>

\* Mutant: the timer is cleared and nothing is done.
ReplyTimerClears(n) ==
    /\ node[n].replyDue /\ (Timely => ~node[Other[n]].keepaliveDue)
    /\ Send(n, [node[n] EXCEPT !.replyDue = FALSE], {}, net)
    /\ Elapsed

\* Nothing heard for Keepalive-Timeout + Rekey-Timeout after data was sent: the
\* keepalive of a peer that received it would have come first.
ReplyTimer(n) ==
    /\ node[n].replyDue /\ (Timely => ~node[Other[n]].keepaliveDue)
    /\ Send(n, EnsureHandshake([node[n] EXCEPT !.replyDue = FALSE]), {}, net)
    /\ Elapsed

\* Time passes for a session of n, until REJECT_AFTER_TIME frees it.
Age(n, g) ==
    /\ node[n][g] # None
    /\ IF node[n][g].age < 2
       THEN node' = [node EXCEPT ![n][g].age = @ + 1] /\ lost' = lost
       ELSE node' = [node EXCEPT ![n][g] = None] /\ lost' = lost \cup {node[n][g].key}
    /\ Event /\ UNCHANGED <<net, installed>>

\* The engine is created anew; the wall clock has moved on.
Restart(n) ==
    /\ node' = [node EXCEPT ![n] = NewNode(@.ts, @.resp)]
    /\ lost' = lost \cup Holds(node[n])
    /\ Event /\ UNCHANGED <<net, installed>>

-------------------------------------------------------------------------------
Init ==
    /\ node = [n \in Nodes |-> NewNode(0, 0)]
    /\ net = {}
    /\ installed = [n \in Nodes |-> {}]
    /\ lost = {}
    /\ events = 0

Next ==
    \/ \E n \in Nodes :
         \/ SendInner(n) \/ Restart(n)
         \/ Retransmit(n) \/ GiveUp(n) \/ PacketExpires(n)
         \/ KeepaliveTimer(n) \/ PersistentKeepaliveTimer(n) \/ ReplyTimer(n)
         \/ \E g \in {"current", "previous", "next"} : Age(n, g)
         \/ \E m \in net : RxInitiation(n, m) \/ RxResponse(n, m) \/ RxData(n, m) \/ Ignore(n, m)
    \/ \E m \in net : Lose(m)

Spec == Init /\ [][Next]_vars

\* The runner reads the socket and sleeps no longer than poll_at; a timely
\* network delivers what it does not lose.
Fairness ==
    \A n \in Nodes :
      /\ WF_vars(\E m \in net : RxInitiation(n, m) \/ RxResponse(n, m) \/ RxData(n, m) \/ Ignore(n, m))
      /\ WF_vars(Retransmit(n)) /\ WF_vars(KeepaliveTimer(n)) /\ WF_vars(ReplyTimer(n))

FairSpec == Spec /\ Fairness

-------------------------------------------------------------------------------
(* Properties.                                                               *)

\* The types, and the handshake slot bound to the newest initiation: the Noise
\* state a response is checked against is the one build_initiation made last.
TypeOK ==
    /\ node \in [Nodes -> NodeType]
    /\ net \subseteq MessageType
    /\ installed \in [Nodes -> SUBSET KeyType]
    /\ lost \subseteq KeyType /\ events \in 0..MaxEvents
    /\ \A n \in Nodes : node[n].pending \in {0, node[n].ts}

\* Every transport message was sealed under keys its addressee has derived: the
\* responder sends nothing under a session until the initiator has proved that
\* the response arrived (the check of `confirmed` in can_send, and the rotation
\* only on receipt).
DataHasReader ==
    \A m \in net : m.type = "data" => m.key \in installed[Other[m.from]]

\* The session an initiator starts to use is one the responder still holds,
\* unless the responder restarted or let it die of age: retransmissions,
\* duplicates and late responses never leave the two ends with different
\* sessions from one attempt (timestamps in accept_authenticated_initiation,
\* one ephemeral key per slot in retransmit_initiation).
SessionAgreed ==
    [][\A n \in Nodes :
         LET s == node'[n].current IN
         (s # node[n].current /\ s # None /\ s.key.initiator = n /\ s.key \notin installed[n])
           => s.key \in Holds(node'[Other[n]]) \cup lost']_vars

\* Nobody is stuck for ever: data sent under a session the other end no longer
\* has, with no answer under way, leads to a current session that the other end
\* holds, once losses and restarts are over (reply_due and the retransmissions
\* in timeout).
Shared(n) == Usable(node[n]) /\ node[n].current.key \in Holds(node[Other[n]])
Unanswered(n) ==
    /\ node[n].replyDue /\ ~Shared(n) /\ net = {} /\ ~node[Other[n]].keepaliveDue
    /\ events = MaxEvents
Heals == \A n \in Nodes :
    Unanswered(n) ~> Shared(n)

\* Two ends with nothing to say fall silent, all packets sent: keepalives answer
\* data and are not answered themselves, so no timer and no handshake goes on
\* for ever (seal_transport: "that way two idle peers don't ping-pong forever").
Idle ==
    /\ net = {}
    /\ \A n \in Nodes : /\ node[n].pending = 0 /\ ~node[n].parked
                        /\ ~node[n].keepaliveDue /\ ~node[n].replyDue
Quiesces == <>[]Idle

===============================================================================
