------------------------------ MODULE WebSocket -------------------------------
(* A server's end of a WebSocket connection (microtun-ws, used by the tracker's *)
(* serve_connection): a reader task reassembles masked, fragmented messages out *)
(* of short reads and answers them, a notifier task writes through the same     *)
(* socket.  A frame is a header of one or two units (prefix, key) and payload   *)
(* units; a payload unit is masked with the key byte of its position.  The      *)
(* receive future may be dropped at any wait and is called again; all it knows  *)
(* is in the Connection, so a drop is not a step of its own.                    *)
EXTENDS Naturals, Sequences, SequencesExt, Optional

CONSTANTS
    Frames,     \* frames the peer may send, [op, fin, len, masked]
    MaxFrames,  \* bound: frames the peer sends
    BufferLen,  \* the receive buffer
    MaxControl, \* MAX_CONTROL_PAYLOAD_LEN
    KeyLen,     \* bytes of a masking key
    MaxPushes   \* bound: messages the notifier sends

VARIABLES
    frames,     \* history: the frames the peer sent
    stream,     \* units under way to the server
    link,       \* "upgrading", "open" or "over"
    phase,      \* Phase
    filled,     \* the current message as assembled in the buffer
    continuing,
    texts,      \* history: messages received
    fate,       \* None, or why the reader ended
    queued,     \* what each task is writing: units, the last one FLUSH
    lock,       \* the task that holds the SharedWriter
    closed,     \* tasks whose Sender has sent a close
    out,        \* history: units written
    pushes

wsVars == <<frames, stream, link, phase, filled, continuing, texts, fate, queued, lock, closed,
            out, pushes>>

Tasks == {"reader", "notifier"}

HeaderPhase == [at |-> "header", have |-> <<>>]
Prefix(f) == [kind |-> "prefix", op |-> f.op, fin |-> f.fin, len |-> f.len, masked |-> f.masked]
MaskKey == [kind |-> "key"]
Byte(d, pos) == [kind |-> "byte", d |-> d, pos |-> pos]

\* Payload bytes are named by the frame and the place in it.
Units(n, f) == <<Prefix(f)>> \o (IF f.masked THEN <<MaskKey>> ELSE <<>>)
               \o [i \in 1..f.len |-> Byte(<<n, i>>, (i - 1) % KeyLen)]

\* Mutant: every read starts at the first byte of the key.
UnmaskedFromStart(bytes, offset, masked) ==
    [i \in DOMAIN bytes |-> IF ~masked \/ bytes[i].pos = (i - 1) % KeyLen THEN bytes[i].d ELSE None]

\* mask::apply: right where the running offset is that of the byte's place.
Unmasked(bytes, offset, masked) ==
    [i \in DOMAIN bytes |->
        IF ~masked \/ bytes[i].pos = (offset + i - 1) % KeyLen THEN bytes[i].d ELSE None]

IsControl(op) == op \in {"PING", "PONG", "CLOSE"}

\* decode_prefix and begin_frame: the error, or None.
Refusal(p, cont, used) ==
    CASE p.op = "RESERVED" -> "protocol"
      [] p.op # "RESERVED" /\ ~p.masked -> "protocol"
      [] p.masked /\ IsControl(p.op) /\ (~p.fin \/ p.len > MaxControl) -> "protocol"
      [] p.masked /\ ((p.op = "TEXT" /\ cont) \/ (p.op = "CONT" /\ ~cont)) -> "protocol"
      [] p.masked /\ p.op = "BINARY" -> "unsupported"
      [] p.masked /\ p.op \in {"TEXT", "CONT"} /\ (p.op = "CONT") = cont /\ p.len > BufferLen - used -> "toolarge"
      [] OTHER -> None

\* A whole frame as its sender writes it.
WholeFrame(task, op, body) ==
    <<[task |-> task, kind |-> "header", op |-> op, len |-> Len(body)]>>
    \o [i \in DOMAIN body |-> [task |-> task, kind |-> "payload", op |-> op, len |-> 0]]
    \o <<[task |-> task, kind |-> "FLUSH", op |-> op, len |-> 0]>>

\* send_text, send_pong and close of a task's Sender.
Sends(task, op, body) ==
    /\ queued' = [queued EXCEPT ![task] = IF task \in closed THEN <<>> ELSE WholeFrame(task, op, body)]
    /\ closed' = IF op = "CLOSE" THEN closed \cup {task} ELSE closed

-------------------------------------------------------------------------------
PeerSends ==
    /\ Len(frames) < MaxFrames /\ link # "over" /\ fate # "eof"
    /\ \E f \in Frames :
       /\ frames' = Append(frames, f)
       /\ stream' = stream \o Units(Len(frames'), f)
    /\ UNCHANGED <<link, phase, filled, continuing, texts, fate, queued, lock, closed, out, pushes>>

\* request_upgrade reads the head one byte at a time, and no byte of a frame; the
\* upgrade is accepted or rejected.
ReadHead ==
    /\ link = "upgrading"
    /\ stream # <<>>
    /\ stream' = Tail(stream)
    /\ link' \in IF Head(stream).kind = "end" THEN {"open", "over"} ELSE {link}
    /\ UNCHANGED <<frames, phase, filled, continuing, texts, fate, queued, lock, closed, out, pushes>>

\* The reader runs receive: nothing of its own to write, and not ended.
Receiving == link = "open" /\ fate = None /\ queued["reader"] = <<>>
Rest == UNCHANGED <<frames, link, lock, out, pushes>>

\* recv_text closes the connection with the reason, unless the peer did.
ReaderEnds(why) ==
    /\ fate' = why
    /\ Sends("reader", "CLOSE", <<>>)
    /\ UNCHANGED <<filled, continuing, texts>>

ReadHeader ==
    /\ Receiving /\ phase.at = "header" /\ stream # <<>>
    /\ stream' = Tail(stream)
    /\ LET have == Append(phase.have, Head(stream))
           p == have[1]
       IN  IF p.op # "RESERVED" /\ Len(have) < (IF p.masked THEN 2 ELSE 1)
           THEN /\ phase' = [phase EXCEPT !.have = have]
                /\ UNCHANGED <<filled, continuing, texts, fate, queued, closed>>
           ELSE IF Refusal(p, continuing, Len(filled)) # None
           THEN ReaderEnds(Refusal(p, continuing, Len(filled))) /\ UNCHANGED phase
           ELSE /\ phase' = [at |-> IF IsControl(p.op) THEN "control" ELSE "payload", op |-> p.op,
                             body |-> <<>>, left |-> p.len, masked |-> p.masked, fin |-> p.fin]
                /\ UNCHANGED <<filled, continuing, texts, fate, queued, closed>>
    /\ Rest

\* The peer is gone, in the middle of a frame or between two: nobody to tell.
ReadEof ==
    /\ Receiving /\ stream = <<>>
    /\ fate' = "eof"
    /\ UNCHANGED <<stream, phase, filled, continuing, texts, queued, closed>>
    /\ Rest

\* One read of part of a payload, into the message or the control buffer.
ReadPayload ==
    /\ Receiving /\ phase.at \in {"payload", "control"} /\ phase.left > 0
    /\ \E n \in 1..phase.left :
       /\ n <= Len(stream)
       /\ LET bytes == SubSeq(stream, 1, n) IN
          /\ phase' = [phase EXCEPT !.left = @ - n, !.body = @ \o bytes]
          /\ filled' = IF phase.at = "control" THEN filled
                       ELSE filled \o Unmasked(bytes, Len(phase.body), phase.masked)
       /\ stream' = SubSeq(stream, n + 1, Len(stream))
    /\ UNCHANGED <<continuing, texts, fate, queued, closed>>
    /\ Rest

\* A whole message is dispatched; a request is answered, a notification is not.
FinishPayload ==
    /\ Receiving /\ phase.at = "payload" /\ phase.left = 0
    /\ phase' = HeaderPhase
    /\ IF phase.fin
       THEN /\ texts' = Append(texts, filled)
            /\ filled' = <<>>
            /\ continuing' = FALSE
            /\ \/ Sends("reader", "TEXT", <<1>>)
               \/ UNCHANGED <<queued, closed>>
       ELSE /\ continuing' = TRUE
            /\ UNCHANGED <<texts, filled, queued, closed>>
    /\ UNCHANGED <<stream, fate>>
    /\ Rest

\* A ping is answered in full, a pong dropped, a close echoed and reported.
FinishControl ==
    /\ Receiving /\ phase.at = "control" /\ phase.left = 0
    /\ phase' = HeaderPhase
    /\ CASE phase.op = "PING" -> /\ Sends("reader", "PONG", Unmasked(phase.body, 0, phase.masked))
                                 /\ UNCHANGED <<fate, filled, continuing, texts>>
         [] phase.op = "PONG" -> UNCHANGED <<fate, filled, continuing, texts, queued, closed>>
         [] OTHER -> ReaderEnds("closed")
    /\ UNCHANGED stream
    /\ Rest

\* The notifier has an invalidation to send, or closes a caller that is gone; a
\* reader that has ended ends the connection, unless the notifier is chosen first.
PushNotification ==
    /\ link = "open" /\ pushes < MaxPushes /\ queued["notifier"] = <<>>
    /\ "notifier" \notin closed
    /\ pushes' = pushes + 1
    /\ \E op \in {"TEXT", "CLOSE"} : Sends("notifier", op, <<1>>)
    /\ UNCHANGED <<frames, stream, link, phase, filled, continuing, texts, fate, lock, out>>

\* SharedWriter: held from the first write of a frame to its flush.
HeldAfter(task, unit) == IF unit.kind = "FLUSH" THEN None ELSE task

WriteUnit ==
    /\ \E t \in Tasks :
       /\ queued[t] # <<>>
       /\ lock \in {None, t}
       /\ lock' = HeldAfter(t, Head(queued[t]))
       /\ out' = IF Head(queued[t]).kind = "FLUSH" THEN out ELSE Append(out, Head(queued[t]))
       /\ queued' = [queued EXCEPT ![t] = Tail(@)]
    /\ UNCHANGED <<frames, stream, link, phase, filled, continuing, texts, fate, closed, pushes>>

\* The connection ends: after the reader, or after the notifier's close, which
\* aborts a reader even in the middle of a write.
PeerHangup ==
    /\ link = "open" /\ queued["notifier"] = <<>>
    /\ \/ fate # None /\ queued["reader"] = <<>>
       \/ "notifier" \in closed
    /\ link' = "over"
    /\ queued' = [queued EXCEPT !["reader"] = <<>>]
    /\ lock' = None
    /\ UNCHANGED <<frames, stream, phase, filled, continuing, texts, fate, closed, out, pushes>>

WsInit ==
    /\ frames = <<>> /\ stream = <<[kind |-> "head"], [kind |-> "end"]>>
    /\ link = "upgrading" /\ phase = HeaderPhase /\ filled = <<>> /\ continuing = FALSE
    /\ texts = <<>> /\ fate = None /\ queued = [t \in Tasks |-> <<>>] /\ lock = None
    /\ closed = {} /\ out = <<>> /\ pushes = 0

WsNext ==
    \/ PeerSends \/ ReadHead \/ ReadHeader \/ ReadEof \/ ReadPayload
    \/ FinishPayload \/ FinishControl \/ PushNotification \/ WriteUnit \/ PeerHangup

WsSpec == WsInit /\ [][WsNext]_wsVars

-------------------------------------------------------------------------------
\* What the frames say, taken whole: the messages, and why the peer is cut off.
RECURSIVE Meaning(_, _, _, _, _)
Meaning(fs, n, cur, cont, acc) ==
    IF fs = <<>> THEN [texts |-> acc, fate |-> None]
    ELSE LET f == Head(fs)
             more == cur \o [i \in 1..f.len |-> <<n, i>>]
         IN  IF Refusal(f, cont, Len(cur)) # None THEN [texts |-> acc, fate |-> Refusal(f, cont, Len(cur))]
             ELSE IF f.op = "CLOSE" THEN [texts |-> acc, fate |-> "closed"]
             ELSE IF IsControl(f.op) THEN Meaning(Tail(fs), n + 1, cur, cont, acc)
             ELSE IF f.fin THEN Meaning(Tail(fs), n + 1, <<>>, FALSE, Append(acc, more))
             ELSE Meaning(Tail(fs), n + 1, more, TRUE, acc)

\* Every message received is one the frames spell, in order and unmasked right, none
\* is missed once the stream is read, and it ends for the right reason.
MessagesIntact ==
    LET m == Meaning(frames, 1, <<>>, FALSE, <<>>)
    IN  /\ IsPrefix(texts, m.texts)
        /\ fate \notin {None, "eof"} => texts = m.texts /\ fate = m.fate
        /\ link = "open" /\ stream = <<>> /\ phase = HeaderPhase /\ fate \in {None, "eof"} =>
              texts = m.texts /\ m.fate = None

\* After every header the frame's own payload follows before anything else; only the
\* last frame may be cut off.
FramesWhole ==
    \A i \in DOMAIN out : out[i].kind = "header" =>
       \A j \in 1..out[i].len : i + j <= Len(out) =>
          out[i + j].kind = "payload" /\ out[i + j].task = out[i].task

(* The connection carries messages whole in both directions (read_message, and  *)
(* SharedWriter).  The reader gets exactly the messages the peer sent, however  *)
(* the bytes are cut into reads, messages into fragments, and control frames    *)
(* put between them; and the frames of the two tasks that write never mix on    *)
(* the wire, whichever task waits, ends or is aborted.                          *)
CarriesMessages == MessagesIntact /\ FramesWhole
===============================================================================
