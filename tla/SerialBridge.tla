----------------------------- MODULE SerialBridge -----------------------------
(* The RFC 2217 server of the ESP32-C3 dongle (rfc2217.rs): one task moves      *)
(* bytes between a TCP session and a UART, with software (XON/XOFF) or hardware *)
(* (RTS/CTS) flow control in each direction.  Steps are the stretches of the    *)
(* task between two waits.  Bytes the serial device sends are numbered, client  *)
(* data is counted in transmit bursts, and option negotiation is reduced to the *)
(* moment COM-PORT mode becomes active (TelnetOptions has the rest).            *)
EXTENDS Naturals, Sequences, FiniteSets, Optional

CONSTANTS
    DeferredRx,     \* DEFERRED_RX
    FifoSize,       \* bound: items in the UART's receive FIFO
    MaxSerialData,  \* bound: data bytes the device sends
    MaxBursts,      \* bound: bursts in one chunk of client data
    MaxErrors,      \* bound: line errors
    MaxSerialOps    \* bound: requests, sessions and flow bytes together

Flows == {"None", "XonXoff", "RtsCts"}

VARIABLES
    sess,       \* None, or [active, suspended, out, in, rts]: session and PortState
    txPaused,   \* flow.tx_paused_by_peer
    rxPaused,   \* flow.rx_peer_paused
    deferred,   \* the deferred queue
    pc,         \* "loop"; "writing", "drained", "forced" before a burst; "deliver"
    bursts,     \* left to write to the UART
    fifo,       \* UART receive FIFO: numbers, "XON", "XOFF" and line errors "ERR"
    rtsLine, ctsLine,
    device,     \* [paused: by the bridge, stop: it sent XOFF; late: bursts it was sent
                \*  since; errs: line errors not yet read then or since; cleared: the
                \*  client set flow control again since; noise: line errors in all;
                \*  made: data bytes sent]
    delivered,  \* history: data bytes written to the session's socket
    dropped,    \* history: data bytes purged or left over when a session ended
    ops

bridgeVars == <<sess, txPaused, rxPaused, deferred, pc, bursts, fifo, rtsLine, ctsLine,
                device, delivered, dropped, ops>>

SessionDefaults == [active |-> FALSE, suspended |-> FALSE, out |-> "None", in |-> "None", rts |-> TRUE]

Item(kind, n) == [kind |-> kind, n |-> n]
Data(s) == SelectSeq(s, LAMBDA x : x.kind = "data")
Numbers(s) == {s[i].n : i \in DOMAIN s}

-------------------------------------------------------------------------------
\* refresh_rts.
Rts(s, ready) == s.rts /\ (s.in # "RtsCts" \/ (ready /\ ~s.suspended))

\* Mutant: turning software flow control off leaves a paused device paused.
ReceiveReadyForgetsXon(s, ready, dev) ==
    LET pause == ~ready \/ s.suspended
    IN  /\ rtsLine' = Rts(s, ready)
        /\ rxPaused' = (s.in = "XonXoff" /\ pause)
        /\ device' = [dev EXCEPT !.paused = IF s.in = "XonXoff" THEN pause ELSE @]

\* set_serial_receive_ready: RTS, and an XOFF or XON where the state changes.  The
\* XON that balances an XOFF is sent even when software flow control is off by now.
ReceiveReady(s, ready, dev) ==
    LET pause == ~ready \/ s.suspended
    IN  /\ rtsLine' = Rts(s, ready)
        /\ rxPaused' = (s.in = "XonXoff" /\ pause)
        /\ device' = [dev EXCEPT !.paused =
                         IF s.in = "XonXoff" THEN (IF pause # rxPaused THEN pause ELSE @)
                         ELSE (IF rxPaused THEN FALSE ELSE @)]

\* An XOFF counts as long as the port is set to software flow control.
Unstopped == [device EXCEPT !.stop = FALSE, !.late = 0, !.errs = 0, !.cleared = FALSE]

\* consume_received_flow_byte over a stretch of received items.
RECURSIVE PausedAfter(_, _, _)
PausedAfter(s, paused, items) ==
    IF items = <<>> THEN paused
    ELSE PausedAfter(s, IF s.out = "XonXoff" /\ Head(items).kind \in {"XON", "XOFF"}
                        THEN Head(items).kind = "XOFF" ELSE paused, Tail(items))

\* Without software flow control XON and XOFF are data; the history keeps numbers.
Captured(items) == deferred \o Data(items)

\* The items before the first line error, and the rest after it.
Clean(items) ==
    LET bad == {i \in DOMAIN items : items[i].kind = "ERR"}
    IN  SubSeq(items, 1, IF bad = {} THEN Len(items)
                         ELSE (CHOOSE i \in bad : \A j \in bad : i <= j) - 1)
After(items, n) == SubSeq(items, n + 1, Len(items))

\* The end of run_session: the device is released and the defaults restored.
EndSession ==
    /\ ReceiveReady([sess EXCEPT !.suspended = FALSE, !.rts = TRUE], TRUE, Unstopped)
    /\ sess' = None
    /\ pc' = "loop"
    /\ bursts' = 0
    /\ txPaused' = FALSE
    /\ deferred' = <<>>
    /\ dropped' = dropped \cup Numbers(deferred)
    /\ UNCHANGED <<fifo, ctsLine, delivered>>

Op == ops < MaxSerialOps /\ ops' = ops + 1

-------------------------------------------------------------------------------
Connect ==
    /\ sess = None /\ Op
    /\ sess' = SessionDefaults
    /\ rtsLine' = TRUE
    /\ rxPaused' = FALSE
    /\ UNCHANGED <<txPaused, deferred, pc, bursts, fifo, ctsLine, device, delivered, dropped>>

Activate ==
    /\ sess # None /\ pc = "loop" /\ ~sess.active
    /\ sess' = [sess EXCEPT !.active = TRUE]
    /\ UNCHANGED <<txPaused, rxPaused, deferred, pc, bursts, fifo, rtsLine, ctsLine, device,
                   delivered, dropped, ops>>

\* The socket fails or closes, at any wait.
Disconnect ==
    /\ sess # None /\ Op
    /\ EndSession

\* A SET of a flow control value, SET-CONTROL RTS, and SUSPEND and RESUME, which
\* are not confirmed and so do not need the mode to be active.
SetOutbound(s, v) == [s EXCEPT !.out = v, !.in = v]

SerialRequest ==
    /\ sess # None /\ pc = "loop" /\ Op
    /\ \/ \E v \in Flows :
              /\ sess.active
              /\ sess' = SetOutbound(sess, v)
              /\ txPaused' = FALSE
              /\ ReceiveReady(sess', TRUE, IF v = "XonXoff" THEN [device EXCEPT !.cleared = device.stop]
                                           ELSE Unstopped)
              /\ UNCHANGED deferred
       \/ \E v \in Flows :
              /\ sess.active
              /\ sess' = [sess EXCEPT !.in = v]
              /\ ReceiveReady(sess', TRUE, device)
              /\ UNCHANGED <<txPaused, deferred>>
       \/ /\ sess.active
          /\ sess' = [sess EXCEPT !.rts = ~@]
          /\ ReceiveReady(sess', TRUE, device)
          /\ UNCHANGED <<txPaused, deferred>>
       \/ /\ sess' = [sess EXCEPT !.suspended = TRUE]
          /\ ReceiveReady(sess', FALSE, device)
          /\ UNCHANGED <<txPaused, deferred>>
       \/ /\ sess' = [sess EXCEPT !.suspended = FALSE]
          /\ ReceiveReady(sess', TRUE, device)
          /\ UNCHANGED <<txPaused, deferred>>
    /\ UNCHANGED <<pc, bursts, fifo, ctsLine, delivered, dropped>>

\* PURGE-DATA of the receive side: the deferred queue and what the FIFO holds.
Purge ==
    /\ sess # None /\ sess.active /\ pc = "loop" /\ Op
    /\ LET taken == Clean(fifo) IN
       /\ txPaused' = PausedAfter(sess, txPaused, taken)
       /\ fifo' = After(fifo, Len(taken) + 1)
       /\ dropped' = dropped \cup Numbers(Data(deferred \o taken))
    /\ deferred' = <<>>
    /\ UNCHANGED <<sess, rxPaused, pc, bursts, rtsLine, ctsLine, device, delivered>>

\* A chunk of client data, dropped until the mode is active.
ClientData ==
    /\ sess # None /\ sess.active /\ pc = "loop" /\ Op
    /\ bursts' \in 1..MaxBursts
    /\ pc' = "writing"
    /\ UNCHANGED <<sess, txPaused, rxPaused, deferred, fifo, rtsLine, ctsLine, device, delivered,
                   dropped>>

\* capture_serial_rx of the first n items, of which a line error is only reported;
\* an overflow of the queue ends the session.
Capture(n, next) ==
    LET items == SubSeq(fifo, 1, n) IN
    /\ fifo' = After(fifo, n)
    /\ IF Len(Captured(items)) <= DeferredRx
       THEN /\ deferred' = Captured(items)
            /\ txPaused' = PausedAfter(sess, txPaused, items)
            /\ pc' = next
            /\ UNCHANGED <<sess, rxPaused, bursts, rtsLine, device, dropped>>
       ELSE /\ ReceiveReady([sess EXCEPT !.suspended = FALSE, !.rts = TRUE], TRUE, Unstopped)
            /\ sess' = None /\ pc' = "loop" /\ bursts' = 0 /\ txPaused' = FALSE /\ deferred' = <<>>
            /\ dropped' = dropped \cup Numbers(Captured(items))
    /\ UNCHANGED <<ctsLine, delivered, ops>>

\* What one read of the UART may return: some clean items, or a line error.
ReadSizes == IF Head(fifo).kind = "ERR" THEN {1} ELSE 1..Len(Clean(fifo))

\* The loop's own read of the UART, only while active and not suspended.
ReadUart ==
    /\ sess # None /\ pc = "loop" /\ fifo # <<>>
    /\ sess.active /\ ~sess.suspended
    /\ \E n \in ReadSizes : Capture(n, "loop")

\* uart_write_all before each burst: drain_uart_ready empties the FIFO up to and
\* including a line error.
DrainUart ==
    /\ pc = "writing" /\ sess.out = "XonXoff"
    /\ LET n == Len(Clean(fifo))
       IN  Capture(IF n < Len(fifo) THEN n + 1 ELSE n, "drained")

\* wait_for_xon: a line error ends the wait, and the burst is written.
WaitForXon ==
    /\ pc = "drained" /\ txPaused /\ fifo # <<>>
    /\ \E n \in ReadSizes : Capture(n, IF Head(fifo).kind = "ERR" THEN "forced" ELSE "drained")

\* Flow control is polled before every burst.
AfterBurst == IF bursts = 1 THEN "loop" ELSE "writing"

\* The rest of uart_write_all's iteration: CTS, one burst written and flushed.
WriteBurst ==
    /\ \/ pc = "writing" /\ sess.out # "XonXoff"
       \/ pc = "drained" /\ ~txPaused
       \/ pc = "forced"
    /\ sess.out = "RtsCts" => ctsLine
    /\ bursts' = bursts - 1
    /\ pc' = AfterBurst
    /\ device' = IF device.stop THEN [device EXCEPT !.late = @ + 1] ELSE device
    /\ UNCHANGED <<sess, txPaused, rxPaused, deferred, fifo, rtsLine, ctsLine, delivered, dropped, ops>>

\* XON_WAIT_TIMEOUT or CTS_WAIT_TIMEOUT.
WaitTimesOut ==
    /\ (pc = "drained" /\ txPaused) \/ (pc = "writing" /\ sess.out = "RtsCts" /\ ~ctsLine)
    /\ EndSession
    /\ UNCHANGED ops

\* The deferred queue is written to the socket with the device held off.
BeginDelivery ==
    /\ sess # None /\ pc = "loop" /\ deferred # <<>>
    /\ sess.active /\ ~sess.suspended
    /\ ReceiveReady(sess, FALSE, device)
    /\ pc' = "deliver"
    /\ UNCHANGED <<sess, txPaused, deferred, bursts, fifo, ctsLine, delivered, dropped, ops>>

EndDelivery ==
    /\ pc = "deliver"
    /\ ReceiveReady(sess, TRUE, device)
    /\ delivered' = delivered \o deferred
    /\ deferred' = <<>>
    /\ pc' = "loop"
    /\ UNCHANGED <<sess, txPaused, bursts, fifo, ctsLine, dropped, ops>>

-------------------------------------------------------------------------------
Errors == Cardinality({i \in DOMAIN fifo : fifo[i].kind = "ERR"})

\* The serial device: it stops when told to, and uses XOFF only where the port
\* is set to software flow control.
DeviceSends ==
    /\ Len(fifo) < FifoSize
    /\ \/ /\ device.made < MaxSerialData /\ ~device.paused
          /\ fifo' = Append(fifo, Item("data", device.made + 1))
          /\ device' = [device EXCEPT !.made = @ + 1]
          /\ UNCHANGED ops
       \/ /\ Op /\ sess # None /\ sess.out = "XonXoff"
          /\ fifo' = Append(fifo, Item(IF device.stop THEN "XON" ELSE "XOFF", 0))
          /\ device' = [device EXCEPT !.stop = ~@, !.late = 0, !.errs = Errors, !.cleared = FALSE]
       \/ /\ device.noise < MaxErrors
          /\ fifo' = Append(fifo, Item("ERR", 0))
          /\ device' = [device EXCEPT !.errs = IF device.stop THEN @ + 1 ELSE @, !.noise = @ + 1]
          /\ UNCHANGED ops
    /\ UNCHANGED <<sess, txPaused, rxPaused, deferred, pc, bursts, rtsLine, ctsLine, delivered, dropped>>

ToggleCts ==
    /\ Op
    /\ ctsLine' = ~ctsLine
    /\ UNCHANGED <<sess, txPaused, rxPaused, deferred, pc, bursts, fifo, rtsLine, device, delivered,
                   dropped>>

BridgeInit ==
    /\ sess = None /\ txPaused = FALSE /\ rxPaused = FALSE
    /\ deferred = <<>> /\ pc = "loop" /\ bursts = 0 /\ fifo = <<>>
    /\ rtsLine = TRUE /\ ctsLine = TRUE
    /\ device = [paused |-> FALSE, stop |-> FALSE, late |-> 0, errs |-> 0,
                 cleared |-> FALSE, noise |-> 0, made |-> 0]
    /\ delivered = <<>> /\ dropped = {} /\ ops = 0

BridgeNext ==
    \/ Connect \/ Activate \/ Disconnect \/ SerialRequest \/ Purge \/ ClientData
    \/ ReadUart \/ DrainUart \/ WaitForXon \/ WriteBurst \/ WaitTimesOut
    \/ BeginDelivery \/ EndDelivery \/ DeviceSends \/ ToggleCts

BridgeSpec == BridgeInit /\ [][BridgeNext]_bridgeVars

-------------------------------------------------------------------------------
\* The serial device is held by XOFF, or by RTS against the client's wish, only while
\* the client has suspended the session or received bytes are written to the socket.
PeerReleased ==
    /\ device.paused => sess # None /\ (sess.suspended \/ pc = "deliver")
    /\ ~rtsLine => sess # None /\ (~sess.rts \/ sess.suspended \/ pc = "deliver")

\* A byte is delivered, queued, in the FIFO, or was purged or left over when a session
\* ended; the first three are in the order sent.
RxInOrder ==
    LET line == delivered \o deferred \o Data(fifo)
    IN  /\ \A i \in 1..Len(line) - 1 : line[i].n < line[i + 1].n
        /\ Numbers(line) \cup dropped = 1..device.made

\* The burst under way, and one more for each line error read before the XON (an
\* error ends wait_for_xon), as long as the client does not set flow control again.
XoffRespected == device.stop /\ ~device.cleared => device.late <= 1 + device.errs

(* Flow control works whatever order settings, suspensions, purges and          *)
(* disconnections come in.  The serial device is never left stopped; what it    *)
(* sent reaches the client in order and once, and no byte is lost without a     *)
(* purge or the end of a session; and a device that sent XOFF is sent at most   *)
(* the burst under way, one more for each line error the UART reports, and more *)
(* only once the client has set the port to software flow control again, which  *)
(* clears tx_paused_by_peer.                                                    *)
FlowControlled == PeerReleased /\ RxInOrder /\ XoffRespected

(* FlowRuntime: client data "must wait until the device sends XON";             *)
(* uart_write_all "bounds the amount of data sent after a peer requests a stop  *)
(* to at most one burst".                                                       *)
XoffHonoured == device.stop => device.late <= 1
===============================================================================
