----------------------------- MODULE SerialDevice -----------------------------
(* The virtual serial device of the serial command (cuse_device.rs, device.rs): *)
(* applications use /dev/NAME through CUSE requests, a session with an RFC 2217 *)
(* server carries bytes and line settings.  Three threads share the State under *)
(* one lock: the CUSE session thread, the reader of device events and the main  *)
(* task.  Each step is one section under the lock; the reader and the main task *)
(* call notify_polls in a step of its own, the session thread, which also       *)
(* handles the polls, at once.  A request answered with an error is not a step. *)
EXTENDS Naturals, Sequences, FiniteSets, Optional

CONSTANTS
    TxLimit, RxLimit, IoChunk,  \* TX_LIMIT, RX_LIMIT, IO_CHUNK
    Inputs,         \* the termios applications set; baud 0 hangs up, None is invalid
    Ports,          \* what the remote port may be set to at the start
    Unsupported,    \* a baud rate the server does not take
    MaxCalls        \* bound: requests of applications, and what the server sends

VARIABLES
    st,         \* the State behind the lock
    owing,      \* of "reader" and "main", those that are still to call notify_polls
    reader,     \* the event reader: "run", "asleep" on event_cv, "send" or "done"
    held, slot, \* the event the reader sends, and the one in the channel
    suspended,  \* remote_tx_suspended
    running,    \* the main task has not shut the device down
    port,       \* the settings of the remote port
    toHost,     \* what the server sent
    readBytes,  \* history: the bytes applications read
    wire,       \* history: the writes whose bytes the server got
    calls

deviceVars == <<st, owing, reader, held, slot, suspended, running, port, toHost,
                readBytes, wire, calls>>

-------------------------------------------------------------------------------
\* SerialState and termios.  Data size 5 or 8 and parity are treated alike.
Fields == <<"dtr", "baud", "data", "stop", "out", "in", "brk">>

\* stop_from_cflag, flow_out_from_flags, flow_in_from_flags.
StopOf(t) == IF ~t.cstopb THEN "1" ELSE IF t.cs = 5 THEN "1.5" ELSE "2"
OutOf(t) == IF t.crtscts THEN "hw" ELSE IF t.ixon THEN "xon" ELSE "no"
InOf(t) == IF t.crtscts THEN "hw" ELSE IF t.ixoff THEN "xon" ELSE "no"

\* sync_termios_from_serial: CRTSCTS covers both directions.
TermiosOf(s, hung) ==
    LET hw == s.out = "hw" \/ s.in = "hw"
    IN  [baud |-> IF hung THEN 0 ELSE s.baud, cs |-> s.data, cstopb |-> s.stop # "1",
         crtscts |-> hw, ixon |-> ~hw /\ s.out = "xon", ixoff |-> ~hw /\ s.in = "xon"]

DataEvent(id, n) == [kind |-> "data", id |-> id, n |-> n]
SetEvent(f, v, drained) == [kind |-> "set", field |-> f, val |-> v, drained |-> drained]
Simple(k) == [kind |-> k]
Break(drained) == <<SetEvent("brk", TRUE, drained), SetEvent("brk", FALSE, drained)>>

\* apply_local_termios: an event for every setting that changes.
ApplyLocal(s, t, drained) ==
    LET next == [s.serial EXCEPT
                    !.dtr = IF t.baud = 0 THEN FALSE ELSE @ \/ s.hung,
                    !.baud = IF t.baud = 0 THEN @ ELSE t.baud,
                    !.data = t.cs, !.stop = StopOf(t), !.out = OutOf(t), !.in = InOf(t)]
        changed == SelectSeq(Fields, LAMBDA f : next[f] # s.serial[f])
    IN  [s EXCEPT !.serial = next, !.hung = t.baud = 0,
                  !.termios = TermiosOf(next, t.baud = 0),
                  !.events = @ \o [i \in DOMAIN changed |->
                                     SetEvent(changed[i], next[changed[i]], drained)]]

\* apply_termios: an invalid baud rate is refused after the flush.
ApplyTermios(s, t, flush, drained) ==
    LET flushed == IF flush THEN [s EXCEPT !.rx = <<>>] ELSE s
    IN  IF t.baud = None THEN flushed ELSE ApplyLocal(flushed, t, drained)

Least(a, b) == IF a < b THEN a ELSE b
Accept(s, id, n) ==
    LET count == Least(n, Least(TxLimit - s.tx, IoChunk))
    IN  [s EXCEPT !.events = Append(@, DataEvent(id, count)), !.tx = @ + count]

\* Mutant: at most one parked write is admitted when room appears.
FillOne(s) ==
    IF s.tx < TxLimit /\ s.writes # <<>>
    THEN Accept([s EXCEPT !.writes = Tail(@)], Head(s.writes).id, Head(s.writes).n) ELSE s

\* fill_pending_writes.
RECURSIVE FillPendingWrites(_)
FillPendingWrites(s) ==
    IF s.tx < TxLimit /\ s.writes # <<>>
    THEN FillPendingWrites(Accept([s EXCEPT !.writes = Tail(@)], Head(s.writes).id, Head(s.writes).n))
    ELSE s

\* complete_pending_ioctls, once no data is queued.
RECURSIVE Completed(_)
Completed(s) ==
    IF s.ioctls = <<>> THEN s
    ELSE LET p == Head(s.ioctls)
             rest == [s EXCEPT !.ioctls = Tail(@)]
         IN  Completed(IF p.action = "termios" THEN ApplyTermios(rest, p.input, p.flush, TRUE)
                       ELSE [rest EXCEPT !.events = IF p.flush THEN @ \o Break(TRUE) ELSE @])

CompletePendingIoctls(s) == IF s.tx # 0 THEN s ELSE Completed(s)

\* Mutant: parked settings are completed although writes were admitted first.
SettledWritesFirst(s) == Completed(FillPendingWrites(s))

\* What next_event and TCFLSH do once data has left the queue.
Settled(s) == FillPendingWrites(CompletePendingIoctls(s))

Readiness(s) == (IF s.rx # <<>> THEN {"in"} ELSE {}) \cup (IF s.tx < TxLimit THEN {"out"} ELSE {})

Wake == reader' = IF reader = "asleep" THEN "run" ELSE reader

-------------------------------------------------------------------------------
\* A request reaches the session thread: dispatch gives it the next id.
Call == /\ st.opens > 0 /\ calls < MaxCalls
        /\ calls' = calls + 1
Outside == UNCHANGED <<held, slot, suspended, running, port, toHost, wire>>
NotifySoon(t) == owing' = owing \cup {t}

Read ==
    /\ Call /\ Outside /\ UNCHANGED <<owing, reader>>
    /\ ~st.stopping
    /\ \E size \in 1..2 :
       \/ /\ st.rx # <<>>
          /\ LET n == Least(size, Len(st.rx)) IN
             /\ st' = [st EXCEPT !.rx = SubSeq(@, n + 1, Len(@)), !.polls = {}]
             /\ readBytes' = readBytes \o SubSeq(st.rx, 1, n)
       \/ /\ st.rx = <<>>
          /\ st' = [st EXCEPT !.reads = Append(@, [id |-> calls', n |-> size])]
          /\ UNCHANGED readBytes

Write ==
    /\ Call /\ Outside /\ UNCHANGED <<owing, readBytes>>
    /\ ~st.stopping
    /\ \E size \in 1..2 :
       \/ /\ st.tx < TxLimit
          /\ st' = [Accept(st, calls', size) EXCEPT !.polls = {}]
          /\ Wake
       \/ /\ st.tx >= TxLimit
          /\ st' = [st EXCEPT !.writes = Append(@, [id |-> calls', n |-> size])]
          /\ UNCHANGED reader

\* TCSETS, TCSETSW and TCSETSF, and their termios2 forms.
SetTermios ==
    /\ Call /\ Outside /\ UNCHANGED <<owing, readBytes>>
    /\ \E t \in Inputs, mode \in {"now", "drain", "flush"} :
       \/ /\ mode = "now" \/ st.tx = 0
          /\ LET set == ApplyTermios(st, t, mode = "flush", mode # "now")
             IN  IF t.baud = None THEN st' = set /\ UNCHANGED reader
                 ELSE st' = [set EXCEPT !.polls = {}] /\ Wake
       \/ /\ mode # "now" /\ st.tx # 0
          /\ st' = [st EXCEPT !.ioctls = Append(@, [id |-> calls', action |-> "termios",
                                                    input |-> t, flush |-> mode = "flush"])]
          /\ UNCHANGED reader

\* TCSBRK: tcdrain, and with argument 0 a break after the drain.
Tcsbrk ==
    /\ Call /\ Outside /\ UNCHANGED <<owing, readBytes>>
    /\ \E send \in BOOLEAN :
       \/ /\ st.tx = 0 /\ send
          /\ st' = [st EXCEPT !.events = @ \o Break(TRUE)]
          /\ Wake
       \/ /\ st.tx # 0
          /\ st' = [st EXCEPT !.ioctls = Append(@, [id |-> calls', action |-> "break",
                                                    input |-> None, flush |-> send])]
          /\ UNCHANGED reader

\* TIOCMSET, TIOCMBIS, TIOCMBIC, TIOCSBRK and TIOCCBRK: an output is changed.
SetOutput ==
    /\ Call /\ Outside /\ UNCHANGED <<owing, readBytes>>
    /\ \E f \in {"dtr", "brk"} :
          st' = [st EXCEPT !.serial[f] = ~@, !.events = Append(@, SetEvent(f, ~st.serial[f], FALSE))]
    /\ Wake

\* TCFLSH.
Flush ==
    /\ Call /\ Outside /\ UNCHANGED <<owing, readBytes>>
    /\ \E which \in SUBSET {"in", "out"} \ {{}} :
          st' = LET rxGone == IF "in" \in which THEN [st EXCEPT !.rx = <<>>] ELSE st
                    txGone == IF "out" \in which
                              THEN [rxGone EXCEPT !.tx = 0, !.events =
                                       SelectSeq(@, LAMBDA e : e.kind # "data")]
                              ELSE rxGone
                IN  Settled([txGone EXCEPT !.events = Append(@, Simple("purge")), !.polls = {}])
    /\ Wake

\* TCXONC, TIOCEXCL and TIOCNXCL.
FlowOrExclusive ==
    /\ Call /\ Outside /\ UNCHANGED <<owing, readBytes>>
    /\ \/ \E k \in {"suspend", "resume"} :
             st' = [st EXCEPT !.events = Append(@, Simple(k))] /\ Wake
       \/ \E on \in BOOLEAN : st' = [st EXCEPT !.exclusive = on] /\ UNCHANGED reader

\* poll with a notifier: parked unless an event asked for is there.
Poll ==
    /\ Call /\ Outside /\ UNCHANGED <<owing, reader, readBytes>>
    /\ \E asked \in {{"in"}, {"out"}} :
          st' = IF ~st.stopping /\ asked \cap Readiness(st) = {}
                THEN [st EXCEPT !.polls = @ \cup {asked}] ELSE st

Open ==
    /\ calls < MaxCalls /\ st.opens < 2
    /\ calls' = calls + 1
    /\ ~st.stopping /\ ~(st.exclusive /\ st.opens # 0)
    /\ st' = [st EXCEPT !.opens = @ + 1]
    /\ Outside /\ UNCHANGED <<owing, reader, readBytes>>

\* A file is released once its requests are answered.
Release ==
    /\ st.opens > 0
    /\ st.opens > 1 \/ st.reads \o st.writes \o st.ioctls = <<>>
    /\ st' = [st EXCEPT !.opens = @ - 1, !.exclusive = @ /\ st.opens > 1]
    /\ Outside /\ UNCHANGED <<owing, reader, readBytes, calls>>

\* interrupt: a parked request is answered with EINTR.
Interrupt ==
    /\ \E id \in 1..calls :
       LET others(q) == SelectSeq(q, LAMBDA p : p.id # id) IN
       /\ st' = [st EXCEPT !.reads = others(@), !.writes = others(@), !.ioctls = others(@)]
       /\ st' # st
    /\ Outside /\ UNCHANGED <<owing, reader, readBytes, calls>>

NotifyPolls ==
    /\ \E t \in owing : owing' = owing \ {t}
    /\ st' = [st EXCEPT !.polls = {}]
    /\ Outside /\ UNCHANGED <<reader, readBytes, calls>>

-------------------------------------------------------------------------------
\* next_event and the thread that feeds the channel.
ReaderSleeps ==
    /\ reader = "run" /\ "reader" \notin owing
    /\ st.events = <<>>
    /\ reader' = IF st.stopping THEN "done" ELSE "asleep"
    /\ Outside /\ UNCHANGED <<st, owing, readBytes, calls>>

ReaderTakes ==
    /\ reader = "run" /\ "reader" \notin owing
    /\ st.events # <<>>
    /\ LET e == Head(st.events) IN
       /\ held' = e
       /\ st' = Settled([st EXCEPT !.events = Tail(@), !.tx = IF e.kind = "data" THEN @ - e.n ELSE @])
    /\ reader' = "send"
    /\ NotifySoon("reader")
    /\ UNCHANGED <<slot, suspended, running, port, toHost, readBytes, wire, calls>>

\* blocking_send, which fails once the main task has dropped the receiver.
ReaderSends ==
    /\ reader = "send" /\ "reader" \notin owing
    /\ \/ running /\ slot = None /\ slot' = held /\ reader' = "run"
       \/ ~running /\ reader' = "done" /\ UNCHANGED slot
    /\ held' = None
    /\ UNCHANGED <<st, owing, suspended, running, port, toHost, readBytes, wire, calls>>

\* The server, as rfc2217.rs: a SET is applied where supported and the value now in
\* force confirmed; one of the outbound flow control changes the inbound one too.
PortAfter(e) ==
    IF e.kind # "set" \/ (e.field = "baud" /\ e.val = Unsupported) THEN port
    ELSE IF e.field = "out" THEN [port EXCEPT !.out = e.val, !.in = e.val]
    ELSE [port EXCEPT ![e.field] = e.val]

\* send_device_event by the main task, unless the remote suspended it; the server
\* takes what is sent at once and its answers are under way in toHost.
MainSends ==
    /\ running /\ ~suspended /\ slot # None /\ "main" \notin owing
    /\ port' = PortAfter(slot)
    /\ toHost' = IF slot.kind = "set"
                 THEN Append(toHost, SetEvent(slot.field, port'[slot.field], FALSE)) ELSE toHost
    /\ wire' = IF slot.kind = "data" THEN Append(wire, slot.id) ELSE wire
    /\ slot' = None
    /\ UNCHANGED <<st, owing, reader, held, suspended, running, readBytes, calls>>

\* SerialState::update and remote_update.
Updated(s, f, v) ==
    LET next == [s.serial EXCEPT ![f] = v]
    IN  [s EXCEPT !.serial = next, !.termios = TermiosOf(next, s.hung)]

\* push_rx serves the parked reads in turn.
RECURSIVE Served(_, _)
Served(s, bytes) ==
    IF s.rx = <<>> \/ s.reads = <<>> THEN <<s, bytes>>
    ELSE LET n == Least(Head(s.reads).n, Len(s.rx))
         IN  Served([s EXCEPT !.rx = SubSeq(@, n + 1, Len(@)), !.reads = Tail(@)],
                    bytes \o SubSeq(s.rx, 1, n))

\* stop.
Stopped(s) == [s EXCEPT !.stopping = TRUE, !.reads = <<>>, !.writes = <<>>, !.ioctls = <<>>,
                        !.polls = {}]

MainReceives ==
    /\ running /\ "main" \notin owing /\ toHost # <<>>
    /\ toHost' = Tail(toHost)
    /\ LET m == Head(toHost) IN
       \/ /\ m.kind = "data" /\ Len(st.rx) < RxLimit
          /\ LET served == Served([st EXCEPT !.rx = Append(@, m.n)], readBytes)
             IN  st' = served[1] /\ readBytes' = served[2]
          /\ NotifySoon("main")
          /\ UNCHANGED <<reader, slot, suspended, running>>
       \/ /\ m.kind = "data" /\ Len(st.rx) >= RxLimit
          /\ st' = Stopped(st) /\ Wake /\ slot' = None /\ running' = FALSE
          /\ UNCHANGED <<owing, suspended, readBytes>>
       \/ /\ m.kind = "set"
          /\ st' = Updated(st, m.field, m.val)
          /\ UNCHANGED <<owing, reader, slot, suspended, running, readBytes>>
       \/ /\ m.kind = "answers"
          /\ st' = [st EXCEPT !.serial = m.val, !.termios = TermiosOf(m.val, st.hung)]
          /\ UNCHANGED <<owing, reader, slot, suspended, running, readBytes>>
       \/ /\ m.kind \in {"suspend", "resume"}
          /\ suspended' = (m.kind = "suspend")
          /\ UNCHANGED <<st, owing, reader, slot, running, readBytes>>
    /\ UNCHANGED <<held, port, wire, calls>>

\* The session ends or is interrupted: shutdown, and the receiver is dropped.
Shutdown ==
    /\ running /\ "main" \notin owing
    /\ st' = Stopped(st)
    /\ Wake
    /\ slot' = None
    /\ running' = FALSE
    /\ UNCHANGED <<owing, held, suspended, port, toHost, readBytes, wire, calls>>

\* The CUSE loop ends; replies still parked are dropped, which answers them.
SessionEnds ==
    /\ ~running /\ st.opens > 0
    /\ st' = [Stopped(st) EXCEPT !.opens = 0, !.exclusive = FALSE]
    /\ Outside /\ UNCHANGED <<owing, reader, readBytes, calls>>

-------------------------------------------------------------------------------
ServerSends ==
    /\ running /\ calls < MaxCalls
    /\ calls' = calls + 1
    /\ \E m \in {DataEvent(0, calls'), Simple("suspend"), Simple("resume")} :
          toHost' = Append(toHost, m)
    /\ UNCHANGED <<st, owing, reader, held, slot, suspended, running, port, readBytes, wire>>

\* run_device has asked for every setting; the device starts with the answers, or
\* with the defaults when they are late, and the answers are handled again.
Defaults == [dtr |-> FALSE, baud |-> 1, data |-> 8, stop |-> "1", out |-> "no", in |-> "no",
             brk |-> FALSE]

DeviceInit ==
    /\ port \in Ports
    /\ \E s \in {port, Defaults} :
          st = [rx |-> <<>>, events |-> <<>>, tx |-> 0, serial |-> s, hung |-> FALSE,
                termios |-> TermiosOf(s, FALSE), stopping |-> FALSE, opens |-> 1,
                exclusive |-> FALSE, reads |-> <<>>, writes |-> <<>>, ioctls |-> <<>>, polls |-> {}]
    /\ toHost = <<[kind |-> "answers", val |-> port]>>
    /\ owing = {} /\ reader = "run" /\ held = None /\ slot = None
    /\ suspended = FALSE /\ running = TRUE
    /\ readBytes = <<>> /\ wire = <<>> /\ calls = 0

DeviceNext ==
    \/ Read \/ Write \/ SetTermios \/ Tcsbrk \/ SetOutput \/ Flush \/ FlowOrExclusive \/ Poll
    \/ Open \/ Release \/ Interrupt \/ NotifyPolls \/ ReaderSleeps \/ ReaderTakes \/ ReaderSends
    \/ MainSends \/ MainReceives \/ Shutdown \/ SessionEnds \/ ServerSends

DeviceSpec == DeviceInit /\ [][DeviceNext]_deviceVars

-------------------------------------------------------------------------------
(* Nobody waits for what is already there.  A read is parked only while there   *)
(* is nothing to read, a write while the queue is full, a drain while data is   *)
(* queued; once the device stops no read, write or poll is parked.  A parked    *)
(* poll whose event has come has a thread about to notify it, the reader sleeps *)
(* only on an empty queue, and a port nobody has open is not exclusive.         *)
NobodyForgotten ==
    /\ st.reads # <<>> => st.rx = <<>> /\ ~st.stopping
    /\ st.writes # <<>> => st.tx = TxLimit /\ ~st.stopping
    /\ st.ioctls # <<>> => st.tx # 0
    /\ st.stopping => st.polls = {}
    /\ (\E p \in st.polls : p \cap Readiness(st) # {}) => owing # {}
    /\ reader = "asleep" => st.events = <<>> /\ ~st.stopping
    /\ st.exclusive => st.opens > 0

\* What applications write leaves in the order of their calls and what the server
\* sends is read in order; tx_bytes counts what is queued; and a setting that was to
\* wait for the drain is never queued behind data.
StreamsIntact ==
    LET ids(s) == SelectSeq(s, LAMBDA e : e # None /\ e.kind = "data")
        queued == ids(<<slot, held>> \o st.events)
        order == wire \o [i \in DOMAIN queued |-> queued[i].id]
        arrived == readBytes \o st.rx
        data == ids(st.events)
        Sum[i \in 0..Len(data)] == IF i = 0 THEN 0 ELSE Sum[i - 1] + data[i].n
    IN  /\ \A i \in 1..Len(order) - 1 : order[i] < order[i + 1]
        /\ \A i \in 1..Len(arrived) - 1 : arrived[i] < arrived[i + 1]
        /\ st.tx = Sum[Len(data)]
        /\ \A i \in DOMAIN st.events, j \in DOMAIN st.events :
              i < j /\ st.events[j].kind = "set" /\ st.events[j].drained => st.events[i].kind # "data"

Settings(s) == [f \in {"dtr", "baud", "data", "stop", "out", "brk"} |-> s[f]]
AllQuiet == /\ running /\ toHost = <<>> /\ slot = None /\ held = None
            /\ st.events = <<>>

\* Once all is quiet, applications see the settings the remote port really has.
\* Inbound flow control is left out: the server changes it with the outbound one and
\* confirms only that.
ViewMatchesPort ==
    AllQuiet => /\ Settings(st.serial) = Settings(port)
                /\ st.termios = TermiosOf(st.serial, st.hung)

(* The device behaves like a local port.  Bytes leave and arrive in order and   *)
(* are counted, a setting made with TCSADRAIN does not overtake or fall behind  *)
(* the data it waits for, and once all is quiet applications see the settings   *)
(* of the remote port, whatever requests, refusals, late answers and hang-ups   *)
(* crossed on the way.                                                          *)
LikeLocalPort == StreamsIntact /\ ViewMatchesPort
===============================================================================
