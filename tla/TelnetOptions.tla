---------------------------- MODULE TelnetOptions -----------------------------
(* TELNET option negotiation (microtun-telnet): the RFC 1143 state machine of   *)
(* lib.rs under the client session of client.rs and under the two servers, the  *)
(* RFC 2217 access server of server.rs and the shell of microtun-cli, which     *)
(* borrows the connection for binary transfers (binary.rs).  A connection is    *)
(* two FIFO channels of commands; the COM-PORT messages that read and set the   *)
(* serial port travel in the same channels.                                     *)
EXTENDS Naturals, Sequences, Optional

CONSTANTS
    Servers,       \* which of "rfc2217", "shell" the client may be connected to
    Bauds,         \* settings of the serial port
    MaxRequests    \* bound: mode changes, transfers and settings asked for

Opts == {"BINARY", "SGA", "ECHO", "COM"}
Ends == {"client", "server"}
Sides == {"us", "him"}
OtherEnd(e) == IF e = "client" THEN "server" ELSE "client"

VARIABLES
    server,      \* the kind of server
    started,     \* its initial negotiation was sent
    opt,         \* end -> side -> option -> RFC 1143 state
    chan,        \* end -> commands on their way to it
    serial,      \* client: None, or [status, baud] as the server reported it
    queried,     \* client: serial_queried
    snapshot,    \* client: the options enabled when serial mode was entered
    transfer,    \* shell: "idle", "negotiating" or "binary"
    uart,        \* rfc2217: the setting of the serial port
    isOpen,      \* the connection
    requests     \* counts what users asked for

telnetVars == <<server, started, opt, chan, serial, queried, snapshot, transfer, uart,
                isOpen, requests>>

\* ClientPolicy and the two ServerPolicy.
Supports(e, side, o) ==
    CASE e = "client" /\ side = "us"  -> o \in {"BINARY", "SGA"} \/ (o = "COM" /\ serial # None)
      [] e = "client" /\ side = "him" -> o \in {"BINARY", "SGA"} \/ (o = "ECHO" /\ serial = None)
      [] e = "server" /\ side = "us"  -> o \in {"BINARY", "SGA"} \/ (o = "ECHO" /\ server = "shell")
      [] e = "server" /\ side = "him" -> o \in {"BINARY", "SGA"} \/ (o = "COM" /\ server = "rfc2217")

-------------------------------------------------------------------------------
(* The Q method: each operator gives the next state and whether a command is    *)
(* sent, TRUE for the positive one (WILL, DO), FALSE for the negative, or None. *)

RequestState(q, enable) ==
    CASE q = "No" /\ enable                  -> [q |-> "WantYes", send |-> TRUE]
      [] q = "Yes" /\ ~enable                -> [q |-> "WantNo", send |-> FALSE]
      [] q = "WantNo" /\ enable              -> [q |-> "WantNoOpposite", send |-> None]
      [] q = "WantNoOpposite" /\ ~enable     -> [q |-> "WantNo", send |-> None]
      [] q = "WantYes" /\ ~enable            -> [q |-> "WantYesOpposite", send |-> None]
      [] q = "WantYesOpposite" /\ enable     -> [q |-> "WantYes", send |-> None]
      [] OTHER                               -> [q |-> q, send |-> None]

\* Mutant: a peer that agrees late, after the request was withdrawn, is not told.
ReceivePositiveSilent(q, supported) ==
    CASE q = "No"              -> [q |-> IF supported THEN "Yes" ELSE "No", send |-> supported]
      [] q \in {"Yes", "WantNoOpposite", "WantYes"} -> [q |-> "Yes", send |-> None]
      [] q \in {"WantNo", "WantYesOpposite"}        -> [q |-> "No", send |-> None]

ReceivePositive(q, supported) ==
    CASE q = "No"              -> [q |-> IF supported THEN "Yes" ELSE "No", send |-> supported]
      [] q = "Yes"             -> [q |-> "Yes", send |-> None]
      [] q = "WantNo"          -> [q |-> "No", send |-> None]
      [] q = "WantNoOpposite"  -> [q |-> "Yes", send |-> None]
      [] q = "WantYes"         -> [q |-> "Yes", send |-> None]
      [] q = "WantYesOpposite" -> [q |-> "WantNo", send |-> FALSE]

ReceiveNegative(q) ==
    CASE q = "Yes"             -> [q |-> "No", send |-> FALSE]
      [] q = "WantNoOpposite"  -> [q |-> "WantYes", send |-> TRUE]
      [] OTHER                 -> [q |-> "No", send |-> None]

Command(side, yes, o) == [kind |-> "option", side |-> side, yes |-> yes, opt |-> o]

\* A COM-PORT message: the client's carries a value or, where the wire has its zero,
\* None; the server's carries the setting of the uart.
Message(origin, value) == [kind |-> origin, value |-> value]

\* SerialRequest::from_message: a client's message without a value is a query.
IsSet(c) == c.value # None

\* The requests <<side, option, enable>> made in order on an end's options, and
\* the commands they append.
Apply(states, request) ==
    LET new == RequestState(states.opts[request[1]][request[2]], request[3])
    IN  [opts |-> [states.opts EXCEPT ![request[1]][request[2]] = new.q],
         out  |-> IF new.send = None THEN states.out
                  ELSE Append(states.out, Command(request[1], new.send, request[2]))]

RECURSIVE Requested(_, _)
Requested(states, asks) ==
    IF asks = <<>> THEN states ELSE Requested(Apply(states, Head(asks)), Tail(asks))

\* End e makes the requests and writes the commands, then the messages.
Asks(e, asks, messages) ==
    LET done == Requested([opts |-> opt[e], out |-> <<>>], asks)
    IN  /\ opt' = [opt EXCEPT ![e] = done.opts]
        /\ chan' = [chan EXCEPT ![OtherEnd(e)] = @ \o done.out \o messages]

BinaryMode(enable) == << <<"us", "BINARY", enable>>, <<"him", "BINARY", enable>> >>

BinaryEnabled(e) == \A side \in Sides : opt[e][side]["BINARY"] = "Yes"

-------------------------------------------------------------------------------
\* SerialConsoleState::default.
NewConsoleState == [status |-> "Negotiating", baud |-> None]

\* SerialConsoleState::update: a report of no value leaves what is known.
Learned(state, value) == IF value = None THEN state ELSE [state EXCEPT !.baud = value]

\* append_initial_serial_query.
QueryMessages == <<Message("client", None)>>

Request == requests < MaxRequests /\ requests' = requests + 1

\* ServerSession::start, or Telnet::initial_negotiation of the shell.
StartServer ==
    /\ isOpen /\ ~started
    /\ started' = TRUE
    /\ Asks("server",
            IF server = "rfc2217"
            THEN BinaryMode(TRUE) \o << <<"us", "SGA", TRUE>>, <<"him", "SGA", TRUE>>,
                                        <<"him", "COM", TRUE>> >>
            ELSE << <<"us", "ECHO", TRUE>>, <<"us", "SGA", TRUE>>, <<"him", "SGA", TRUE>> >>,
            <<>>)
    /\ UNCHANGED <<server, serial, queried, snapshot, transfer, uart, isOpen, requests>>

EnterSerialMode ==
    /\ isOpen /\ serial = None /\ Request
    /\ snapshot' = {<<side, o>> \in Sides \X Opts : opt["client"][side][o] = "Yes"}
    /\ serial' = NewConsoleState
    /\ queried' = FALSE
    /\ Asks("client", BinaryMode(TRUE) \o << <<"us", "SGA", TRUE>>, <<"him", "SGA", TRUE>>,
                                             <<"him", "ECHO", FALSE>>, <<"us", "COM", TRUE>> >>,
            <<>>)
    /\ UNCHANGED <<server, started, transfer, uart, isOpen>>

Restored == << <<"us", "BINARY">>, <<"him", "BINARY">>, <<"us", "SGA">>, <<"him", "SGA">>,
               <<"him", "ECHO">> >>

LeaveSerialMode ==
    /\ isOpen /\ serial # None /\ Request
    /\ serial' = None
    /\ queried' = FALSE
    /\ snapshot' = None
    /\ Asks("client", << <<"us", "COM", FALSE>> >>
                      \o [i \in 1..5 |-> Append(Restored[i], Restored[i] \in snapshot)], <<>>)
    /\ UNCHANGED <<server, started, transfer, uart, isOpen>>

\* set_baud, refused as SerialInactive before the option is active.
SetBaud(b) ==
    /\ isOpen /\ serial # None /\ Request
    /\ serial.status = "Active"
    /\ Asks("client", <<>>, <<Message("client", b)>>)
    /\ UNCHANGED <<server, started, serial, queried, snapshot, transfer, uart, isOpen>>

\* BinaryMode::negotiate of a transfer the shell starts; it succeeds at once when
\* both directions are already binary.
BeginTransfer ==
    /\ isOpen /\ started /\ server = "shell" /\ transfer = "idle" /\ Request
    /\ Asks("server", BinaryMode(TRUE), <<>>)
    /\ transfer' = IF BinaryEnabled("server") THEN "binary" ELSE "negotiating"
    /\ UNCHANGED <<server, started, serial, queried, snapshot, uart, isOpen>>

\* finish after the transfer, abort when the negotiation times out.
EndTransfer ==
    /\ isOpen /\ transfer # "idle"
    /\ Asks("server", BinaryMode(FALSE), <<>>)
    /\ transfer' = "idle"
    /\ UNCHANGED <<server, started, serial, queried, snapshot, uart, isOpen, requests>>

-------------------------------------------------------------------------------
\* negotiate(): the option's new state and the reply.
Negotiated(e, c) ==
    LET side == IF c.side = "us" THEN "him" ELSE "us"
        q == opt[e][side][c.opt]
    IN  [side |-> side, was |-> q,
         now |-> IF c.yes THEN ReceivePositive(q, Supports(e, side, c.opt)) ELSE ReceiveNegative(q)]

\* transition_event, and OptionRefused for a request that is turned down.
Enabled(n) == n.was # "Yes" /\ n.now.q = "Yes"
Disabled(n) == (n.was = "Yes" /\ n.now.q # "Yes") \/ (n.was = "WantYes" /\ n.now.q = "No")

Reply(n, c) == IF n.now.send = None THEN <<>> ELSE <<Command(n.side, n.now.send, c.opt)>>

\* The discovery query, once per activation.
InitialQuery == IF queried THEN <<>> ELSE QueryMessages

ClientReceive ==
    /\ isOpen /\ chan["client"] # <<>>
    /\ LET c == Head(chan["client"]) IN
       \/ /\ c.kind = "option"
          /\ LET n == Negotiated("client", c)
                 com == c.opt = "COM" /\ n.side = "us"
                 active == com /\ Enabled(n)
                 refused == com /\ Disabled(n)
             IN  /\ opt' = [opt EXCEPT !["client"][n.side][c.opt] = n.now.q]
                 /\ serial' = IF serial = None THEN None
                              ELSE [serial EXCEPT !.status = IF active THEN "Active"
                                                             ELSE IF refused THEN "Refused" ELSE @]
                 /\ queried' = IF active THEN serial # None ELSE IF refused THEN FALSE ELSE queried
                 /\ chan' = [client |-> Tail(chan["client"]),
                             server |-> chan["server"] \o Reply(n, c)
                                        \o (IF active /\ serial # None THEN InitialQuery ELSE <<>>)]
       \/ /\ c.kind = "server"
          /\ serial' = IF serial = None THEN None ELSE Learned(serial, c.value)
          /\ chan' = [chan EXCEPT !["client"] = Tail(@)]
          /\ UNCHANGED <<opt, queried>>
    /\ UNCHANGED <<server, started, snapshot, transfer, uart, isOpen, requests>>

\* ServerSession::serial_active.
ServerActive(opts) == /\ \A side \in Sides : opts[side]["BINARY"] = "Yes"
                      /\ opts["him"]["COM"] = "Yes"

\* required_option_refused: BINARY either way, or the client's COM-PORT, is disabled
\* or refused.
RequiredRefused(n, c) == Disabled(n) /\ (c.opt = "BINARY" \/ (c.opt = "COM" /\ n.side = "him"))

\* The confirmation of a setting carries what the uart has now.
Confirmation(c, actual) == Message("server", actual)

Close == /\ isOpen' = FALSE
         /\ chan' = [e \in Ends |-> <<>>]

\* BinaryMode::negotiate after a command: binary, refused and aborted, or on.
NegotiateTransfer(opts) ==
    LET asked(side) == opts[side]["BINARY"] IN
    IF transfer # "negotiating" THEN transfer
    ELSE IF \A side \in Sides : asked(side) = "Yes" THEN "binary"
    ELSE IF \E side \in Sides : asked(side) = "No" THEN "refused"
    ELSE "negotiating"

ServerReceive ==
    /\ isOpen /\ chan["server"] # <<>>
    /\ LET c == Head(chan["server"]) IN
       \/ /\ c.kind = "option"
          /\ LET n == Negotiated("server", c)
                 new == [opt["server"] EXCEPT ![n.side][c.opt] = n.now.q]
                 refused == (ServerActive(opt["server"]) /\ ~ServerActive(new))
                            \/ RequiredRefused(n, c)
                 next == NegotiateTransfer(new)
                 done == IF next = "refused"
                         THEN Requested([opts |-> new, out |-> Reply(n, c)], BinaryMode(FALSE))
                         ELSE [opts |-> new, out |-> Reply(n, c)]
             IN  /\ opt' = [opt EXCEPT !["server"] = done.opts]
                 /\ transfer' = IF next = "refused" THEN "idle" ELSE next
                 /\ IF server = "rfc2217" /\ refused
                    THEN Close
                    ELSE /\ chan' = [server |-> Tail(chan["server"]),
                                     client |-> chan["client"] \o done.out]
                         /\ UNCHANGED isOpen
          /\ UNCHANGED uart
       \/ \* handle_serial_request: the UART takes the setting or rolls it back, and the
          \* actual setting is confirmed; a reply while inactive ends the session.
          /\ c.kind = "client"
          /\ uart' \in IF IsSet(c) THEN {uart, c.value} ELSE {uart}
          /\ IF ServerActive(opt["server"])
             THEN /\ chan' = [server |-> Tail(chan["server"]),
                              client |-> Append(chan["client"], Confirmation(c, uart'))]
                  /\ UNCHANGED isOpen
             ELSE Close
          /\ UNCHANGED <<opt, transfer>>
    /\ UNCHANGED <<server, started, serial, queried, snapshot, requests>>

TelnetInit ==
    /\ server \in Servers
    /\ started = FALSE
    /\ opt = [e \in Ends |-> [s \in Sides |-> [o \in Opts |-> "No"]]]
    /\ chan = [e \in Ends |-> <<>>]
    /\ serial = None /\ queried = FALSE /\ snapshot = None
    /\ transfer = "idle"
    /\ uart \in Bauds
    /\ isOpen = TRUE
    /\ requests = 0

TelnetNext ==
    \/ StartServer
    \/ EnterSerialMode
    \/ LeaveSerialMode
    \/ \E b \in Bauds : SetBaud(b)
    \/ BeginTransfer
    \/ EndTransfer
    \/ ClientReceive
    \/ ServerReceive

TelnetSpec == TelnetInit /\ [][TelnetNext]_telnetVars

-------------------------------------------------------------------------------
Quiet == isOpen /\ \A e \in Ends : chan[e] = <<>>

\* No request is left pending, and an option one end performs is one the other lets
\* it perform.
NegotiationAgrees ==
    \A o \in Opts, e \in Ends :
        /\ opt[e]["us"][o] \in {"No", "Yes"}
        /\ opt[e]["us"][o] = opt[OtherEnd(e)]["him"][o]

\* If the access server is active so is a client in serial mode, and then it was told
\* the setting the port really has.
PortIsKnown ==
    started /\ server = "rfc2217" /\ serial # None =>
        /\ serial.status = "Active" <=> ServerActive(opt["server"])
        /\ serial.status = "Active" => serial.baud = uart

(* However the two ends' requests, reversals and answers cross on the wire, a   *)
(* connection with nothing under way is one both ends describe alike: on every  *)
(* option (RFC 1143 as lib.rs implements it), on whether the serial port is in  *)
(* use, and on its setting, whatever the UART made of the settings it was sent  *)
(* (handle_serial_request confirms the actual one).                             *)
EndsAgree == Quiet => NegotiationAgrees /\ PortIsKnown
===============================================================================
