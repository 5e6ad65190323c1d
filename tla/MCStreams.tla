------------------------------ MODULE MCStreams -------------------------------
(* The parts that carry a stream of bytes between two ends or into flash, in   *)
(* one run: TELNET options and framing, the serial bridge and the serial       *)
(* device, the WebSocket, YMODEM, the image verifier and sinks, and the two    *)
(* boards' updates.  A behaviour exercises one of them and leaves the others   *)
(* in one of their initial states.                                             *)
EXTENDS TelnetOptions, TelnetFraming, SerialBridge, SerialDevice, WebSocket, Ymodem,
        ImageVerifier, FlashSink, EspUpdate, Stm32Update, TLC

CONSTANT Parts      \* the parts this instance exercises

VARIABLE part

MCPlain == [baud |-> 1, cs |-> 8, cstopb |-> FALSE, crtscts |-> FALSE, ixon |-> FALSE, ixoff |-> FALSE]

\* Hang up, an unsupported rate with another flow control, and an invalid rate.
MCInputs == {[MCPlain EXCEPT !.baud = 0], [MCPlain EXCEPT !.baud = 2, !.ixon = TRUE],
             [MCPlain EXCEPT !.baud = None]}
MCPorts == {[Defaults EXCEPT !.dtr = TRUE]}

ImageHead(size, prot, ver) == <<Number("version", ver), Number("size", size), Number("protected", prot)>>
Body(x, y) == <<Named("payload", x), Named("payload", y)>>
Entry(t, values) == <<Named("type", t), Number("len", Len(values))>> \o values
Tlv(t, value) == Entry(t, <<value>>)
Area(magic, entries) == <<Named("magic", magic), Number("total", 2 + Len(entries))>> \o entries
BoardIds(vid, cid) == Area("PROTECTED", Tlv("VID", Value(vid, <<>>)) \o Tlv("CID", Value(cid, <<>>)))
Proof(key, digest) ==
    Tlv("KEYHASH", Value(key, <<>>)) \o Tlv("SHA256", Value("", digest)) \o Tlv("ED25519", Value(key, digest))
Signed(key, digest) == Area("INFO", Proof(key, digest))
Image(ver, vid, cid) == ImageHead(2, 8, ver) \o Body("a", "b") \o BoardIds(vid, cid)

Current == Image(2, "v", "c")
SignedRelease == Current \o Signed("k", Current)
OtherPayload == ImageHead(2, 8, 2) \o Body("a", "x") \o BoardIds("v", "c")
Bare == ImageHead(2, 0, 2) \o Body("a", "b")
TwoHashes == <<Value("", Current), Value("", Current)>>

\* A release with padding, with something after it, and with an entry nobody knows;
\* another payload under its signature; an old version, another board, another key, no
\* board ids, board ids that nothing covers; a size over the limit; and a release cut
\* short.
MCContents ==
    {SignedRelease \o <<Number("pad", 0)>>, SignedRelease \o <<Number("junk", 0)>>,
     Current \o Area("INFO", Entry("OTHER", Body("a", "b") \o <<Number("pad", 0)>>) \o Proof("k", Current)),
     OtherPayload \o Signed("k", Current),
     Image(1, "v", "c") \o Signed("k", Image(1, "v", "c")),
     Image(2, "v", "d") \o Signed("k", Image(2, "v", "d")),
     Current \o Signed("j", Current),
     Bare \o Signed("k", Bare),
     Bare \o Area("INFO", Beyond(BoardIds("v", "c"), 2) \o Proof("k", Bare)),
     ImageHead(3, 8, 2) \o Body("a", "b") \o BoardIds("v", "c"),
     First(SignedRelease, 20)}

\* What is malformed: the header, the size of the protected area, the magic of an area;
\* an entry twice, too long, longer than the room for it, or longer than its area; a unit
\* left over; and a signature of the image itself.
MCMalformed ==
    {[SignedRelease EXCEPT ![1].kind = "other"],
     [SignedRelease EXCEPT ![3].num = 1],
     [SignedRelease EXCEPT ![Len(Current) + 1].name = "OTHER"],
     Current \o Area("INFO", Tlv("KEYHASH", Value("k", <<>>)) \o Proof("k", Current)),
     Current \o Area("INFO", Entry("SHA256", TwoHashes) \o Proof("k", Current)),
     Current \o Area("INFO", Entry("SHA256", TwoHashes \o TwoHashes) \o Proof("k", Current)),
     Current \o Area("INFO", <<Named("type", "OTHER"), Number("len", 20)>> \o Proof("k", Current)),
     Current \o Area("INFO", Proof("k", Current) \o <<Number("pad", 0)>>),
     Current \o Area("INFO", Entry("SIG_PURE", <<>>) \o Proof("k", Current))}

MCContainers == MCContents \cup MCMalformed

Frame(op, fin, len, masked) == [op |-> op, fin |-> fin, len |-> len, masked |-> masked]

\* Messages whole and in fragments, control frames, and one frame for each refusal.
MCFrames ==
    {Frame("TEXT", TRUE, 2, TRUE), Frame("TEXT", FALSE, 2, TRUE),
     Frame("CONT", TRUE, 1, TRUE), Frame("CONT", FALSE, 0, TRUE),
     Frame("PING", TRUE, 1, TRUE), Frame("PONG", TRUE, 0, TRUE), Frame("CLOSE", TRUE, 0, TRUE),
     Frame("BINARY", TRUE, 0, TRUE), Frame("PING", FALSE, 0, TRUE), Frame("RESERVED", TRUE, 0, TRUE),
     Frame("TEXT", TRUE, 1, FALSE), Frame("TEXT", TRUE, 4, TRUE)}

MCWord == "esp32" :> 1 @@ "stm32" :> 3
MCCapacity == "esp32" :> 8 @@ "stm32" :> 8
MCSlotLen == "esp32" :> 8 @@ "stm32" :> 12

MCNewImages == <<"third", "fourth">>
MCStmImages == <<"second", "third">>

partVars == <<part, telnetVars, frameVars, bridgeVars, deviceVars, wsVars, ymodemVars,
              imageVars, sinkVars, espVars, stmVars>>

\* One initial state for each part that rests.
RestingAlike ==
    /\ part # "telnet" => server = "shell" /\ uart = 1
    /\ part # "device" => st.serial = Defaults
    /\ part # "image" => container = Bare \o Signed("k", Bare)
    /\ part # "sink" => board = "esp32" /\ payload = [len |-> 2, magic |-> TRUE, good |-> TRUE]
    /\ part # "esp" => slots[1] = "partial"
    /\ part # "stm" => record = "good"

PartInit ==
    /\ part \in Parts
    /\ TelnetInit /\ FrameInit /\ BridgeInit /\ DeviceInit /\ WsInit /\ YmodemInit
    /\ ImageInit /\ SinkInit /\ EspInit /\ StmInit
    /\ RestingAlike

PartNext ==
    \/ /\ part = "telnet" /\ TelnetNext
       /\ UNCHANGED <<part, frameVars, bridgeVars, deviceVars, wsVars, ymodemVars, imageVars,
                      sinkVars, espVars, stmVars>>
    \/ /\ part = "framing" /\ FrameNext
       /\ UNCHANGED <<part, telnetVars, bridgeVars, deviceVars, wsVars, ymodemVars, imageVars,
                      sinkVars, espVars, stmVars>>
    \/ /\ part = "bridge" /\ BridgeNext
       /\ UNCHANGED <<part, telnetVars, frameVars, deviceVars, wsVars, ymodemVars, imageVars,
                      sinkVars, espVars, stmVars>>
    \/ /\ part = "device" /\ DeviceNext
       /\ UNCHANGED <<part, telnetVars, frameVars, bridgeVars, wsVars, ymodemVars, imageVars,
                      sinkVars, espVars, stmVars>>
    \/ /\ part = "websocket" /\ WsNext
       /\ UNCHANGED <<part, telnetVars, frameVars, bridgeVars, deviceVars, ymodemVars, imageVars,
                      sinkVars, espVars, stmVars>>
    \/ /\ part = "ymodem" /\ YmodemNext
       /\ UNCHANGED <<part, telnetVars, frameVars, bridgeVars, deviceVars, wsVars, imageVars,
                      sinkVars, espVars, stmVars>>
    \/ /\ part = "image" /\ ImageNext
       /\ UNCHANGED <<part, telnetVars, frameVars, bridgeVars, deviceVars, wsVars, ymodemVars,
                      sinkVars, espVars, stmVars>>
    \/ /\ part = "sink" /\ SinkNext
       /\ UNCHANGED <<part, telnetVars, frameVars, bridgeVars, deviceVars, wsVars, ymodemVars,
                      imageVars, espVars, stmVars>>
    \/ /\ part = "esp" /\ EspNext
       /\ UNCHANGED <<part, telnetVars, frameVars, bridgeVars, deviceVars, wsVars, ymodemVars,
                      imageVars, sinkVars, stmVars>>
    \/ /\ part = "stm" /\ StmNext
       /\ UNCHANGED <<part, telnetVars, frameVars, bridgeVars, deviceVars, wsVars, ymodemVars,
                      imageVars, sinkVars, espVars>>

PartSpec == PartInit /\ [][PartNext]_partVars
===============================================================================
