-------------------------------- MODULE Ymodem --------------------------------
(* One YMODEM-1K file transfer: microtun-ymodem's send_with and receive_with    *)
(* over a channel that delays, loses or mangles.  A block is one unit, sound or *)
(* not (the inverse of its number, its CRC); a control byte is one unit.  The   *)
(* file is its blocks 1..FileBlocks.                                            *)
EXTENDS Naturals, Sequences

CONSTANTS
    FileBlocks,   \* data blocks of the file
    Modulus,      \* block numbers are taken modulo this (2^8 in the code)
    StartRetries, MaxRetries,   \* Config
    MaxLate,      \* bound: reads of the sender that time out
    MaxMangled    \* bound: units lost or mangled, and writes that fail

ASSUME YmodemAssumption ==
    /\ {FileBlocks, StartRetries, MaxRetries, MaxLate, MaxMangled} \subseteq Nat
    /\ Modulus \in Nat \ {0, 1}

VARIABLES
    sender,       \* [at, block, tries]
    receiver,     \* [at, expected, retries]
    toReceiver, toSender,
    written,      \* blocks written to the output
    late, mangled

ymodemVars == <<sender, receiver, toReceiver, toSender, written, late, mangled>>

Byte1(b) == [unit |-> b, number |-> 0, data |-> 0, sound |-> TRUE]
DataBlock(n, data) == [unit |-> "block", number |-> n % Modulus, data |-> data, sound |-> TRUE]
Metadata == FileBlocks + 1
EmptyHeader == FileBlocks + 2

\* What the sender puts on the wire at a place of its script.
Packet(s) ==
    CASE s.at = "header" -> <<DataBlock(0, Metadata)>>
      [] s.at = "data"   -> <<DataBlock(s.block, s.block)>>
      [] s.at = "final"  -> <<DataBlock(0, EmptyHeader)>>
      [] s.at \in {"eot1", "eot2"} -> <<Byte1("EOT")>>
      [] OTHER -> <<>>

\* The next place of send_with's script.
Then(s) ==
    CASE s.at = "crc1" -> [s EXCEPT !.at = "header"]
      [] s.at = "header" -> [s EXCEPT !.at = "crc2"]
      [] s.at = "crc2" \/ (s.at = "data" /\ s.block < FileBlocks) ->
            [s EXCEPT !.at = IF FileBlocks = 0 THEN "eot1" ELSE "data", !.block = @ + 1]
      [] s.at = "data" /\ s.block = FileBlocks -> [s EXCEPT !.at = "eot1"]
      [] s.at = "eot1" -> [s EXCEPT !.at = "eot2"]
      [] s.at = "eot2" -> [s EXCEPT !.at = "crc3"]
      [] s.at = "crc3" -> [s EXCEPT !.at = "final"]
      [] OTHER -> [s EXCEPT !.at = "done"]

SenderGoesTo(s) == sender' = s /\ toReceiver' = toReceiver \o Packet(s)
SenderFails == sender' = [sender EXCEPT !.at = "failed"] /\ UNCHANGED toReceiver

Advance == SenderGoesTo([Then(sender) EXCEPT !.tries = 0])

\* send_packet: again, until max_retries.
SendAgain ==
    IF sender.tries >= MaxRetries THEN SenderFails
    ELSE SenderGoesTo([sender EXCEPT !.tries = @ + 1])

SenderReads ==
    /\ sender.at \notin {"done", "failed"}
    /\ toSender # <<>>
    /\ toSender' = Tail(toSender)
    /\ LET byte == Head(toSender).unit IN
       CASE sender.at \in {"crc1", "crc2", "crc3"} ->
                CASE byte = "C" -> Advance
                  [] byte = "CAN" -> SenderFails
                  [] OTHER -> UNCHANGED <<sender, toReceiver>>
         [] sender.at \in {"header", "data", "final"} ->
                CASE byte = "ACK" -> Advance
                  [] byte = "NAK" -> SendAgain
                  [] OTHER -> SenderFails
         [] OTHER -> IF byte = (IF sender.at = "eot1" THEN "NAK" ELSE "ACK") THEN Advance
                     ELSE SenderFails
    /\ UNCHANGED <<receiver, written, late, mangled>>

SenderTimesOut ==
    /\ sender.at \notin {"done", "failed"}
    /\ late < MaxLate
    /\ late' = late + 1
    /\ CASE sender.at \in {"crc1", "crc2", "crc3"} ->
                IF sender.tries + 1 >= StartRetries THEN SenderFails
                ELSE SenderGoesTo([sender EXCEPT !.tries = @ + 1])
         [] sender.at \in {"header", "data", "final"} -> SendAgain
         [] OTHER -> SenderFails
    /\ UNCHANGED <<receiver, toSender, written, mangled>>

-------------------------------------------------------------------------------
Replies(r, bytes) ==
    /\ receiver' = r
    /\ toSender' = toSender \o [i \in DOMAIN bytes |-> Byte1(bytes[i])]

Cancels == Replies([receiver EXCEPT !.at = "failed"], <<"CAN", "CAN">>)

\* An unusable unit: NAK, or cancel after max_retries of them in a row.
Complains ==
    IF receiver.retries + 1 > MaxRetries THEN Cancels
    ELSE Replies([receiver EXCEPT !.at = IF @ = "start" THEN "meta" ELSE @, !.retries = @ + 1],
                 <<"NAK">>)

ReceivesMetadata(u) ==
    /\ IF u.unit # "block" \/ ~u.sound \/ u.number # 0 THEN Complains
       ELSE IF u.data # Metadata THEN Cancels
       ELSE \/ Replies([at |-> "data", expected |-> 1, retries |-> 0], <<"ACK", "C">>)
            \/ Cancels                                        \* on_metadata refuses
    /\ UNCHANGED <<written, mangled>>

\* Mutant: a block that is not the last one again is the next one.
InSequenceUnlessRepeated(u) == u.number # (receiver.expected + Modulus - 1) % Modulus

InSequence(u) == u.number = receiver.expected

Repeated(u) == u.number = (receiver.expected + Modulus - 1) % Modulus

ReceivesEot ==
    \/ /\ Len(written) # FileBlocks
       /\ Cancels /\ UNCHANGED mangled
    \/ /\ Len(written) = FileBlocks
       /\ Replies([receiver EXCEPT !.at = "eot"], <<"NAK">>) /\ UNCHANGED mangled
    \/ /\ Len(written) = FileBlocks /\ mangled < MaxMangled   \* the flush fails
       /\ Cancels /\ mangled' = mangled + 1

ReceivesBlock(u) ==
    CASE u.unit # "block" \/ ~u.sound -> Complains /\ UNCHANGED <<written, mangled>>
      [] u.unit = "block" /\ u.sound /\ InSequence(u) ->
            \/ /\ Len(written) >= FileBlocks
               /\ Cancels /\ UNCHANGED <<written, mangled>>
            \/ /\ Len(written) < FileBlocks
               /\ written' = Append(written, u.data)
               /\ Replies([receiver EXCEPT !.expected = (@ + 1) % Modulus, !.retries = 0], <<"ACK">>)
               /\ UNCHANGED mangled
            \/ /\ Len(written) < FileBlocks /\ mangled < MaxMangled    \* the output fails
               /\ Cancels /\ mangled' = mangled + 1 /\ UNCHANGED written
      [] u.unit = "block" /\ u.sound /\ ~InSequence(u) ->
            /\ IF Repeated(u) THEN Replies(receiver, <<"ACK">>) ELSE Complains
            /\ UNCHANGED <<written, mangled>>

ReceivesLast(u) ==
    /\ IF u.unit = "block" /\ u.sound /\ u.number = 0 /\ u.data = EmptyHeader
       THEN Replies([receiver EXCEPT !.at = "done"], <<"ACK">>)
       ELSE Complains
    /\ UNCHANGED <<written, mangled>>

ReceiverReads ==
    /\ receiver.at \notin {"done", "failed"}
    /\ toReceiver # <<>>
    /\ toReceiver' = Tail(toReceiver)
    /\ LET u == Head(toReceiver) IN
       CASE receiver.at \in {"start", "meta"} -> ReceivesMetadata(u)
         [] receiver.at = "data" /\ u.unit = "EOT" -> ReceivesEot /\ UNCHANGED written
         [] receiver.at = "data" /\ u.unit # "EOT" -> ReceivesBlock(u)
         [] receiver.at = "eot" ->
               /\ IF u.unit = "EOT"
                  THEN Replies([receiver EXCEPT !.at = "last", !.retries = 0], <<"ACK", "C">>)
                  ELSE Cancels
               /\ UNCHANGED <<written, mangled>>
         [] OTHER -> ReceivesLast(u)
    /\ UNCHANGED <<sender, late>>

\* first_control asks again; anywhere else a read that times out ends the transfer.
ReceiverTimesOut ==
    /\ receiver.at \notin {"done", "failed"}
    /\ IF receiver.at = "start" /\ receiver.expected < StartRetries
       THEN Replies([receiver EXCEPT !.expected = @ + 1], <<"C">>)
       ELSE Replies([receiver EXCEPT !.at = "failed"], <<>>)
    /\ UNCHANGED <<sender, toReceiver, written, late, mangled>>

\* The channel loses a unit or mangles it.
Mangled(u) == IF u.unit = "block" THEN [u EXCEPT !.sound = FALSE] ELSE Byte1("junk")

Mangle ==
    /\ mangled < MaxMangled
    /\ mangled' = mangled + 1
    /\ \/ /\ toReceiver # <<>>
          /\ toReceiver' \in {Tail(toReceiver), <<Mangled(Head(toReceiver))>> \o Tail(toReceiver)}
          /\ UNCHANGED toSender
       \/ /\ toSender # <<>>
          /\ toSender' \in {Tail(toSender), <<Mangled(Head(toSender))>> \o Tail(toSender)}
          /\ UNCHANGED toReceiver
    /\ UNCHANGED <<sender, receiver, written, late>>

YmodemInit ==
    /\ sender = [at |-> "crc1", block |-> 0, tries |-> 0]
    /\ receiver = [at |-> "start", expected |-> 1, retries |-> 0]   \* expected: times C was sent
    /\ toReceiver = <<>> /\ toSender = <<Byte1("C")>>
    /\ written = <<>> /\ late = 0 /\ mangled = 0

YmodemNext ==
    SenderReads \/ SenderTimesOut \/ ReceiverReads \/ ReceiverTimesOut \/ Mangle

YmodemSpec == YmodemInit /\ [][YmodemNext]_ymodemVars

-------------------------------------------------------------------------------
(* No transfer stores a wrong file: what is written is always the file's first  *)
(* blocks, and either side reports success only when it is the whole file,      *)
(* although a read that times out leaves an answer behind that later stands for *)
(* another block, and block numbers wrap.  It rests on the receiver giving up   *)
(* after max_retries blocks out of sequence, and on fewer units lost on top of  *)
(* these than there are numbers: behind a whole lap of lost blocks the number   *)
(* of a later block is the one the receiver waits for.                          *)
FileIntact ==
    /\ written = [i \in 1..Len(written) |-> i]
    /\ "done" \in {sender.at, receiver.at} => Len(written) = FileBlocks
===============================================================================
