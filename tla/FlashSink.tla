------------------------------- MODULE FlashSink ------------------------------
(* The flash sinks of the firmware update: EspOtaSink writes each piece as it   *)
(* comes, Stm32FirmwareSink gathers whole write words.  Both erase sector by    *)
(* sector ahead of the stream, insist on a forward stream, and take the image's *)
(* description from the bytes that pass.  A unit is numbered by its place in    *)
(* the payload; programming a cell that is not erased spoils it, and so does an *)
(* erase or a write that fails.                                                 *)
EXTENDS Integers, Sequences, Optional

CONSTANTS
    Word,        \* board -> units of a write word (1 on the ESP32)
    Sector,      \* units erased at a time
    Capacity,    \* board -> units an image may have
    SlotLen,     \* board -> units of the slot (the STM32's DFU has a sector more)
    DescAt, DescLen,   \* where the description is
    Lengths      \* payload lengths that arrive

VARIABLES
    board,
    payload,     \* [len, magic, good]: units, whether the first is ESP_IMAGE_MAGIC, and
                 \* whether the description is one of this board
    flash,       \* the slot's cells: a unit, or Old, Blank, Spoilt or Pad
    at,          \* logical_offset / written_until: units accepted
    erasedTo,    \* erased_until
    pending,     \* units waiting for a whole word
    desc,        \* description units captured
    sinkFate     \* None, "done", or why not

sinkVars == <<board, payload, flash, at, erasedTo, pending, desc, sinkFate>>

Boards == DOMAIN Word

ASSUME SinkAssumption ==
    /\ Sector \in Nat \ {0} /\ DescAt \in Nat /\ DescLen \in Nat \ {0} /\ Lengths \subseteq Nat
    /\ \A b \in Boards : Word[b] \in Nat \ {0} /\ Capacity[b] \in Nat /\ SlotLen[b] \in Nat
    /\ None # "done" /\ None # "flash"

Old == 0
Blank == -1
Pad == -2
Spoilt == -3
Programmed == at - Len(pending)

\* ensure_erased: whole sectors, up to the end of the write.
EraseEnd(end) == IF end <= erasedTo THEN erasedTo ELSE ((end + Sector - 1) \div Sector) * Sector

Cell(c, from, units, to) ==
    LET now == IF c > erasedTo /\ c <= to THEN Blank ELSE flash[c]
    IN  IF c <= from \/ c > from + Len(units) THEN now
        ELSE IF now = Blank THEN units[c - from] ELSE Spoilt

\* write_aligned: the erases and the write succeed.
WriteAligned(units) ==
    LET to == EraseEnd(Programmed + Len(units))
    IN  /\ to <= SlotLen[board]
        /\ flash' = [c \in DOMAIN flash |-> Cell(c, Programmed, units, to)]
        /\ erasedTo' = to

\* write_aligned fails: sectors were erased up to e when the slot ended or the erase of
\* the next one failed; or all were, and the write stopped somewhere.
WriteFails(units) ==
    LET end == Programmed + Len(units)
        to == EraseEnd(end)
    IN  /\ sinkFate' = "flash"
        /\ \/ \E e \in erasedTo .. to - 1 :
                 /\ (e - erasedTo) % Sector = 0 /\ e <= SlotLen[board]
                 /\ erasedTo' = e
                 /\ flash' = [c \in DOMAIN flash |->
                       IF c > e /\ c <= e + Sector /\ e + Sector <= SlotLen[board] THEN Spoilt
                       ELSE Cell(c, Programmed, <<>>, e)]
           \/ /\ to <= SlotLen[board]
              /\ erasedTo' = to
              /\ flash' = [c \in DOMAIN flash |->
                    IF c > Programmed /\ c <= end THEN Spoilt ELSE Cell(c, Programmed, <<>>, to)]
        /\ UNCHANGED <<board, payload, at, pending, desc>>

SinkEnds(how) ==
    /\ sinkFate' = how
    /\ UNCHANGED <<board, payload, flash, at, erasedTo, pending, desc>>

\* Units that make whole words.
Whole(units) == (Len(units) \div Word[board]) * Word[board]

\* Mutant: what waits is replaced by the new piece's own remainder.
KeptOfPiece(units) ==
    SubSeq(units, Len(units) - ((Len(units) - Len(pending)) % Word[board]) + 1, Len(units))

\* Units that wait for the rest of their word.
Kept(units) == SubSeq(units, Whole(units) + 1, Len(units))

\* capture_vector, app_desc: the units of this piece inside the description.
DescriptorBytes(from, to) ==
    LET start == IF from >= DescAt THEN from ELSE DescAt
        stop == IF to <= DescAt + DescLen THEN to ELSE DescAt + DescLen
    IN  [i \in 1 .. stop - start |-> start + i]

\* PayloadSink::write of the next n units.
SinkWrite(n) ==
    /\ sinkFate = None /\ at + n <= payload.len
    /\ LET units == pending \o [i \in 1 .. n |-> at + i]
           seen == desc \o DescriptorBytes(at, at + n)
       IN  IF at + n > Capacity[board] THEN SinkEnds("out of bounds")
           ELSE IF board = "esp32" /\ at = 0 /\ ~payload.magic THEN SinkEnds("not an image")
           ELSE IF Len(seen) = DescLen /\ ~payload.good THEN SinkEnds("not an image")
           ELSE \/ /\ at' = at + n
                   /\ desc' = seen
                   /\ pending' = Kept(units)
                   /\ IF Whole(units) = 0 THEN UNCHANGED <<flash, erasedTo>>
                      ELSE WriteAligned(SubSeq(units, 1, Whole(units)))
                   /\ UNCHANGED <<board, payload, sinkFate>>
                \/ Whole(units) > 0 /\ WriteFails(SubSeq(units, 1, Whole(units)))

\* finish, app_metadata: the last word is padded, if it still fits; a short image has
\* no description.
SinkFinish ==
    /\ sinkFate = None /\ at = payload.len
    /\ \/ Len(desc) # DescLen /\ SinkEnds("not an image")
       \/ Len(desc) = DescLen /\ pending = <<>> /\ SinkEnds("done")
       \/ /\ Len(desc) = DescLen /\ pending # <<>>
          /\ LET last == pending \o [i \in 1 .. Word[board] - Len(pending) |-> Pad]
             IN  IF Programmed + Word[board] > Capacity[board] THEN SinkEnds("out of bounds")
                 ELSE \/ /\ WriteAligned(last)
                         /\ pending' = <<>>
                         /\ UNCHANGED <<board, payload, at, desc, sinkFate>>
                      \/ WriteFails(last)

SinkInit ==
    /\ board \in Boards
    /\ payload \in [len : Lengths, magic : BOOLEAN, good : BOOLEAN]
    /\ flash = [c \in 1 .. SlotLen[board] |-> Old]
    /\ at = 0 /\ erasedTo = 0 /\ pending = <<>> /\ desc = <<>> /\ sinkFate = None

SinkNext == SinkFinish \/ \E n \in 1 .. Sector + 1 : SinkWrite(n)
SinkSpec == SinkInit /\ [][SinkNext]_sinkVars

-------------------------------------------------------------------------------
(* However the image is cut into pieces, the slot ends up holding it unit for    *)
(* unit with the description taken from its place; on the way no cell is         *)
(* programmed that was not erased, and what lies beyond the erased sectors is as *)
(* it was.  An erase or a write that fails spoils at most the next sector, and   *)
(* nothing that was written before.                                              *)
SinkFaithful ==
    /\ \A c \in DOMAIN flash :
          /\ c <= Programmed => flash[c] = c
          /\ c > Programmed /\ c <= erasedTo /\ sinkFate # "flash" => flash[c] \in {Blank, Pad}
          /\ c > (IF sinkFate = "flash" THEN erasedTo + Sector ELSE erasedTo) => flash[c] = Old
    /\ sinkFate = "done" => /\ \A c \in 1 .. payload.len : flash[c] = c
                            /\ desc = [i \in 1 .. DescLen |-> DescAt + i]
                            /\ payload.good /\ payload.len <= Capacity[board]
                            /\ board = "esp32" => payload.magic
===============================================================================
