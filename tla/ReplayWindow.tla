----------------------------- MODULE ReplayWindow -----------------------------
(* The RFC 6479 anti-replay filter of the transport receive path: a ring of  *)
(* words, one bit per counter, of which one word is always being recycled.   *)
EXTENDS Integers

CONSTANTS
    WordBits,    \* bits in one word of the ring (64 in the code)
    ReplayWords, \* words in the ring (a const parameter of the engine)
    Counters     \* the counters a transport message may carry

ASSUME WordBitsAssumption == WordBits \in Nat \ {0}
ASSUME ReplayWordsAssumption == ReplayWords \in Nat \ {0}
ASSUME CountersAssumption == Counters \subseteq Nat

VARIABLES
    bitmap,     \* per word of the ring, the bits that are set
    top,        \* highest counter accepted, or NoCounter before the first one
    accepted,   \* history: every counter check_and_update returned true for
    verdict     \* history: the last counter checked and what was returned

replayVars == <<bitmap, top, accepted, verdict>>

NoCounter == -1
Window == WordBits * (ReplayWords - 1)

Index(c) == c \div WordBits
Block(i) == i % ReplayWords
Bit(c) == c % WordBits

GetBit(c) == Bit(c) \in bitmap[Block(Index(c))]

\* The words an advance of the top block from index old to index new empties.
Recycled(old, new) ==
    LET diff == IF new - old < ReplayWords THEN new - old ELSE ReplayWords
    IN  {Block(old + i) : i \in 1..diff}

Cleared(words) ==
    [w \in 0..ReplayWords - 1 |-> IF w \in words THEN {} ELSE bitmap[w]]

SetBit(map, c) == [map EXCEPT ![Block(Index(c))] = @ \cup {Bit(c)}]

ReplayInit ==
    /\ bitmap = [w \in 0..ReplayWords - 1 |-> {}]
    /\ top = NoCounter
    /\ accepted = {}
    /\ verdict = <<>>

Accept(c, map) ==
    /\ bitmap' = SetBit(map, c)
    /\ accepted' = accepted \cup {c}
    /\ verdict' = <<c, TRUE>>

Reject(c) ==
    /\ verdict' = <<c, FALSE>>
    /\ UNCHANGED <<bitmap, top, accepted>>

\* The first counter initializes the ring around itself.
First(c) ==
    /\ top = NoCounter
    /\ Accept(c, Cleared(0..ReplayWords - 1))
    /\ top' = c

\* A counter above the top recycles every word between the two blocks.
Advance(c) ==
    /\ top # NoCounter /\ c > top
    /\ Accept(c, Cleared(Recycled(Index(top), Index(c))))
    /\ top' = c

\* Mutant: the window is wider than the ring can remember.
BehindTooWide(c) ==
    /\ top # NoCounter /\ c <= top
    /\ IF top - c > Window + WordBits \/ GetBit(c)
       THEN Reject(c)
       ELSE Accept(c, bitmap) /\ UNCHANGED top

\* A counter at or below the top must be inside the window and unseen.
Behind(c) ==
    /\ top # NoCounter /\ c <= top
    /\ IF top - c > Window \/ GetBit(c)
       THEN Reject(c)
       ELSE Accept(c, bitmap) /\ UNCHANGED top

CheckAndUpdate(c) == First(c) \/ Advance(c) \/ Behind(c)

ReplayNext == \E c \in Counters : CheckAndUpdate(c)

ReplaySpec == ReplayInit /\ [][ReplayNext]_replayVars

-------------------------------------------------------------------------------
(* The filter implements the exact sliding window: what check_and_update     *)
(* returns depends only on the set of counters accepted before, although the *)
(* ring forgets all but the last ReplayWords blocks of it.                   *)
Exact == INSTANCE AntiReplay
ImplementsAntiReplay == Exact!Spec

(* The ring is a faithful copy of the newest blocks: for each of the last    *)
(* ReplayWords block indices, a bit is set exactly when its counter was      *)
(* accepted, bits ahead of the top and blocks before the first included.     *)
RingFaithful ==
    /\ top = NoCounter => accepted = {}
    /\ top # NoCounter => top \in accepted /\ \A a \in accepted : a <= top
    /\ top # NoCounter =>
         \A i \in Index(top) - ReplayWords + 1 .. Index(top) :
           \A b \in 0..WordBits - 1 :
             b \in bitmap[Block(i)] <=> i * WordBits + b \in accepted
===============================================================================
