---------------------------- MODULE Tables_proofs -----------------------------
(* The tables a packet is checked against: the replay window and the         *)
(* firewall.                                                                 *)
EXTENDS ReplayWindow, Firewall, FiniteSetTheorems, TLAPS

-------------------------------------------------------------------------------
(* The ring implements the exact sliding window, for every word size, every  *)
(* number of words and every set of counters.  The inductive invariant is    *)
(* RingFaithful with the types: each of the newest ReplayWords blocks is an  *)
(* exact copy of what was accepted there, so the bit of a counter inside the *)
(* window decides as the set of all accepted counters would.                 *)

Ring == [0..ReplayWords - 1 -> SUBSET (0..WordBits - 1)]

ReplayInv ==
    /\ bitmap \in Ring
    /\ top \in Nat \cup {NoCounter}
    /\ accepted \in SUBSET Nat
    /\ RingFaithful

-------------------------------------------------------------------------------
(* Arithmetic.                                                               *)

\* Division with remainder, for the word and the bit of a counter.
LEMMA DivMod ==
    ASSUME NEW c \in Int, NEW n \in Nat \ {0}
    PROVE  /\ c \div n \in Int /\ c % n \in 0..n - 1
           /\ c = ((c \div n) * n) + (c % n)
OBVIOUS

\* The only multiple of n between -n and n is zero.
LEMMA SmallMultiple ==
    ASSUME NEW q \in Int, NEW n \in Nat \ {0}, NEW r \in Int, r = q * n, -n < r, r < n
    PROVE  q = 0
<1>1. CASE q >= 1
  <2>1. q * n >= n
     BY <1>1, SMT
  <2> QED BY <2>1
<1>2. CASE q <= -1
  <2>1. q * n <= -n
     BY <1>2
  <2> QED BY <2>1
<1> QED BY <1>1, <1>2

\* Quotient and remainder are unique: the bit of a counter names its counter.
LEMMA DivModUnique ==
    ASSUME NEW n \in Nat \ {0}, NEW q \in Int, NEW r \in 0..n - 1
    PROVE  (q * n + r) \div n = q /\ (q * n + r) % n = r
<1> DEFINE c == q * n + r
           p == c \div n
           s == c % n
<1>1. c \in Int /\ p \in Int /\ s \in 0..n - 1 /\ c = p * n + s
  BY DivMod
<1> HIDE DEF p, s
<1>2. (p - q) * n = r - s
  BY <1>1
<1>3. p - q = 0
  BY <1>1, <1>2, SmallMultiple
<1> HIDE DEF c
<1>4. p = q /\ s = r
  BY <1>1, <1>2, <1>3
<1> QED BY <1>4, Zenon DEF p, s, c

\* Fewer than n apart, two block indices share a word of the ring only if equal.
LEMMA SameResidue ==
    ASSUME NEW n \in Nat \ {0}, NEW i \in Int, NEW j \in Int, i % n = j % n, -n < i - j, i - j < n
    PROVE  i = j
<1> DEFINE p == i \div n
           q == j \div n
<1>1. p \in Int /\ q \in Int /\ i = (p * n) + (i % n) /\ j = (q * n) + (j % n) /\ i % n \in Int /\ j % n \in Int
  BY DivMod
<1> HIDE DEF p, q
<1>2. i - j = (p - q) * n
  BY <1>1
<1>3. p - q = 0
  BY <1>1, <1>2, SmallMultiple
<1> QED BY <1>1, <1>2, <1>3

\* Any n successive block indices meet every word of the ring.
LEMMA ResidueInRange ==
    ASSUME NEW n \in Nat \ {0}, NEW i \in Int, NEW m \in Int
    PROVE  \E k \in 1..n : (m + k) % n = i % n
<1> DEFINE x == i - m - 1
           q == x \div n
           k == (x % n) + 1
<1>1. q \in Int /\ x % n \in 0..n - 1 /\ x = (q * n) + (x % n)
  BY DivMod
<1>2. k \in 1..n /\ m + k = i - q * n
  BY <1>1
<1> DEFINE p == i \div n
           r == i % n
<1>3. p \in Int /\ r \in 0..n - 1 /\ i = (p * n) + r
  BY DivMod, Zenon
<1> HIDE DEF q, k, p, x, r
<1>4. p - q \in Int /\ m + k = (p - q) * n + r
  <2>1. (p - q) * n = p * n - q * n
    BY <1>1, <1>3
  <2>2. p * n \in Int /\ q * n \in Int
    BY <1>1, <1>3
  <2> QED BY <1>1, <1>2, <1>3, <2>1, <2>2
<1>5. (m + k) % n = r
  BY <1>3, <1>4, DivModUnique
<1> QED BY <1>2, <1>5, Zenon DEF r

-------------------------------------------------------------------------------
(* Counters, blocks and words.                                               *)

\* Where a counter is: its block, its bit, and the word that block has.
LEMMA Places ==
    ASSUME NEW c \in Int
    PROVE  /\ Index(c) \in Int /\ Bit(c) \in 0..WordBits - 1
           /\ c = Index(c) * WordBits + Bit(c)
BY DivMod, WordBitsAssumption, Zenon DEF Index, Bit

\* The block of a counter has a word of the ring.
LEMMA BlockInRing ==
    ASSUME NEW i \in Int
    PROVE  Block(i) \in 0..ReplayWords - 1
BY DivMod, ReplayWordsAssumption, Zenon DEF Block

\* A counter is named by its block and its bit.
LEMMA PlaceUnique ==
    ASSUME NEW i \in Int, NEW b \in 0..WordBits - 1
    PROVE  /\ i * WordBits + b \in Int
           /\ Index(i * WordBits + b) = i /\ Bit(i * WordBits + b) = b
<1>1. (i * WordBits + b) \div WordBits = i /\ (i * WordBits + b) % WordBits = b
  BY DivModUnique, WordBitsAssumption, Zenon
<1> QED BY <1>1, WordBitsAssumption DEF Index, Bit

\* Two blocks that are both among the newest have different words.
LEMMA BlocksApart ==
    ASSUME NEW i \in Int, NEW j \in Int, Block(i) = Block(j),
           i - j < ReplayWords, j - i < ReplayWords
    PROVE  i = j
<1>1. i % ReplayWords = j % ReplayWords
  BY Zenon DEF Block
<1>2. -ReplayWords < i - j
  BY ReplayWordsAssumption
<1> QED BY <1>1, <1>2, SameResidue, ReplayWordsAssumption, Zenon

\* A later counter is in no earlier block.
LEMMA IndexMonotone ==
    ASSUME NEW c \in Int, NEW d \in Int, c <= d
    PROVE  Index(c) <= Index(d)
<1> DEFINE i == Index(c)
           j == Index(d)
<1>1. /\ i \in Int /\ Bit(c) \in 0..WordBits - 1 /\ c = i * WordBits + Bit(c)
      /\ j \in Int /\ Bit(d) \in 0..WordBits - 1 /\ d = j * WordBits + Bit(d)
  BY Places, Zenon
<1> HIDE DEF i, j
<1>2. ASSUME i >= j + 1 PROVE FALSE
  <2>1. i * WordBits >= (j + 1) * WordBits
    BY <1>1, <1>2, WordBitsAssumption
  <2>2. (j + 1) * WordBits = j * WordBits + WordBits
    BY <1>1, WordBitsAssumption
  <2>3. i * WordBits \in Int /\ j * WordBits \in Int
    BY <1>1, WordBitsAssumption
  <2> QED BY <1>1, <2>1, <2>2, <2>3, WordBitsAssumption
<1>3. i <= j
  BY <1>1, <1>2
<1> QED BY <1>3, Zenon DEF i, j

\* The window is inside the blocks the ring has.
LEMMA WindowInRing ==
    ASSUME NEW c \in Int, NEW d \in Int, c <= d, d - c <= Window
    PROVE  Index(c) \in Index(d) - ReplayWords + 1 .. Index(d)
<1> DEFINE i == Index(c)
           j == Index(d)
<1>1. /\ i \in Int /\ Bit(c) \in 0..WordBits - 1 /\ c = i * WordBits + Bit(c)
      /\ j \in Int /\ Bit(d) \in 0..WordBits - 1 /\ d = j * WordBits + Bit(d)
  BY Places, Zenon
<1>2. i <= j
  BY IndexMonotone, Zenon
<1> HIDE DEF i, j
<1>3. ASSUME j - i >= ReplayWords PROVE FALSE
  <2>1. (j - i) * WordBits >= ReplayWords * WordBits
    BY <1>1, <1>3, WordBitsAssumption, ReplayWordsAssumption
  <2>2. (j - i) * WordBits = j * WordBits - i * WordBits
    BY <1>1, WordBitsAssumption
  <2>3. Window = ReplayWords * WordBits - WordBits
    BY WordBitsAssumption, ReplayWordsAssumption DEF Window
  <2>4. i * WordBits \in Int /\ j * WordBits \in Int /\ ReplayWords * WordBits \in Int
    BY <1>1, WordBitsAssumption, ReplayWordsAssumption
  <2> QED BY <1>1, <2>1, <2>2, <2>3, <2>4, WordBitsAssumption
<1>4. i \in j - ReplayWords + 1 .. j
  BY <1>1, <1>2, <1>3, ReplayWordsAssumption
<1> QED BY <1>4, Zenon DEF i, j

\* Accepting counter c into a ring that is faithful but for c makes it faithful:
\* of the newest blocks only that of c has its word.
LEMMA SetBitFaithful ==
    ASSUME NEW map \in Ring, NEW c \in Nat, NEW newest \in Int, NEW S \in SUBSET Nat,
           Index(c) \in newest - ReplayWords + 1 .. newest,
           \A i \in newest - ReplayWords + 1 .. newest : \A b \in 0..WordBits - 1 :
             b \in map[Block(i)] <=> i * WordBits + b \in S
    PROVE  /\ SetBit(map, c) \in Ring
           /\ \A i \in newest - ReplayWords + 1 .. newest : \A b \in 0..WordBits - 1 :
                b \in SetBit(map, c)[Block(i)] <=> i * WordBits + b \in S \cup {c}
<1> DEFINE k == Index(c)
           w == Block(k)
<1>1. k \in Int /\ Bit(c) \in 0..WordBits - 1 /\ c = k * WordBits + Bit(c)
  BY Places
<1>2. w \in 0..ReplayWords - 1
  BY <1>1, BlockInRing, Zenon
<1>3. SetBit(map, c) = [map EXCEPT ![w] = map[w] \cup {Bit(c)}]
  BY Zenon DEF SetBit
<1> HIDE DEF k, w
<1>4. SetBit(map, c) \in Ring
  BY <1>1, <1>2, <1>3, Zenon DEF Ring
<1>5. ASSUME NEW i \in newest - ReplayWords + 1 .. newest, NEW b \in 0..WordBits - 1
      PROVE  b \in SetBit(map, c)[Block(i)] <=> i * WordBits + b \in S \cup {c}
  <2>1. i \in Int /\ Block(i) \in 0..ReplayWords - 1
    BY ReplayWordsAssumption, BlockInRing
  <2>2. Block(i) = w => i = k
    <3>1. i - k < ReplayWords /\ k - i < ReplayWords
      BY <1>1, <2>1, ReplayWordsAssumption DEF k
    <3> QED BY <1>1, <2>1, <3>1, BlocksApart, Zenon DEF w
  <2>3. i * WordBits + b = c <=> i = k /\ b = Bit(c)
    <3>1. Index(i * WordBits + b) = i /\ Bit(i * WordBits + b) = b
      BY <2>1, PlaceUnique, Zenon
    <3> QED BY <1>1, <3>1, Zenon DEF k
  <2>4. CASE i = k
    <3>1. SetBit(map, c)[Block(i)] = map[Block(i)] \cup {Bit(c)}
      BY <1>2, <1>3, <2>4, Zenon DEF Ring, w
    <3> QED BY <2>3, <2>4, <3>1, Zenon
  <2>5. CASE i # k
    <3>1. SetBit(map, c)[Block(i)] = map[Block(i)]
      BY <1>3, <2>1, <2>2, <2>5, Zenon DEF Ring
    <3> QED BY <2>3, <2>5, <3>1, Zenon
  <2> QED BY <2>4, <2>5, Zenon
<1> QED BY <1>4, <1>5, Zenon

\* What an advance empties: every word of a block that becomes one of the newest,
\* and no word of a block that stays one.
LEMMA RecycledExact ==
    ASSUME NEW old \in Int, NEW new \in Int, old <= new,
           NEW i \in new - ReplayWords + 1 .. new
    PROVE  Block(i) \in Recycled(old, new) <=> i > old
<1> DEFINE diff == IF new - old < ReplayWords THEN new - old ELSE ReplayWords
<1>1. Recycled(old, new) = {Block(old + k) : k \in 1..diff}
  BY Zenon DEF Recycled
<1>2. i \in Int /\ diff \in Nat
  BY ReplayWordsAssumption
<1>3. ASSUME i > old PROVE Block(i) \in Recycled(old, new)
  <2>1. CASE new - old < ReplayWords
    <3>1. i - old \in 1..diff /\ i = old + (i - old)
      BY <1>2, <1>3, <2>1
    <3> QED BY <1>1, <3>1, Zenon
  <2>2. CASE ~(new - old < ReplayWords)
    <3>1. PICK k \in 1..ReplayWords : (old + k) % ReplayWords = i % ReplayWords
      BY <1>2, ResidueInRange, ReplayWordsAssumption, Zenon
    <3> QED BY <1>1, <2>2, <3>1, Zenon DEF Block
  <2> QED BY <2>1, <2>2, Zenon
<1>4. ASSUME i <= old, Block(i) \in Recycled(old, new) PROVE FALSE
  <2>1. new - old < ReplayWords
    BY <1>2, <1>4, ReplayWordsAssumption
  <2>2. PICK k \in 1..new - old : Block(i) = Block(old + k)
    BY <1>1, <1>4, <2>1, Zenon
  <2>3. old + k \in Int /\ (old + k) - i < ReplayWords /\ i - (old + k) < ReplayWords
    BY <1>2, <1>4, ReplayWordsAssumption
  <2>4. i = old + k
    BY <1>2, <2>2, <2>3, BlocksApart, Zenon
  <2> QED BY <1>2, <1>4, <2>4
<1> QED BY <1>2, <1>3, <1>4

-------------------------------------------------------------------------------
(* The invariant.                                                            *)

\* The new state of an accepted counter, from a ring faithful but for it.
LEMMA AcceptKeeps ==
    ASSUME ReplayInv, NEW c \in Nat, NEW map \in Ring, NEW t \in Nat,
           Accept(c, map), top' = t, t \in accepted \cup {c},
           \A a \in accepted \cup {c} : a <= t,
           Index(c) \in Index(t) - ReplayWords + 1 .. Index(t),
           \A i \in Index(t) - ReplayWords + 1 .. Index(t) : \A b \in 0..WordBits - 1 :
             b \in map[Block(i)] <=> i * WordBits + b \in accepted
    PROVE  ReplayInv'
<1>1. accepted \in SUBSET Nat /\ Index(t) \in Int
  BY Places DEF ReplayInv
<1>2. bitmap' = SetBit(map, c) /\ accepted' = accepted \cup {c}
  BY Zenon DEF Accept
<1>3. /\ SetBit(map, c) \in Ring
      /\ \A i \in Index(t) - ReplayWords + 1 .. Index(t) : \A b \in 0..WordBits - 1 :
           b \in SetBit(map, c)[Block(i)] <=> i * WordBits + b \in accepted \cup {c}
  BY <1>1, SetBitFaithful, Zenon
<1>4. t # NoCounter
  BY DEF NoCounter
<1>5. RingFaithful'
  <2>1. \A i \in Index(top') - ReplayWords + 1 .. Index(top') : \A b \in 0..WordBits - 1 :
          b \in bitmap'[Block(i)] <=> i * WordBits + b \in accepted'
    BY <1>2, <1>3, Zenon
  <2>2. top' # NoCounter /\ top' \in accepted' /\ \A a \in accepted' : a <= top'
    BY <1>2, <1>4, Zenon
  <2> QED BY <2>1, <2>2, Zenon DEF RingFaithful
<1>6. bitmap' \in Ring /\ top' \in Nat \cup {NoCounter} /\ accepted' \in SUBSET Nat
  BY <1>1, <1>2, <1>3, Zenon
<1> QED BY <1>5, <1>6, Zenon DEF ReplayInv

\* The first counter clears the ring and sets one bit.
LEMMA FirstKeeps ==
    ASSUME ReplayInv, NEW c \in Nat, First(c)
    PROVE  ReplayInv'
<1> DEFINE map == Cleared(0..ReplayWords - 1)
<1>1. accepted = {} /\ Accept(c, map) /\ top' = c
  BY Zenon DEF First, ReplayInv, RingFaithful
<1>2. map \in Ring /\ \A w \in 0..ReplayWords - 1 : map[w] = {}
  BY Zenon DEF Cleared, Ring
<1> HIDE DEF map
<1>3. Index(c) \in Int /\ Index(c) \in Index(c) - ReplayWords + 1 .. Index(c)
  BY Places, ReplayWordsAssumption
<1>4. ASSUME NEW i \in Index(c) - ReplayWords + 1 .. Index(c), NEW b \in 0..WordBits - 1
      PROVE  b \in map[Block(i)] <=> i * WordBits + b \in accepted
  <2>1. i \in Int
    BY <1>3, ReplayWordsAssumption
  <2>2. map[Block(i)] = {}
    BY <1>2, <2>1, BlockInRing, Zenon
  <2> QED BY <1>1, <2>2, Zenon
<1>5. c \in accepted \cup {c} /\ \A a \in accepted \cup {c} : a <= c
  BY <1>1
<1> QED BY <1>1, <1>2, <1>3, <1>4, <1>5, AcceptKeeps, Zenon

\* A counter ahead of the highest clears the words it passes over and no other.
LEMMA AdvanceKeeps ==
    ASSUME ReplayInv, NEW c \in Nat, Advance(c)
    PROVE  ReplayInv'
<1> DEFINE old == Index(top)
           new == Index(c)
           map == Cleared(Recycled(old, new))
<1>1. /\ top \in Nat /\ c > top /\ Accept(c, map) /\ top' = c
      /\ top \in accepted /\ \A a \in accepted : a <= top
      /\ accepted \in SUBSET Nat /\ bitmap \in Ring
  BY Zenon DEF Advance, ReplayInv, RingFaithful
<1>2. \A i \in old - ReplayWords + 1 .. old : \A b \in 0..WordBits - 1 :
        b \in bitmap[Block(i)] <=> i * WordBits + b \in accepted
  BY <1>1, Zenon DEF ReplayInv, RingFaithful, Advance
<1>3. old \in Int /\ new \in Int /\ old <= new
  BY <1>1, Places, IndexMonotone
<1>4. map \in Ring
  BY <1>1, Zenon DEF Cleared, Ring
<1>5. ASSUME NEW i \in new - ReplayWords + 1 .. new, NEW b \in 0..WordBits - 1
      PROVE  b \in map[Block(i)] <=> i * WordBits + b \in accepted
  <2>1. i \in Int /\ Block(i) \in 0..ReplayWords - 1
    BY <1>3, ReplayWordsAssumption, BlockInRing
  <2>2. Block(i) \in Recycled(old, new) <=> i > old
    BY <1>3, RecycledExact, Zenon
  <2>3. map[Block(i)] = IF Block(i) \in Recycled(old, new) THEN {} ELSE bitmap[Block(i)]
    BY <2>1, Zenon DEF Cleared
  <2>4. CASE i > old
    <3>1. i * WordBits + b \in Int /\ Index(i * WordBits + b) = i
      BY <2>1, PlaceUnique, Zenon
    <3>2. ~(i * WordBits + b <= top)
      <4>1. ASSUME i * WordBits + b <= top PROVE FALSE
        <5>1. i <= old
          BY <1>1, <3>1, <4>1, IndexMonotone
        <5> QED BY <1>3, <2>1, <2>4, <5>1
      <4> QED BY <4>1, Zenon
    <3>3. i * WordBits + b \notin accepted
      BY <1>1, <3>2, Zenon
    <3> QED BY <2>2, <2>3, <2>4, <3>3, Zenon
  <2>5. CASE ~(i > old)
    <3>1. i \in old - ReplayWords + 1 .. old
      BY <1>3, <2>1, <2>5, ReplayWordsAssumption
    <3> QED BY <1>2, <2>2, <2>3, <2>5, <3>1, Zenon
  <2> QED BY <2>4, <2>5, Zenon
<1> HIDE DEF old, map
<1>6. new \in new - ReplayWords + 1 .. new
  BY <1>3, ReplayWordsAssumption
<1>7. c \in accepted \cup {c} /\ \A a \in accepted \cup {c} : a <= c
  BY <1>1
<1> QED BY <1>1, <1>4, <1>5, <1>6, <1>7, AcceptKeeps, Zenon

\* Behind the top, and inside the window, the bit tells whether c was accepted.
LEMMA BitTells ==
    ASSUME ReplayInv, top # NoCounter, NEW c \in Nat, c <= top, top - c <= Window
    PROVE  GetBit(c) <=> c \in accepted
<1>1. top \in Nat
  BY Zenon DEF ReplayInv
<1>2. Index(c) \in Index(top) - ReplayWords + 1 .. Index(top)
  BY <1>1, WindowInRing
<1>3. Bit(c) \in 0..WordBits - 1 /\ c = Index(c) * WordBits + Bit(c)
  BY Places
<1> QED BY <1>2, <1>3, Zenon DEF ReplayInv, RingFaithful, GetBit

\* A counter behind the highest sets its own bit, or is refused.
LEMMA BehindKeeps ==
    ASSUME ReplayInv, NEW c \in Nat, Behind(c)
    PROVE  ReplayInv'
<1>1. CASE top - c > Window \/ GetBit(c)
  <2>1. UNCHANGED <<bitmap, top, accepted>>
    BY <1>1, Zenon DEF Behind, Reject
  <2> QED BY <2>1, Zenon DEF ReplayInv, RingFaithful
<1>2. CASE ~(top - c > Window \/ GetBit(c))
  <2>1. /\ top \in Nat /\ c <= top /\ top - c <= Window /\ Accept(c, bitmap) /\ top' = top
        /\ bitmap \in Ring /\ top \in accepted /\ \A a \in accepted : a <= top
    <3>1. top \in Nat /\ top # NoCounter
      BY Zenon DEF Behind, ReplayInv
    <3>2. Window \in Int
      BY WordBitsAssumption, ReplayWordsAssumption DEF Window
    <3>3. c <= top /\ Accept(c, bitmap) /\ top' = top
      BY <1>2, Zenon DEF Behind
    <3> QED BY <1>2, <3>1, <3>2, <3>3 DEF ReplayInv, RingFaithful
  <2>2. Index(c) \in Index(top) - ReplayWords + 1 .. Index(top)
    BY <2>1, WindowInRing
  <2>3. \A i \in Index(top) - ReplayWords + 1 .. Index(top) : \A b \in 0..WordBits - 1 :
          b \in bitmap[Block(i)] <=> i * WordBits + b \in accepted
    BY Zenon DEF Behind, ReplayInv, RingFaithful
  <2>4. top \in accepted \cup {c} /\ \A a \in accepted \cup {c} : a <= top
    BY <2>1, Zenon
  <2> QED BY <2>1, <2>2, <2>3, <2>4, AcceptKeeps, Zenon
<1> QED BY <1>1, <1>2, Zenon

\* At the start nothing has been accepted.
LEMMA ReplayInitial == ReplayInit => ReplayInv
BY Zenon DEF ReplayInit, ReplayInv, RingFaithful, Ring, NoCounter

\* Every step keeps the invariant.
LEMMA ReplayStep == ReplayInv /\ [ReplayNext]_replayVars => ReplayInv'
<1> SUFFICES ASSUME ReplayInv, [ReplayNext]_replayVars PROVE ReplayInv'
  BY Zenon
<1>1. ASSUME NEW c \in Counters, CheckAndUpdate(c) PROVE ReplayInv'
  <2>1. c \in Nat
    BY CountersAssumption, Zenon
  <2> QED BY <1>1, <2>1, FirstKeeps, AdvanceKeeps, BehindKeeps, Zenon DEF CheckAndUpdate
<1>2. ASSUME UNCHANGED replayVars PROVE ReplayInv'
  BY <1>2, Zenon DEF replayVars, ReplayInv, RingFaithful
<1> QED BY <1>1, <1>2, Zenon DEF ReplayNext

\* Each of the newest blocks of the ring is an exact copy of what was accepted.
THEOREM SpecRingFaithful == ReplaySpec => []RingFaithful
<1>1. ReplayInv => RingFaithful
  BY Zenon DEF ReplayInv
<1> QED BY <1>1, ReplayInitial, ReplayStep, PTL DEF ReplaySpec

-------------------------------------------------------------------------------
(* The refinement.                                                           *)

\* What check_and_update returns is the verdict of the exact window.
LEMMA CheckIsJudge ==
    ASSUME ReplayInv, NEW c \in Nat, CheckAndUpdate(c)
    PROVE  Exact!Judge(c)
<1>1. top \in Nat \cup {NoCounter} /\ accepted \in SUBSET Nat /\ Window \in Int
  BY WordBitsAssumption, ReplayWordsAssumption DEF ReplayInv, Window
<1>2. Window >= 0
  <2>1. WordBits * (ReplayWords - 1) >= 0
    BY WordBitsAssumption, ReplayWordsAssumption
  <2> QED BY <2>1, Zenon DEF Window
<1>3. CASE First(c)
  <2>1. accepted = {}
    BY <1>3, Zenon DEF First, ReplayInv, RingFaithful
  <2>2. Exact!Fresh(c)
    BY <2>1, Zenon DEF Exact!Fresh
  <2> QED BY <1>3, <2>2, Zenon DEF First, Accept, Exact!Judge
<1>4. CASE Advance(c)
  <2>1. top \in Nat /\ c > top /\ \A a \in accepted : a <= top
    BY <1>1, <1>4, Zenon DEF Advance, ReplayInv, RingFaithful
  <2>2. c \notin accepted /\ \A a \in accepted : a - c <= Window
    BY <1>1, <1>2, <2>1
  <2>3. Exact!Fresh(c)
    BY <2>2, Zenon DEF Exact!Fresh
  <2> QED BY <1>4, <2>3, Zenon DEF Advance, Accept, Exact!Judge
<1>5. CASE Behind(c)
  <2>1. top \in Nat /\ top # NoCounter /\ c <= top /\ top \in accepted /\ \A a \in accepted : a <= top
    BY <1>1, <1>5, Zenon DEF Behind, ReplayInv, RingFaithful
  <2>2. Exact!Fresh(c) <=> c \notin accepted /\ top - c <= Window
    <3>1. ASSUME top - c <= Window, NEW a \in accepted PROVE a - c <= Window
      BY <1>1, <2>1, <3>1
    <3> QED BY <2>1, <3>1, Zenon DEF Exact!Fresh
  <2>3. Exact!Fresh(c) <=> ~(top - c > Window \/ GetBit(c))
    <3>1. CASE top - c <= Window
      BY <1>1, <2>1, <2>2, <3>1, BitTells
    <3>2. CASE ~(top - c <= Window)
      BY <1>1, <2>1, <2>2, <3>2
    <3> QED BY <3>1, <3>2, Zenon
  <2>4. CASE Exact!Fresh(c)
    BY <1>5, <2>3, <2>4, Zenon DEF Behind, Accept, Exact!Judge
  <2>5. CASE ~Exact!Fresh(c)
    <3>1. Exact!Fresh(c) = FALSE
      BY <2>5, Zenon DEF Exact!Fresh
    <3>2. verdict' = <<c, FALSE>> /\ accepted' = accepted
      BY <1>5, <2>3, <2>5, Zenon DEF Behind, Reject
    <3> QED BY <3>1, <3>2, Zenon DEF Exact!Judge
  <2> QED BY <2>4, <2>5, Zenon
<1> QED BY <1>3, <1>4, <1>5, Zenon DEF CheckAndUpdate

\* The ring of words implements the exact sliding window: whatever order counters
\* arrive in, check_and_update accepts one exactly when it was never accepted and
\* is not more than Window behind the highest.
THEOREM SpecImplementsAntiReplay == ReplaySpec => ImplementsAntiReplay
<1>1. ReplayInit => Exact!Init
  BY Zenon DEF ReplayInit, Exact!Init
<1>2. ReplayInv /\ [ReplayNext]_replayVars => [Exact!Next]_Exact!vars
  <2> SUFFICES ASSUME ReplayInv, [ReplayNext]_replayVars PROVE [Exact!Next]_Exact!vars
    BY Zenon
  <2>1. ASSUME NEW c \in Counters, CheckAndUpdate(c) PROVE Exact!Next
    <3>1. c \in Nat
      BY CountersAssumption, Zenon
    <3> QED BY <2>1, <3>1, CheckIsJudge, Zenon DEF Exact!Next
  <2>2. ASSUME UNCHANGED replayVars PROVE UNCHANGED Exact!vars
    BY <2>2, Zenon DEF replayVars, Exact!vars
  <2> QED BY <2>1, <2>2, Zenon DEF ReplayNext
<1> QED BY <1>1, <1>2, ReplayInitial, ReplayStep, PTL DEF ReplaySpec, ImplementsAntiReplay, Exact!Spec

-------------------------------------------------------------------------------
(* The firewall, for any peers, flows, limits and timeouts. The invariant is *)
(* that the table has one entry per flow and that the counts are those of    *)
(* the table, below their limits: otherwise a flow could be refused, or      *)
(* evict another one, for entries that are gone.                             *)

\* A flow of the table.
FlowEntry(e) ==
    /\ e = [peer |-> e.peer, flow |-> e.flow, expires |-> e.expires, seen |-> e.seen, closing |-> e.closing]
    /\ e.peer \in FwPeers /\ e.expires \in Nat /\ e.seen \in Nat /\ e.closing \in BOOLEAN

SameFlow(e, f) == e.peer = f.peer /\ e.flow = f.flow

\* A table and its counts: one entry per flow, none above its limit.
TableOK(E, n) ==
    /\ IsFiniteSet(E) /\ Cardinality(E) <= MaxEntries
    /\ \A e \in E : FlowEntry(e)
    /\ \A e, f \in E : SameFlow(e, f) => e = f
    /\ n \in [FwPeers -> Nat]
    /\ \A p \in FwPeers : n[p] = Cardinality(OfPeer(E, p)) /\ n[p] <= MaxPerPeer

FwInv == TableOK(entries, counts) /\ fwNow \in Nat

\* The limits are numbers.
LEMMA Limits == MaxEntries \in Nat /\ MaxPerPeer \in Nat /\ MaxPerPeer <= MaxEntries /\ MaxPerPeer > 0
BY FirewallAssumption

\* Entries taken out.
LEMMA FewerFlows ==
    ASSUME NEW E, NEW n, TableOK(E, n), NEW F, F \subseteq E,
           NEW m, m = [q \in FwPeers |-> Cardinality(OfPeer(F, q))]
    PROVE  TableOK(F, m)
<1>1. IsFiniteSet(F) /\ Cardinality(F) <= Cardinality(E) /\ Cardinality(F) \in Nat /\ Cardinality(E) \in Nat
  BY FS_Subset, FS_CardinalityType, Zenon DEF TableOK
<1>2. Cardinality(F) <= MaxEntries
  BY <1>1, Limits DEF TableOK
<1>3. ASSUME NEW q \in FwPeers
      PROVE  Cardinality(OfPeer(F, q)) \in Nat /\ Cardinality(OfPeer(F, q)) <= MaxPerPeer
  <2>1. OfPeer(F, q) \subseteq OfPeer(E, q) /\ OfPeer(E, q) \subseteq E
    BY Zenon DEF OfPeer
  <2>2. IsFiniteSet(OfPeer(E, q))
    BY <2>1, FS_Subset, Zenon DEF TableOK
  <2>3. IsFiniteSet(OfPeer(F, q)) /\ Cardinality(OfPeer(F, q)) <= Cardinality(OfPeer(E, q))
    BY <2>1, <2>2, FS_Subset, Zenon
  <2>4. Cardinality(OfPeer(F, q)) \in Nat /\ Cardinality(OfPeer(E, q)) \in Nat
    BY <2>2, <2>3, FS_CardinalityType, Zenon
  <2>5. Cardinality(OfPeer(E, q)) <= MaxPerPeer
    BY Zenon DEF TableOK
  <2> QED BY <2>3, <2>4, <2>5, Limits
<1> QED BY <1>1, <1>2, <1>3, Zenon DEF TableOK

\* collect_expired and rebuild_peer_counts leave an exact table.
LEMMA Collected ==
    ASSUME FwInv
    PROVE  TableOK(Unexpired, Rebuilt)
<1>1. CASE Unexpired = entries
  BY <1>1, Zenon DEF FwInv, Rebuilt
<1>2. CASE Unexpired # entries
  <2>1. PICK U : U = Unexpired
    BY Zenon
  <2>2. U \subseteq entries
    BY <2>1, Zenon DEF Unexpired
  <2>3. PICK m : m = [q \in FwPeers |-> Cardinality(OfPeer(U, q))]
    BY Zenon
  <2>4. TableOK(U, m)
    BY <2>2, <2>3, FewerFlows, Zenon DEF FwInv
  <2>5. Rebuilt = m
    BY <1>2, <2>1, <2>3, Zenon DEF Rebuilt
  <2> QED BY <2>1, <2>4, <2>5, Zenon
<1> QED BY <1>1, <1>2, Zenon

\* A flow pushed where its peer and the table have room.
LEMMA Pushing ==
    ASSUME NEW E, NEW n, TableOK(E, n), NEW e, FlowEntry(e), \A f \in E : ~SameFlow(e, f),
           Cardinality(E) < MaxEntries, n[e.peer] < MaxPerPeer,
           NEW F, F = E \cup {e}, NEW m, m = [n EXCEPT ![e.peer] = @ + 1]
    PROVE  TableOK(F, m)
<1>1. e \notin E /\ IsFiniteSet(E) /\ Cardinality(E) \in Nat
  BY FS_CardinalityType, Zenon DEF TableOK, SameFlow
<1>2. IsFiniteSet(F) /\ Cardinality(F) = Cardinality(E) + 1
  BY <1>1, FS_AddElement, Zenon
<1>3. Cardinality(F) <= MaxEntries
  BY <1>1, <1>2, Limits
<1>4. \A f, g \in F : SameFlow(f, g) => f = g
  BY Zenon DEF TableOK, SameFlow
<1>5. e.peer \in FwPeers /\ n \in [FwPeers -> Nat]
  BY Zenon DEF FlowEntry, TableOK
<1>6. m \in [FwPeers -> Nat]
  BY <1>5
<1>7. ASSUME NEW q \in FwPeers PROVE m[q] = Cardinality(OfPeer(F, q)) /\ m[q] <= MaxPerPeer
  <2>1. n[q] = Cardinality(OfPeer(E, q)) /\ n[q] <= MaxPerPeer /\ n[q] \in Nat
    BY <1>5, Zenon DEF TableOK
  <2>2. CASE q # e.peer
    <3>1. OfPeer(F, q) = OfPeer(E, q)
      BY <2>2, Zenon DEF OfPeer
    <3>2. m[q] = n[q]
      BY <1>5, <2>2, Zenon
    <3> QED BY <2>1, <3>1, <3>2, Zenon
  <2>3. CASE q = e.peer
    <3>1. PICK S : S = OfPeer(E, q)
      BY Zenon
    <3>2. OfPeer(F, q) = S \cup {e} /\ e \notin S /\ S \subseteq E
      BY <1>1, <2>3, <3>1, Zenon DEF OfPeer
    <3>3. IsFiniteSet(S)
      BY <1>1, <3>2, FS_Subset, Zenon
    <3>4. Cardinality(S \cup {e}) = Cardinality(S) + 1
      BY <3>2, <3>3, FS_AddElement, Zenon
    <3>5. m[q] = n[q] + 1
      BY <1>5, <2>3, Zenon
    <3>6. n[q] < MaxPerPeer
      BY <2>3, Zenon
    <3>7. n[q] + 1 <= MaxPerPeer
      BY <2>1, <3>6, Limits
    <3> QED BY <2>1, <3>1, <3>2, <3>4, <3>5, <3>7, Zenon
  <2> QED BY <2>2, <2>3, Zenon
<1> QED BY <1>2, <1>3, <1>4, <1>6, <1>7, Zenon DEF TableOK

\* A flow that is taken out leaves room for its peer and in the table.
LEMMA TakingOut ==
    ASSUME NEW E, NEW n, TableOK(E, n), NEW v \in E,
           NEW F, F = E \ {v}, NEW m, m = [n EXCEPT ![v.peer] = @ - 1]
    PROVE  TableOK(F, m) /\ Cardinality(F) < MaxEntries /\ m[v.peer] < MaxPerPeer
<1>1. /\ IsFiniteSet(E) /\ Cardinality(E) \in Nat /\ v.peer \in FwPeers /\ n \in [FwPeers -> Nat]
      /\ Cardinality(E) <= MaxEntries
  BY FS_CardinalityType, Zenon DEF TableOK, FlowEntry
<1>2. IsFiniteSet(F) /\ Cardinality(F) = Cardinality(E) - 1
  BY <1>1, FS_RemoveElement, Zenon
<1>3. Cardinality(F) < MaxEntries
  BY <1>1, <1>2, Limits
<1>4. PICK k : k = [q \in FwPeers |-> Cardinality(OfPeer(F, q))]
  BY Zenon
<1>5. TableOK(F, k)
  BY <1>4, FewerFlows, Zenon
<1>6. ASSUME NEW q \in FwPeers PROVE m[q] = k[q] /\ (q = v.peer => m[q] < MaxPerPeer)
  <2>1. n[q] = Cardinality(OfPeer(E, q)) /\ n[q] <= MaxPerPeer /\ n[q] \in Nat
    BY <1>1, Zenon DEF TableOK
  <2>2. CASE q # v.peer
    <3>1. OfPeer(F, q) = OfPeer(E, q)
      BY <2>2, Zenon DEF OfPeer
    <3> QED BY <1>1, <1>4, <2>1, <2>2, <3>1, Zenon
  <2>3. CASE q = v.peer
    <3>1. PICK S : S = OfPeer(E, q)
      BY Zenon
    <3>2. OfPeer(F, q) = S \ {v} /\ v \in S /\ S \subseteq E
      BY <2>3, <3>1, Zenon DEF OfPeer
    <3>3. IsFiniteSet(S)
      BY <1>1, <3>2, FS_Subset, Zenon
    <3>4. Cardinality(S \ {v}) = Cardinality(S) - 1
      BY <3>2, <3>3, FS_RemoveElement, Zenon
    <3>5. m[q] = n[q] - 1
      BY <1>1, <2>3, Zenon
    <3>6. n[q] - 1 < MaxPerPeer
      BY <2>1, Limits
    <3> QED BY <1>4, <2>1, <3>1, <3>2, <3>4, <3>5, <3>6, Zenon
  <2> QED BY <2>2, <2>3, Zenon
<1>7. m = k
  <2>1. DOMAIN m = FwPeers /\ m = [q \in FwPeers |-> m[q]]
    BY <1>1, Zenon
  <2> QED BY <1>4, <1>6, <2>1, Zenon
<1> QED BY <1>1, <1>3, <1>5, <1>6, <1>7, Zenon

\* replace: a flow takes the place of another, of its own peer or of one with room
\* for it.
LEMMA Replacing ==
    ASSUME NEW E, NEW n, TableOK(E, n), NEW v \in E, NEW e, FlowEntry(e),
           \A f \in E \ {v} : ~SameFlow(e, f), v.peer = e.peer \/ n[e.peer] < MaxPerPeer,
           NEW F, F = (E \ {v}) \cup {e}, NEW m, m = Moved(n, v, e.peer)
    PROVE  TableOK(F, m)
<1>1. v.peer \in FwPeers /\ e.peer \in FwPeers /\ n \in [FwPeers -> Nat]
  BY Zenon DEF TableOK, FlowEntry
<1>2. PICK G, k : G = E \ {v} /\ k = [n EXCEPT ![v.peer] = @ - 1]
  BY Zenon
<1>3. TableOK(G, k) /\ Cardinality(G) < MaxEntries /\ k[v.peer] < MaxPerPeer
  BY <1>2, TakingOut, Zenon
<1>4. k[e.peer] < MaxPerPeer
  <2>1. CASE v.peer = e.peer
    BY <1>3, <2>1, Zenon
  <2>2. CASE v.peer # e.peer
    BY <1>1, <1>2, <2>2, Zenon
  <2> QED BY <2>1, <2>2, Zenon
<1>5. PICK j : j = [k EXCEPT ![e.peer] = @ + 1]
  BY Zenon
<1>6. TableOK(F, j)
  BY <1>2, <1>3, <1>4, <1>5, Pushing, Zenon
<1>7. j = m
  <2>1. CASE v.peer = e.peer
    <3>1. m = n
      BY <2>1, Zenon DEF Moved
    <3>2. DOMAIN j = FwPeers /\ \A q \in FwPeers : j[q] = n[q]
      BY <1>1, <1>2, <1>5, <2>1
    <3>3. j \in [FwPeers -> Nat]
      BY <1>6, Zenon DEF TableOK
    <3> QED BY <1>1, <3>1, <3>2, <3>3
  <2>2. CASE v.peer # e.peer
    <3>1. m = [n EXCEPT ![v.peer] = @ - 1, ![e.peer] = @ + 1]
      BY <2>2, Zenon DEF Moved
    <3> QED BY <1>1, <1>2, <1>5, <2>2, <3>1, Zenon
  <2> QED BY <2>1, <2>2, Zenon
<1> QED BY <1>6, <1>7, Zenon

-------------------------------------------------------------------------------
(* The steps.                                                                *)

\* A timeout is a positive number.
LEMMA TimeoutPositive == \A flow, closing : EffectiveTimeout(flow, closing) \in Nat \ {0}
BY FirewallAssumption, Zenon DEF EffectiveTimeout

\* A flow that is seen again is live, the same flow, and no less closing.
LEMMA RefreshedFlow ==
    ASSUME FwInv, NEW e \in entries, NEW parsed, NEW f, f = Refreshed(e, parsed)
    PROVE  FlowEntry(f) /\ SameFlow(f, e) /\ f.expires > fwNow /\ (e.closing => f.closing)
<1>1. FlowEntry(e) /\ fwNow \in Nat
  BY Zenon DEF FwInv, TableOK
<1>2. PICK c \in BOOLEAN : c = (e.closing \/ IsClosing(parsed))
  BY Zenon DEF IsClosing
<1>a. PICK d \in Nat \ {0} : d = EffectiveTimeout(e.flow, c)
  BY TimeoutPositive, Zenon
<1>3. PICK t \in Nat : t = fwNow + EffectiveTimeout(e.flow, c) /\ t > fwNow
  BY <1>1, <1>a
<1>4. f = [e EXCEPT !.seen = fwNow, !.closing = c, !.expires = t]
  BY <1>2, <1>3, Zenon DEF Refreshed
<1>5. f = [peer |-> e.peer, flow |-> e.flow, expires |-> t, seen |-> fwNow, closing |-> c]
  BY <1>1, <1>4, Zenon DEF FlowEntry
<1>6. f.peer = e.peer /\ f.flow = e.flow /\ f.expires = t /\ f.seen = fwNow /\ f.closing = c
  BY <1>5
<1> QED BY <1>1, <1>2, <1>3, <1>5, <1>6, Zenon DEF FlowEntry, SameFlow

\* A flow just opened is live.
LEMMA OpenedFlow ==
    ASSUME FwInv, NEW p \in FwPeers, NEW key, NEW f, f = NewEntry(p, key)
    PROVE  FlowEntry(f) /\ f.peer = p /\ f.flow = key /\ f.expires > fwNow
<1>1. fwNow \in Nat
  BY Zenon DEF FwInv
<1>2. EffectiveTimeout(key, FALSE) \in Nat \ {0}
  BY FirewallAssumption, Zenon DEF EffectiveTimeout
<1>a. PICK d \in Nat \ {0} : d = EffectiveTimeout(key, FALSE)
  BY <1>2, Zenon
<1>3. PICK t \in Nat : t = fwNow + d /\ t > fwNow
  BY <1>1
<1>5. f = [peer |-> p, flow |-> key, expires |-> t, seen |-> fwNow, closing |-> FALSE]
  BY <1>3, <1>a, Zenon DEF NewEntry
<1>6. f.peer = p /\ f.flow = key /\ f.expires = t /\ f.seen = fwNow /\ f.closing = FALSE
  BY <1>5
<1> QED BY <1>1, <1>3, <1>5, <1>6, Zenon DEF FlowEntry

\* What Pinholes says of a step.
PinStep ==
    /\ \A e \in entries' : LiveFlow(e.peer, e.flow)' =>
         LiveFlow(e.peer, e.flow) \/ <<e.peer, e.flow>> \in opener'
    /\ \A e \in entries, f \in entries' :
         e.peer = f.peer /\ e.flow = f.flow /\ e.closing /\ Live(e) => f.closing

\* A live flow is seen again, from either side.
LEMMA SeenAgain ==
    ASSUME FwInv, NEW e \in entries, Live(e), NEW parsed,
           entries' = (entries \ {e}) \cup {Refreshed(e, parsed)}, UNCHANGED <<counts, fwNow>>
    PROVE  FwInv' /\ PinStep /\ FairEviction
<1>1. PICK f : f = Refreshed(e, parsed)
  BY Zenon
<1>2. FlowEntry(f) /\ SameFlow(f, e) /\ f.expires > fwNow /\ (e.closing => f.closing)
  BY <1>1, RefreshedFlow, Zenon
<1>3. /\ \A x, y \in entries : SameFlow(x, y) => x = y
      /\ TableOK(entries, counts)
  BY Zenon DEF FwInv, TableOK
<1>4. \A x \in entries \ {e} : ~SameFlow(f, x)
  BY <1>2, <1>3, Zenon DEF SameFlow
<1>5. PICK F, m : F = (entries \ {e}) \cup {f} /\ m = Moved(counts, e, f.peer)
  BY Zenon
<1>6. e.peer = f.peer
  BY <1>2, Zenon DEF SameFlow
<1>7. m = counts
  BY <1>5, <1>6, Zenon DEF Moved
<1>8. TableOK(F, m)
  BY <1>2, <1>3, <1>4, <1>5, <1>6, Replacing, Zenon
<1>9. FwInv'
  BY <1>1, <1>5, <1>7, <1>8, Zenon DEF FwInv, TableOK, FlowEntry, SameFlow, OfPeer
<1>10. entries' = (entries \ {e}) \cup {f} /\ fwNow' = fwNow
  BY <1>1, Zenon
<1>11. ASSUME NEW p, NEW k PROVE LiveFlow(p, k)' <=> LiveFlow(p, k)
  BY <1>2, <1>10, Zenon DEF LiveFlow, Live, SameFlow
<1>12. PinStep
  <2>1. \A x \in entries' : LiveFlow(x.peer, x.flow)' => LiveFlow(x.peer, x.flow)
    BY <1>2, <1>10, Zenon DEF LiveFlow, Live, SameFlow
  <2>2. ASSUME NEW x \in entries, NEW y \in entries', x.peer = y.peer, x.flow = y.flow, x.closing
        PROVE  y.closing
    <3>1. CASE y = f
      <4>1. x = e
        BY <1>2, <1>3, <2>2, <3>1, Zenon DEF SameFlow
      <4> QED BY <1>2, <2>2, <3>1, <4>1, Zenon
    <3>2. CASE y \in entries
      <4>1. x = y
        BY <1>3, <2>2, <3>2, Zenon DEF SameFlow
      <4> QED BY <2>2, <4>1, Zenon
    <3> QED BY <1>10, <3>1, <3>2, Zenon
  <2> QED BY <2>1, <2>2, Zenon DEF PinStep
<1>13. FairEviction
  <2>1. ASSUME NEW x \in entries, Live(x) PROVE LiveFlow(x.peer, x.flow)'
    <3>1. CASE x = e
      BY <1>2, <1>10, <3>1, Zenon DEF LiveFlow, Live, SameFlow
    <3>2. CASE x # e
      BY <1>10, <2>1, <3>2, Zenon DEF LiveFlow, Live
    <3> QED BY <3>1, <3>2, Zenon
  <2> QED BY <2>1, Zenon DEF FairEviction
<1> QED BY <1>9, <1>12, <1>13, Zenon

\* A flow is opened: in a free place, or in that of a victim.
LEMMA Opening ==
    ASSUME FwInv, NEW p \in FwPeers, NEW key, Matching(p, key) = {}, OpenFlow(p, key),
           opener' = {<<p, key>>}, UNCHANGED fwNow
    PROVE  FwInv' /\ PinStep /\ FairEviction
<1>1. PICK f : f = NewEntry(p, key)
  BY Zenon
<1>2. FlowEntry(f) /\ f.peer = p /\ f.flow = key /\ f.expires > fwNow
  BY <1>1, OpenedFlow, Zenon
<1>3. PICK U, n : U = Unexpired /\ n = Rebuilt
  BY Zenon
<1>4. TableOK(U, n) /\ n \in [FwPeers -> Nat]
  BY <1>3, Collected, Zenon DEF TableOK
<1>5. U \subseteq entries /\ (\A x \in U : Live(x)) /\ (\A x \in entries : Live(x) => x \in U)
  BY <1>3, Zenon DEF Unexpired
<1>6. \A x \in U : ~SameFlow(f, x)
  BY <1>2, <1>5, Zenon DEF Matching, SameFlow
<1>7. PICK V \in SUBSET U :
        /\ entries' = (U \ V) \cup {f} /\ TableOK(entries', counts')
        /\ \A v \in V : v.peer # p => n[p] < MaxPerPeer /\ n[p] < n[v.peer]
  <2>1. CASE /\ n[p] < MaxPerPeer /\ Cardinality(U) < MaxEntries
             /\ entries' = U \cup {f} /\ counts' = [n EXCEPT ![p] = @ + 1]
    <3>1. TableOK(entries', counts')
      BY <1>2, <1>4, <1>6, <2>1, Pushing, Zenon
    <3>2. entries' = (U \ {}) \cup {f}
      BY <2>1, Zenon
    <3> QED BY <3>1, <3>2, Zenon
  <2>2. CASE \E v \in FairVictims(U, n, p) :
               entries' = (U \ {v}) \cup {f} /\ counts' = Moved(n, v, p)
    <3>1. PICK v \in FairVictims(U, n, p) :
               entries' = (U \ {v}) \cup {f} /\ counts' = Moved(n, v, p)
      BY <2>2, Zenon
    <3>2. v \in U /\ (v.peer # p => n[p] < MaxPerPeer /\ n[p] < n[v.peer])
      <4>1. n[p] \in Nat /\ MaxPerPeer \in Nat /\ \A q \in FwPeers : n[q] \in Nat
        BY <1>4, Limits, Zenon
      <4>2. CASE v \in VictimsOwnedBy(U, p)
        BY <4>2, Zenon DEF VictimsOwnedBy, OfPeer
      <4>3. CASE v \notin VictimsOwnedBy(U, p)
        <5>1. PICK q \in FwPeers : n[q] > n[p] /\ v \in VictimsOwnedBy(U, q) /\ ~(n[p] >= MaxPerPeer)
          BY <3>1, <4>3, Zenon DEF FairVictims
        <5>2. v \in U /\ v.peer = q
          BY <5>1, Zenon DEF VictimsOwnedBy, OfPeer
        <5> QED BY <4>1, <5>1, <5>2
      <4> QED BY <4>2, <4>3, Zenon
    <3>3. \A x \in U \ {v} : ~SameFlow(f, x)
      BY <1>6, Zenon
    <3>4. TableOK(entries', counts')
      BY <1>2, <1>4, <3>1, <3>2, <3>3, Replacing, Zenon
    <3> QED BY <3>1, <3>2, <3>4, Zenon
  <2> QED BY <1>1, <1>3, <2>1, <2>2, Zenon DEF OpenFlow
<1>8. FwInv'
  BY <1>7, Zenon DEF FwInv, TableOK, FlowEntry, SameFlow, OfPeer
<1>9. PinStep
  <2>1. ASSUME NEW x \in entries', LiveFlow(x.peer, x.flow)'
        PROVE  LiveFlow(x.peer, x.flow) \/ <<x.peer, x.flow>> \in opener'
    <3>1. CASE x = f
      BY <1>2, <3>1, Zenon
    <3>2. CASE x \in U
      BY <1>5, <3>2, Zenon DEF LiveFlow
    <3> QED BY <1>7, <3>1, <3>2, Zenon
  <2>2. ASSUME NEW x \in entries, NEW y \in entries', x.peer = y.peer, x.flow = y.flow, x.closing, Live(x)
        PROVE  y.closing
    <3>1. x \in U
      BY <1>5, <2>2, Zenon
    <3>2. y # f
      BY <1>6, <2>2, <3>1, Zenon DEF SameFlow
    <3>3. y \in U
      BY <1>7, <3>2, Zenon
    <3>4. x = y
      BY <1>4, <2>2, <3>1, <3>3, Zenon DEF TableOK, SameFlow
    <3> QED BY <2>2, <3>4, Zenon
  <2> QED BY <2>1, <2>2, Zenon DEF PinStep
<1>10. FairEviction
  <2> SUFFICES ASSUME NEW x \in entries, NEW o \in opener', Live(x), x.peer # o[1], ~LiveFlow(x.peer, x.flow)'
               PROVE  /\ Cardinality(OfPeer(Unexpired, o[1])) < MaxPerPeer
                      /\ Cardinality(OfPeer(Unexpired, o[1])) < Cardinality(OfPeer(Unexpired, x.peer))
    BY Zenon DEF FairEviction
  <2>1. o[1] = p
    OBVIOUS
  <2>2. x \in U /\ x.expires > fwNow
    BY <1>5, Zenon DEF Live
  <2>3. x \notin entries'
    BY <2>2, Zenon DEF LiveFlow, Live
  <2>4. x \in V
    BY <1>7, <2>2, <2>3, Zenon
  <2>5. n[p] < MaxPerPeer /\ n[p] < n[x.peer]
    BY <1>7, <2>1, <2>4, Zenon
  <2>6. x.peer \in FwPeers
    BY <1>4, <2>2, Zenon DEF TableOK, FlowEntry
  <2>7. n[p] = Cardinality(OfPeer(U, p)) /\ n[x.peer] = Cardinality(OfPeer(U, x.peer))
    BY <1>4, <2>6, Zenon DEF TableOK
  <2> QED BY <1>3, <2>1, <2>5, <2>7, Zenon
<1> QED BY <1>8, <1>9, <1>10, Zenon

\* observe_outbound.
LEMMA ObserveOutboundStep ==
    ASSUME FwInv, NEW p \in FwPeers, NEW pkt \in OutPackets, ObserveOutbound(p, pkt)
    PROVE  FwInv' /\ PinStep /\ FairEviction
<1>1. PICK parsed : parsed = ParseFlow(pkt)
  BY Zenon
<1>2. fwNow' = fwNow /\ opener' = IF OpensNewFlow(parsed) THEN {<<p, parsed.key>>} ELSE {}
  BY <1>1, Zenon DEF ObserveOutbound
<1>3. CASE \E e \in Matching(p, parsed.key) : entries' = (entries \ {e}) \cup {Refreshed(e, parsed)} /\ counts' = counts
  <2>1. PICK e \in Matching(p, parsed.key) : entries' = (entries \ {e}) \cup {Refreshed(e, parsed)} /\ counts' = counts
    BY <1>3, Zenon
  <2>2. e \in entries /\ Live(e)
    BY Zenon DEF Matching
  <2> QED BY <1>2, <2>1, <2>2, SeenAgain, Zenon
<1>4. CASE Matching(p, parsed.key) = {} /\ OpensNewFlow(parsed) /\ OpenFlow(p, parsed.key)
  <2>1. PICK key : key = parsed.key
    BY Zenon
  <2>2. Matching(p, key) = {} /\ OpenFlow(p, key) /\ opener' = {<<p, key>>}
    BY <1>2, <1>4, <2>1, Zenon
  <2> QED BY <1>2, <2>2, Opening, Zenon
<1> QED BY <1>1, <1>3, <1>4, Zenon DEF ObserveOutbound

\* An inbound packet that is let in.
LEMMA AdmitInboundStep ==
    ASSUME FwInv, NEW p \in FwPeers, NEW pkt \in InPackets, AdmitInbound(p, pkt)
    PROVE  FwInv' /\ PinStep /\ FairEviction
<1>1. PICK parsed : parsed = ParseFlow(pkt)
  BY Zenon
<1>2. PICK e \in entries : Live(e) /\ entries' = (entries \ {e}) \cup {Refreshed(e, parsed)}
  BY <1>1, Zenon DEF AdmitInbound
<1>3. counts' = counts /\ fwNow' = fwNow
  BY Zenon DEF AdmitInbound
<1> QED BY <1>2, <1>3, SeenAgain, Zenon

\* remove_peer.
LEMMA RemoveFlowsStep ==
    ASSUME FwInv, NEW p \in FwPeers, RemoveFlows(p)
    PROVE  FwInv' /\ PinStep /\ FairEviction
<1>1. PICK F : F = entries \ OfPeer(entries, p)
  BY Zenon
<1>2. PICK m : m = [q \in FwPeers |-> Cardinality(OfPeer(F, q))]
  BY Zenon
<1>3. F \subseteq entries /\ TableOK(entries, counts)
  BY <1>1, Zenon DEF FwInv
<1>4. TableOK(F, m)
  BY <1>2, <1>3, FewerFlows, Zenon
<1>5. entries' = F /\ counts' = [counts EXCEPT ![p] = 0] /\ fwNow' = fwNow /\ opener' = {}
  BY <1>1, Zenon DEF RemoveFlows
<1>6. counts' = m
  <2>1. counts \in [FwPeers -> Nat]
    BY <1>3, Zenon DEF TableOK
  <2>2. ASSUME NEW q \in FwPeers PROVE counts'[q] = m[q]
    <3>1. CASE q = p
      <4>1. OfPeer(F, q) = {}
        BY <1>1, <3>1, Zenon DEF OfPeer
      <4> QED BY <1>2, <1>5, <2>1, <3>1, <4>1, FS_EmptySet, Zenon
    <3>2. CASE q # p
      <4>1. OfPeer(F, q) = OfPeer(entries, q)
        BY <1>1, <3>2, Zenon DEF OfPeer
      <4>2. counts[q] = Cardinality(OfPeer(entries, q))
        BY <1>3, Zenon DEF TableOK
      <4> QED BY <1>2, <1>5, <2>1, <3>2, <4>1, <4>2, Zenon
    <3> QED BY <3>1, <3>2, Zenon
  <2>3. counts' = [q \in FwPeers |-> counts'[q]]
    BY <1>5, <2>1, Zenon
  <2> QED BY <1>2, <2>2, <2>3, Zenon
<1>7. FwInv'
  BY <1>4, <1>5, <1>6, Zenon DEF FwInv, TableOK, FlowEntry, SameFlow, OfPeer
<1>8. PinStep
  <2>1. \A x \in entries' : LiveFlow(x.peer, x.flow)' => LiveFlow(x.peer, x.flow)
    BY <1>3, <1>5, Zenon DEF LiveFlow, Live
  <2>2. \A x \in entries, y \in entries' : x.peer = y.peer /\ x.flow = y.flow => x = y
    BY <1>3, <1>5, Zenon DEF TableOK, SameFlow
  <2> QED BY <2>1, <2>2, Zenon DEF PinStep
<1>9. FairEviction
  BY <1>5, Zenon DEF FairEviction
<1> QED BY <1>7, <1>8, <1>9, Zenon

\* Time passes.
LEMMA FwTickStep ==
    ASSUME FwInv, FwTick
    PROVE  FwInv' /\ PinStep /\ FairEviction
<1>1. fwNow \in Nat /\ fwNow' = fwNow + 1 /\ entries' = entries /\ counts' = counts /\ opener' = {}
  BY Zenon DEF FwInv, FwTick
<1>2. FwInv'
  BY <1>1 DEF FwInv, TableOK, FlowEntry, SameFlow, OfPeer
<1>3. \A x \in entries : x.expires \in Nat
  BY Zenon DEF FwInv, TableOK, FlowEntry
<1>4. \A x \in entries' : LiveFlow(x.peer, x.flow)' => LiveFlow(x.peer, x.flow)
  BY <1>1, <1>3 DEF LiveFlow, Live
<1>5. \A x \in entries, y \in entries' : x.peer = y.peer /\ x.flow = y.flow => x = y
  BY <1>1, Zenon DEF FwInv, TableOK, SameFlow
<1>6. PinStep
  BY <1>4, <1>5, Zenon DEF PinStep
<1> QED BY <1>1, <1>2, <1>6, Zenon DEF FairEviction

\* Every step.
LEMMA FirewallStep == FwInv /\ FwNext => FwInv' /\ PinStep /\ FairEviction
BY FwTickStep, RemoveFlowsStep, AdmitInboundStep, ObserveOutboundStep, Zenon DEF FwNext

\* The table and its counts.
LEMMA SpecFwInv == FwSpec => []FwInv
<1>1. FwInit => FwInv
  <2> SUFFICES ASSUME FwInit PROVE FwInv
    BY Zenon
  <2>1. \A p : OfPeer({}, p) = {}
    BY Zenon DEF OfPeer
  <2>2. IsFiniteSet({}) /\ Cardinality({}) = 0
    BY FS_EmptySet, Zenon
  <2> QED BY <2>1, <2>2, Limits DEF FwInit, FwInv, TableOK
<1>2. FwInv /\ UNCHANGED fwVars => FwInv'
  BY Zenon DEF FwInv, fwVars, TableOK, FlowEntry, SameFlow, OfPeer
<1>3. FwInv /\ [FwNext]_fwVars => FwInv'
  BY <1>2, FirewallStep, Zenon
<1> QED BY <1>1, <1>3, PTL DEF FwSpec

\* A way in is only opened from inside, and a flow seen closing keeps the mark.
THEOREM SpecPinholes == FwSpec => Pinholes
<1>1. FwInv /\ [FwNext]_fwVars => [PinStep]_fwVars
  BY FirewallStep, Zenon
<1> QED BY <1>1, SpecFwInv, PTL DEF FwSpec, Pinholes, PinStep

\* The counts are exact and within their limits, and nobody is pushed out by a
\* peer that has as many flows.
THEOREM SpecSharedFairly == FwSpec => SharedFairly
<1>1. FwInv => CountsExact
  BY Zenon DEF FwInv, TableOK, CountsExact
<1>2. FwInv /\ [FwNext]_fwVars => [FairEviction]_fwVars
  BY FirewallStep, Zenon
<1> QED BY <1>1, <1>2, SpecFwInv, PTL DEF FwSpec, SharedFairly
===============================================================================
