---------------------------- MODULE Updates_proofs ----------------------------
(* Firmware updates: the swap of the STM32, otadata of the ESP32 and the     *)
(* sink that programs a slot, wherever power is lost.                        *)
EXTENDS Stm32Update, EspUpdate, FlashSink, TLAPS

-------------------------------------------------------------------------------
(* The swap of the STM32.                                                    *)

\* What the partitions hold for each state word, at each stage of a boot: the
\* bootloader has done the swap it was asked for once anything runs, a trial is
\* exactly a swapped word, and one word is kept for the image on offer.
StmInv ==
    /\ SafeSwap
    /\ word \in {"boot", "swap", "revert"} /\ swapped \in BOOLEAN /\ onTrial \in BOOLEAN
    /\ stage2 \in {"off", "loading", "starting", "serving", "receiving", "storing"}
    /\ "partial" \notin healthy
    /\ word = "swap" /\ swapped => dfu \in healthy
    /\ word = "revert" => active \in healthy
    /\ stage2 # "off" /\ word = "swap" => swapped
    /\ stage2 = "starting" => word # "revert" /\ (onTrial <=> word = "swap")
    /\ shipped \in 0..Len(StmImages)
    /\ stage2 = "receiving" => shipped > 0

\* The bootloader and the application never leave the device without a healthy image
\* to run or to go back to, for any images and wherever power is lost.
THEOREM SpecSafeSwap == StmSpec => []SafeSwap
<1>1. StmInit => StmInv
  <2>1. 0 \in 0..Len(StmImages)
    BY StmAssumption
  <2> QED BY <2>1, Zenon DEF StmInit, StmInv, SafeSwap
<1>2. StmInv /\ [StmNext]_stmVars => StmInv'
  <2> SUFFICES ASSUME StmInv, [StmNext]_stmVars PROVE StmInv'
    BY Zenon
  <2> USE DEF StmInv, SafeSwap, StmReset
  <2>1. CASE StmBoot
    <3>1. CASE word = "swap" /\ swapped
      <4>1. /\ active' = dfu /\ word' = "revert" /\ swapped' = FALSE /\ stage2' = "loading"
            /\ UNCHANGED <<onTrial, shipped, healthy>>
        BY <2>1, <3>1, Zenon DEF StmBoot
      <4> QED BY <3>1, <4>1, Zenon
    <3>2. CASE word = "swap" /\ ~swapped
      <4>1. /\ active' = dfu /\ dfu' = active /\ word' = "swap" /\ swapped' = TRUE
            /\ stage2' = "loading" /\ UNCHANGED <<onTrial, shipped, healthy>>
        BY <2>1, <3>2, Zenon DEF StmBoot
      <4> QED BY <3>2, <4>1, Zenon
    <3>3. CASE word # "swap"
      BY <2>1, <3>3, Zenon DEF StmBoot
    <3> QED BY <3>1, <3>2, <3>3, Zenon
  <2>2. CASE StmPrepare
    <3>1. CASE StmReset /\ UNCHANGED <<word, swapped>>
      BY <2>2, <3>1, Zenon DEF StmPrepare
    <3>2. CASE stage2' = "starting" /\ word = "swap"
      <4>1. onTrial' = TRUE
        BY <2>2, <3>2, Zenon DEF StmPrepare, IsTrial
      <4> QED BY <2>2, <3>2, <4>1, Zenon DEF StmPrepare
    <3>3. CASE stage2' = "starting" /\ word # "swap"
      <4>1. onTrial' = FALSE
        BY <2>2, <3>3, Zenon DEF StmPrepare, IsTrial
      <4> QED BY <2>2, <3>3, <4>1, Zenon DEF StmPrepare
    <3> QED BY <2>2, <3>1, <3>2, <3>3, Zenon DEF StmPrepare
  <2>3. CASE StmStart
    BY <2>3, Zenon DEF StmStart
  <2>4. CASE StmBeginUpdate
    BY <2>4, StmAssumption DEF StmBeginUpdate
  <2>5. CASE StmReceived
    <3>1. StmImages[shipped] # "partial"
      BY <2>5, StmAssumption DEF StmReceived
    <3> QED BY <2>5, <3>1, Zenon DEF StmReceived
  <2>6. CASE StmErase
    BY <2>6, Zenon DEF StmErase
  <2>7. CASE StmStore
    BY <2>7, Zenon DEF StmStore
  <2>8. CASE StmLosePower
    BY <2>8, Zenon DEF StmLosePower
  <2>9. CASE UNCHANGED stmVars
    BY <2>9, Zenon DEF stmVars
  <2> QED
    BY <2>1, <2>2, <2>3, <2>4, <2>5, <2>6, <2>7, <2>8, <2>9, Zenon DEF StmNext
<1>3. StmInv => SafeSwap
  BY Zenon DEF StmInv
<1> QED
  BY <1>1, <1>2, <1>3, PTL DEF StmSpec

-------------------------------------------------------------------------------
(* otadata of the ESP32. The invariant says for each activity of the         *)
(* application what otadata selects and what a write in progress leaves:     *)
(* while an entry is erased the other one selects a proven image.            *)

Settled == {"undefined", "valid"}

\* otadata selects nothing: the first slot is booted.
Unselected ==
    ota[0] = Erased /\ ota[1] = Erased /\ slots[0] \in proven

\* Entry c selects a proven image; the other entry is erased, or older.
SelectsProven(c) ==
    /\ ota[c].seq # 0 /\ ota[c].state \in Settled /\ slots[SlotOf(c)] \in proven
    /\ ota[1 - c].state \in Settled \cup {"new"}
    /\ ota[1 - c].seq # 0 => ota[c].seq = ota[1 - c].seq + 1

\* Entry c selects an image in state st, and the other a proven one to go back to.
GoesBack(c, st) ==
    /\ ota[c].state = st /\ ota[1 - c].seq # 0 /\ ota[c].seq = ota[1 - c].seq + 1
    /\ ota[1 - c].state \in Settled /\ slots[SlotOf(1 - c)] \in proven
    /\ st # "aborted" => slots[SlotOf(c)] # "partial"

RunsSelected(c) == SelectsProven(c) /\ booted = SlotOf(c)
OnTrial(c) == GoesBack(c, "pending") /\ booted = SlotOf(c)
AnyShape == Unselected \/ \E c \in Ids01 :
    SelectsProven(c) \/ \E st \in {"new", "pending", "aborted"} : GoesBack(c, st)
\* What runs is proven and will not be overwritten unless it is selected.
Steady == \E c \in Ids01 : \/ RunsSelected(c)
                           \/ /\ GoesBack(c, "new") \/ GoesBack(c, "aborted")
                              /\ booted = SlotOf(1 - c)
Idle == todo = <<>> /\ writing = None

\* A begun write of the entry that selects nothing meanwhile.
Begun(c, n, st) ==
    ota[1 - c].seq = 0 /\ writing = [e |-> 1 - c, val |-> [seq |-> n, state |-> st]]

Off == doing = "off" /\ booted = None /\ Idle /\ AnyShape
Loading ==
    /\ doing = "loading" /\ Idle
    /\ \/ Unselected /\ booted = 0
       \/ \E c \in Ids01 : \/ RunsSelected(c) \/ OnTrial(c)
                           \/ GoesBack(c, "aborted") /\ booted = SlotOf(1 - c)
Seeding ==
    /\ doing = "loading" /\ booted = 0
    /\ \/ /\ todo = <<"seed", "valid">> /\ Unselected
          /\ writing = None \/ Begun(0, 1, "undefined")
       \/ /\ todo = <<"valid">> /\ writing = None /\ RunsSelected(1)
          /\ ota[0] = Erased /\ ota[1].seq = 1
       \/ todo = <<"valid">> /\ Unselected /\ Begun(0, 1, "valid")
Starting ==
    /\ doing = "starting" /\ Idle
    /\ \/ trial /\ \E c \in Ids01 : OnTrial(c)
       \/ ~trial /\ Steady
Serving == doing \in {"serving", "storing"} /\ Idle /\ Steady
Confirming ==
    /\ doing = "confirming" 
    /\ \E c \in Ids01 :
       \/ todo = <<"valid">> /\ writing = None /\ OnTrial(c) /\ slots[booted] \in proven
       \/ todo = <<"valid">> /\ SelectsProven(c) /\ booted = 1 - SlotOf(c) /\ slots[booted] \in proven
          /\ Begun(c, ota[c].seq + 1, "valid")
       \/ Idle /\ RunsSelected(c)
Receiving == doing = "receiving" /\ Idle /\ offered > 0 /\ \E c \in Ids01 : RunsSelected(c)
Arming ==
    /\ doing = "arming" /\ slots[1 - booted] # "partial"
    /\ \E c \in Ids01 :
         \/ /\ todo = <<"prime", "activate", "new">> /\ RunsSelected(c)
            /\ \/ writing = None
               \/ \E n \in Nat : (n = 0 \/ n + 1 = ota[c].seq) /\ Begun(c, n, "new")
         \/ /\ todo = <<"activate", "new">> /\ RunsSelected(c)
            /\ \/ writing = None /\ ota[1 - c].state = "new"
               \/ Begun(c, ota[c].seq + 1, "new")
         \/ todo = <<"new">> /\ RunsSelected(c) /\ Begun(c, ota[c].seq + 1, "new")
         \/ /\ todo = <<"new">> \/ todo = <<>> 
            /\ writing = None /\ GoesBack(c, "new") /\ booted = SlotOf(1 - c)

EspTypes ==
    /\ ota \in [Ids01 -> Entries]
    /\ DOMAIN slots = Ids01
    /\ offered \in 0..Len(NewImages) /\ "partial" \notin proven

\* The two exceptions of SafeWhileSelected: nothing is claimed once they happened.
Excused == "prepare" \in failed \/ astray

EspInv ==
    \/ Excused
    \/ /\ EspTypes
       /\ Off \/ Loading \/ Seeding \/ Starting \/ Serving \/ Confirming \/ Receiving \/ Arming

USE DEF Entries

\* Sequence numbers that follow each other select different slots.
LEMMA SlotParity ==
    ASSUME NEW n \in Nat \ {0}
    PROVE  (n - 1) % 2 \in {0, 1} /\ ((n + 1) - 1) % 2 = 1 - ((n - 1) % 2)
  OBVIOUS

\* What is written to otadata is an entry.
LEMMA EntryTyped ==
    ASSUME NEW n \in Nat, NEW st \in OtaStates
    PROVE  [seq |-> n, state |-> st] \in Entries
  BY Zenon DEF Entries

\* Two entries in use name the two slots.
LEMMA OtherSlot ==
    ASSUME NEW c \in Ids01, EspTypes, ota[1 - c].seq # 0, ota[c].seq = ota[1 - c].seq + 1
    PROVE  SlotOf(c) \in Ids01 /\ SlotOf(1 - c) = 1 - SlotOf(c) /\ SlotOf(1 - c) \in Ids01
<1> DEFINE n == ota[1 - c].seq
<1>1. n \in Nat \ {0} /\ ota[c].seq = n + 1
  BY DEF EspTypes, Ids01
<1>2. SlotOf(1 - c) = (n - 1) % 2 /\ SlotOf(c) = ((n + 1) - 1) % 2
  BY <1>1, Zenon DEF SlotOf
<1> HIDE DEF n
<1>3. (n - 1) % 2 \in {0, 1} /\ ((n + 1) - 1) % 2 = 1 - ((n - 1) % 2)
  BY <1>1, SlotParity, Zenon
<1> QED BY <1>2, <1>3 DEF Ids01

\* The bootloader, when nothing is selected: the first slot.
LEMMA UnselectedBoot ==
    ASSUME EspTypes, Unselected
    PROVE  /\ CurrentEntry = 0 /\ NoSelection /\ Reviewed = ota /\ Candidates = {} /\ BootSlot = 0
<1>1. Reviewed = ota
  BY DEF EspTypes, Unselected, Erased, Ids01, Reviewed
<1>2. Candidates = {}
  BY <1>1 DEF Candidates, Unselected, Erased, Ids01
<1> QED BY <1>1, <1>2 DEF Unselected, Erased, CurrentEntry, NoSelection, BootSlot

\* The bootloader, when a proven image is selected: it boots it and changes nothing.
LEMMA SelectedBoot ==
    ASSUME NEW c \in Ids01, EspTypes, SelectsProven(c)
    PROVE  /\ CurrentEntry = c /\ ~NoSelection /\ Reviewed = ota /\ Candidates # {}
           /\ BootEntry = c /\ BootSlot = SlotOf(c) /\ SlotOf(c) \in Ids01
<1>1. Reviewed = ota
  BY DEF EspTypes, SelectsProven, Settled, Ids01, Reviewed
<1>2. c \in Candidates /\ \A f \in Candidates : f # c => f = 1 - c /\ ota[f].seq < ota[c].seq
  BY <1>1 DEF Candidates, SelectsProven, Ids01, EspTypes, Settled
<1>3. \A f \in Candidates : Reviewed[f].seq <= Reviewed[c].seq
  BY <1>1, <1>2 DEF EspTypes, Ids01
<1>4. \A b \in Candidates : (\A f \in Candidates : Reviewed[f].seq <= Reviewed[b].seq) => b = c
  BY <1>1, <1>2 DEF EspTypes, Ids01, Candidates
<1>5. BootEntry = c
  BY <1>2, <1>3, <1>4, Zenon DEF BootEntry
<1>6. CurrentEntry = c /\ ~NoSelection
  BY DEF CurrentEntry, NoSelection, SelectsProven, Ids01, EspTypes
<1>7. SlotOf(c) \in Ids01
  BY SlotParity, Zenon DEF SelectsProven, EspTypes, Ids01, SlotOf
<1> QED BY <1>1, <1>2, <1>5, <1>6, <1>7, Zenon DEF BootSlot

\* The bootloader, with a new image: it boots it for the first time.
LEMMA NewBoot ==
    ASSUME NEW c \in Ids01, EspTypes, GoesBack(c, "new")
    PROVE  /\ CurrentEntry = c /\ ~NoSelection /\ Reviewed = ota /\ Candidates # {}
           /\ BootEntry = c /\ BootSlot = SlotOf(c) /\ SlotOf(c) \in Ids01
           /\ SlotOf(1 - c) = 1 - SlotOf(c)
<1>1. Reviewed = ota
  BY DEF EspTypes, GoesBack, Settled, Ids01, Reviewed
<1>2. c \in Candidates /\ \A f \in Candidates : f # c => f = 1 - c /\ ota[f].seq < ota[c].seq
  BY <1>1 DEF Candidates, GoesBack, Ids01, EspTypes, Settled
<1>3. \A f \in Candidates : Reviewed[f].seq <= Reviewed[c].seq
  BY <1>1, <1>2 DEF EspTypes, Ids01
<1>4. \A b \in Candidates : (\A f \in Candidates : Reviewed[f].seq <= Reviewed[b].seq) => b = c
  BY <1>1, <1>2 DEF EspTypes, Ids01, Candidates
<1>5. BootEntry = c
  BY <1>2, <1>3, <1>4, Zenon DEF BootEntry
<1>6. CurrentEntry = c /\ ~NoSelection
  BY DEF CurrentEntry, NoSelection, GoesBack, Ids01, EspTypes
<1>7. SlotOf(c) \in Ids01 /\ SlotOf(1 - c) = 1 - SlotOf(c)
  BY OtherSlot, Zenon DEF GoesBack
<1> QED BY <1>1, <1>2, <1>5, <1>6, <1>7, Zenon DEF BootSlot

\* The bootloader, when the selected image was tried before and never confirmed: it
\* is aborted, and the other one is booted.
LEMMA TriedBoot ==
    ASSUME NEW c \in Ids01, NEW st \in {"pending", "aborted"}, EspTypes, GoesBack(c, st)
    PROVE  /\ CurrentEntry = c /\ ~NoSelection /\ Reviewed \in [Ids01 -> Entries]
           /\ Reviewed[c].seq = ota[c].seq /\ Reviewed[c].state = "aborted"
           /\ Reviewed[1 - c] = ota[1 - c]
           /\ Candidates # {} /\ BootEntry = 1 - c /\ BootSlot = SlotOf(1 - c)
           /\ SlotOf(c) \in Ids01 /\ SlotOf(1 - c) = 1 - SlotOf(c)
<1>1. /\ Reviewed \in [Ids01 -> Entries]
      /\ Reviewed[c].seq = ota[c].seq /\ Reviewed[c].state = "aborted"
      /\ Reviewed[1 - c] = ota[1 - c]
  <2>1. ASSUME NEW e \in Ids01
        PROVE  [ota[e] EXCEPT !.state = "aborted"] = [seq |-> ota[e].seq, state |-> "aborted"]
    <3>1. ota[e] \in Entries
      BY Zenon DEF EspTypes
    <3> QED BY <3>1
  <2>2. \A e \in Ids01 : Reviewed[e] \in Entries
    <3> TAKE e \in Ids01
    <3>1. ota[e] \in Entries
      BY Zenon DEF EspTypes
    <3>2. [seq |-> ota[e].seq, state |-> "aborted"] \in Entries
      <4> DEFINE n == ota[e].seq
      <4>1. n \in Nat
        BY <3>1, Zenon
      <4>2. "aborted" \in OtaStates
        BY Zenon DEF OtaStates
      <4> HIDE DEF n
      <4>3. [seq |-> n, state |-> "aborted"] \in Entries
        BY <4>1, <4>2, EntryTyped, Zenon
      <4> QED BY <4>3, Zenon DEF n
    <3>3. Reviewed[e] = ota[e] \/ Reviewed[e] = [seq |-> ota[e].seq, state |-> "aborted"]
      BY <2>1, Zenon DEF Reviewed
    <3> QED BY <3>1, <3>2, <3>3, Zenon
  <2>3. Reviewed \in [Ids01 -> Entries]
    BY <2>2, Zenon DEF Reviewed
  <2>4. Reviewed[c].seq = ota[c].seq /\ Reviewed[c].state = "aborted"
    BY <2>1, Zenon DEF Reviewed, GoesBack
  <2>5. Reviewed[1 - c] = ota[1 - c]
    BY DEF Reviewed, GoesBack, Settled, Ids01
  <2> QED BY <2>3, <2>4, <2>5, Zenon
<1>2. Candidates = {1 - c}
  BY <1>1 DEF Candidates, GoesBack, Ids01, EspTypes, Settled
<1>3. \A f \in Candidates : Reviewed[f].seq <= Reviewed[1 - c].seq
  BY <1>1, <1>2 DEF EspTypes, Ids01
<1>5. BootEntry = 1 - c
  BY <1>2, <1>3, Zenon DEF BootEntry
<1>6. CurrentEntry = c /\ ~NoSelection
  BY DEF CurrentEntry, NoSelection, GoesBack, Ids01, EspTypes
<1>7. SlotOf(c) \in Ids01 /\ SlotOf(1 - c) = 1 - SlotOf(c)
  BY OtherSlot, Zenon DEF GoesBack
<1> QED BY <1>1, <1>2, <1>5, <1>6, <1>7, Zenon DEF BootSlot

-------------------------------------------------------------------------------
Phase == Off \/ Loading \/ Seeding \/ Starting \/ Serving \/ Confirming \/ Receiving \/ Arming

\* The slot an entry in use names.
LEMMA RunningSlot ==
    ASSUME NEW c \in Ids01, EspTypes
    PROVE  /\ SelectsProven(c) => SlotOf(c) \in Ids01
           /\ \A st \in {"new", "pending", "aborted"} :
                GoesBack(c, st) => SlotOf(c) \in Ids01 /\ SlotOf(1 - c) = 1 - SlotOf(c)
                                   /\ SlotOf(1 - c) \in Ids01
<1>1. SelectsProven(c) => SlotOf(c) \in Ids01
  BY SelectedBoot, Zenon
<1>2. ASSUME NEW st \in {"new", "pending", "aborted"}, GoesBack(c, st)
      PROVE  SlotOf(c) \in Ids01 /\ SlotOf(1 - c) = 1 - SlotOf(c) /\ SlotOf(1 - c) \in Ids01
  BY <1>2, OtherSlot, Zenon DEF GoesBack
<1> QED BY <1>1, <1>2, Zenon

\* Whatever is going on, otadata has one of its shapes.
LEMMA PhaseFacts ==
    ASSUME EspTypes, Phase
    PROVE  AnyShape /\ (Off \/ booted \in Ids01)
<1>1. CASE Off
  BY <1>1, Zenon DEF Off
<1>2. CASE Loading
  BY <1>2, RunningSlot, Zenon DEF Loading, AnyShape, RunsSelected, OnTrial, Ids01
<1>3. CASE Seeding
  BY <1>3, Zenon DEF Seeding, AnyShape, RunsSelected, Ids01
<1>4. CASE Steady
  BY <1>4, RunningSlot, Zenon DEF Steady, AnyShape, RunsSelected
<1>5. CASE Starting
  BY <1>4, <1>5, RunningSlot, Zenon DEF Starting, AnyShape, OnTrial
<1>6. CASE Serving
  BY <1>4, <1>6, Zenon DEF Serving
<1>7. CASE Confirming
  <2>1. PICK c \in Ids01 :
           \/ todo = <<"valid">> /\ writing = None /\ OnTrial(c) /\ slots[booted] \in proven
           \/ todo = <<"valid">> /\ SelectsProven(c) /\ booted = 1 - SlotOf(c)
              /\ slots[booted] \in proven /\ Begun(c, ota[c].seq + 1, "valid")
           \/ Idle /\ RunsSelected(c)
    BY <1>7, Zenon DEF Confirming
  <2> QED BY <2>1, RunningSlot DEF AnyShape, OnTrial, RunsSelected, Ids01
<1>8. CASE Receiving
  BY <1>8, RunningSlot, Zenon DEF Receiving, AnyShape, RunsSelected
<1>9. CASE Arming
  <2>1. PICK c \in Ids01 : RunsSelected(c) \/ (GoesBack(c, "new") /\ booted = SlotOf(1 - c))
    BY <1>9, Zenon DEF Arming
  <2> QED BY <2>1, RunningSlot, Zenon DEF AnyShape, RunsSelected
<1> QED BY <1>1, <1>2, <1>3, <1>5, <1>6, <1>7, <1>8, <1>9, Zenon DEF Phase

\* From every shape of otadata the bootloader starts a whole image, and one that is
\* not proven only as a trial.
LEMMA ShapeBoots ==
    ASSUME EspTypes, AnyShape
    PROVE  /\ slots[BootSlot] # "partial"
           /\ slots[BootSlot] \notin proven => Candidates # {} /\ Reviewed[BootEntry].state = "new"
<1>1. CASE Unselected
  BY <1>1, UnselectedBoot, Zenon DEF Unselected, EspTypes
<1>2. ASSUME NEW c \in Ids01, SelectsProven(c)
      PROVE  slots[BootSlot] \in proven /\ slots[BootSlot] # "partial"
  BY <1>2, SelectedBoot, Zenon DEF SelectsProven, EspTypes
<1>3. ASSUME NEW c \in Ids01, GoesBack(c, "new")
      PROVE  slots[BootSlot] # "partial" /\ Candidates # {} /\ Reviewed[BootEntry].state = "new"
  BY <1>3, NewBoot, Zenon DEF GoesBack
<1>4. ASSUME NEW c \in Ids01, NEW st \in {"pending", "aborted"}, GoesBack(c, st)
      PROVE  slots[BootSlot] \in proven /\ slots[BootSlot] # "partial"
  BY <1>4, TriedBoot, Zenon DEF GoesBack, EspTypes
<1> QED BY <1>1, <1>2, <1>3, <1>4, Zenon DEF AnyShape

\* The invariant is strong enough.
LEMMA InvSafe == EspInv => SafeWhileSelected
<1> SUFFICES ASSUME EspTypes, Phase PROVE SafeWhileSelected
  BY Zenon DEF EspInv, Excused, SafeWhileSelected, Phase
<1>1. WholeImage /\ TrialFirst
  BY PhaseFacts, ShapeBoots, Zenon DEF WholeImage, TrialFirst
<1>2. ProvenServes
  <2> SUFFICES ASSUME doing = "serving" PROVE slots[booted] \in proven
    BY Zenon DEF ProvenServes
  <2>1. Steady
    BY Zenon DEF Phase, Off, Loading, Seeding, Starting, Serving, Confirming, Receiving, Arming
  <2> QED BY <2>1, Zenon DEF Steady, RunsSelected, SelectsProven, GoesBack
<1> QED BY <1>1, <1>2, Zenon DEF SafeWhileSelected

\* Power may be lost whenever otadata has one of its shapes.
LEMMA ResetKeeps ==
    ASSUME AnyShape, Reset, UNCHANGED <<ota, slots, proven>>
    PROVE  Off'
BY Zenon DEF Reset, Off, Idle, AnyShape, Unselected, SelectsProven, GoesBack, SlotOf

\* What runs keeps its standing while otadata and the slots stay as they are.
LEMMA SteadyKeeps ==
    ASSUME UNCHANGED <<ota, slots, proven, booted>>
    PROVE  /\ Steady => Steady'
           /\ \A c \in Ids01 : (RunsSelected(c) => RunsSelected(c)') /\ (OnTrial(c) => OnTrial(c)')
BY Zenon DEF Steady, RunsSelected, OnTrial, SelectsProven, GoesBack, SlotOf

-------------------------------------------------------------------------------
\* Boot keeps the invariant: the image that boots is proven, or is on trial.
LEMMA BootKeeps == EspInv /\ Boot => EspInv'
<1> SUFFICES ASSUME EspTypes, Phase, Boot PROVE EspInv'
  BY DEF EspInv, Excused, Boot, Phase
<1>1. Off
  BY PhaseFacts, EspAssumption, Zenon DEF Boot, Ids01
<1>2. AnyShape
  BY <1>1, Zenon DEF Off
<1>3. UNCHANGED <<slots, proven, offered, todo, writing>> /\ doing' = "loading" /\ booted' = BootSlot
  BY Zenon DEF Boot
<1>4. Idle'
  BY <1>1, <1>3, Zenon DEF Off, Idle
<1> SUFFICES EspTypes' /\ Loading'
  BY Zenon DEF EspInv
<1>5. CASE Unselected
  <2>1. ota' = ota /\ booted' = 0
    BY <1>3, <1>5, UnselectedBoot, Zenon DEF Boot
  <2> QED BY <1>3, <1>4, <1>5, <2>1, Zenon DEF EspTypes, Loading, Unselected
<1>6. ASSUME NEW c \in Ids01, SelectsProven(c)
      PROVE  EspTypes' /\ Loading'
  <2>1. ota' = ota /\ booted' = SlotOf(c)
    BY <1>3, <1>6, SelectedBoot, Zenon DEF Boot, SelectsProven, Settled
  <2>2. RunsSelected(c)'
    BY <1>3, <1>6, <2>1, Zenon DEF RunsSelected, SelectsProven, SlotOf
  <2> QED BY <1>3, <1>4, <2>1, <2>2, Zenon DEF EspTypes, Loading
<1>7. ASSUME NEW c \in Ids01, GoesBack(c, "new")
      PROVE  EspTypes' /\ Loading'
  <2>1. ota' = [ota EXCEPT ![c].state = "pending"] /\ booted' = SlotOf(c)
    BY <1>3, <1>7, NewBoot, Zenon DEF Boot, GoesBack
  <2>2. ota[c] \in Entries
    BY Zenon DEF EspTypes
  <2>3. [ota[c] EXCEPT !.state = "pending"] = [seq |-> ota[c].seq, state |-> "pending"]
    BY <2>2
  <2>4. ota' = [ota EXCEPT ![c] = [seq |-> ota[c].seq, state |-> "pending"]]
    BY <2>1, <2>3, Zenon
  <2>5. EspTypes'
    <3> DEFINE val == [seq |-> ota[c].seq, state |-> "pending"]
    <3>1. val \in Entries
      <4> DEFINE n == ota[c].seq
      <4>1. n \in Nat
        BY <2>2, Zenon
      <4>2. "pending" \in OtaStates
        BY Zenon DEF OtaStates
      <4> HIDE DEF n
      <4>3. [seq |-> n, state |-> "pending"] \in Entries
        BY <4>1, <4>2, EntryTyped, Zenon
      <4> QED BY <4>3, Zenon DEF n
    <3>2. ota' = [ota EXCEPT ![c] = val]
      BY <2>4, Zenon
    <3> HIDE DEF val
    <3> QED BY <1>3, <3>1, <3>2, Zenon DEF EspTypes
  <2>6. ota'[c].seq = ota[c].seq /\ ota'[c].state = "pending" /\ ota'[1 - c] = ota[1 - c]
    BY <2>4 DEF EspTypes, Ids01
  <2>7. SlotOf(c)' = SlotOf(c) /\ SlotOf(1 - c)' = SlotOf(1 - c)
    BY <2>6, Zenon DEF SlotOf
  <2>8. GoesBack(c, "pending")'
    BY <1>3, <1>7, <2>6, <2>7, Zenon DEF GoesBack
  <2>9. OnTrial(c)'
    BY <2>1, <2>7, <2>8, Zenon DEF OnTrial
  <2> QED BY <1>3, <1>4, <2>5, <2>9, Zenon DEF Loading
<1>8. ASSUME NEW c \in Ids01, NEW st \in {"pending", "aborted"}, GoesBack(c, st)
      PROVE  EspTypes' /\ Loading'
  <2>1. Reviewed[1 - c].state \in Settled /\ BootEntry = 1 - c
    BY <1>8, TriedBoot, Zenon DEF GoesBack
  <2>2. ota' = Reviewed /\ booted' = SlotOf(1 - c)
    BY <1>3, <1>8, <2>1, TriedBoot, Zenon DEF Boot, Settled
  <2>3. /\ ota' \in [Ids01 -> Entries]
        /\ ota'[c].seq = ota[c].seq /\ ota'[c].state = "aborted" /\ ota'[1 - c] = ota[1 - c]
    BY <1>8, <2>2, TriedBoot, Zenon
  <2>4. GoesBack(c, "aborted")' /\ booted' = SlotOf(1 - c)'
    BY <1>3, <1>8, <2>2, <2>3, Zenon DEF GoesBack, SlotOf
  <2> QED BY <1>3, <1>4, <2>3, <2>4, Zenon DEF Loading, EspTypes
<1> QED BY <1>2, <1>5, <1>6, <1>7, <1>8, Zenon DEF AnyShape

\* prepare_firmware_ota keeps the invariant: it seeds otadata, or finds it in use.
LEMMA PrepareKeeps == EspInv /\ Prepare => EspInv'
<1>0. ASSUME Prepare, Excused PROVE EspInv'
  <2>1. astray' = astray /\ (failed' = failed \/ failed' = failed \cup {"prepare"})
    BY <1>0, Zenon DEF Prepare
  <2> QED BY <1>0, <2>1, Zenon DEF EspInv, Excused
<1> SUFFICES ASSUME EspTypes, Phase, Prepare PROVE EspInv'
  BY <1>0, Zenon DEF EspInv, Phase
<1>6. CASE failed' = failed \cup {"prepare"}
  BY <1>6, Zenon DEF EspInv, Excused
<1> SUFFICES ASSUME todo = <<>>, UNCHANGED writing,
                    \/ NoSelection /\ todo' = <<"seed", "valid">> /\ UNCHANGED doing
                    \/ /\ ~NoSelection /\ trial' = (ota[CurrentEntry].state \in {"new", "pending"})
                       /\ doing' = "starting" /\ UNCHANGED todo
             PROVE  EspInv'
  BY <1>6, Zenon DEF Prepare
<1>1. UNCHANGED <<ota, slots, booted, writing, offered, proven>> /\ doing = "loading" /\ todo = <<>>
  BY Zenon DEF Prepare
<1>2. EspTypes'
  BY <1>1, Zenon DEF EspTypes
<1>3. Loading
  BY <1>1 DEF Phase, Off, Loading, Seeding, Starting, Serving, Confirming, Receiving, Arming
<1>4. CASE NoSelection /\ todo' = <<"seed", "valid">> /\ UNCHANGED doing
  <2>1. Unselected /\ booted = 0
    BY <1>3, <1>4, SelectedBoot, TriedBoot, Zenon DEF Loading, RunsSelected, OnTrial
  <2>2. Seeding'
    BY <1>1, <1>3, <1>4, <2>1, Zenon DEF Seeding, Unselected, Loading, Idle
  <2> QED BY <1>2, <2>2, Zenon DEF EspInv
<1>5. CASE ~NoSelection /\ trial' = (ota[CurrentEntry].state \in {"new", "pending"})
           /\ doing' = "starting" /\ UNCHANGED todo
  <2>1. Idle'
    BY <1>1, <1>3, <1>5, Zenon DEF Idle, Loading
  <2>2. PICK c \in Ids01 : \/ RunsSelected(c) \/ OnTrial(c)
                           \/ GoesBack(c, "aborted") /\ booted = SlotOf(1 - c)
    BY <1>3, <1>5, UnselectedBoot, Zenon DEF Loading
  <2>3. CASE RunsSelected(c)
    <3>1. ~trial'
      BY <1>5, <2>3, SelectedBoot, Zenon DEF RunsSelected, SelectsProven, Settled
    <3> QED BY <1>1, <1>2, <1>5, <2>1, <2>3, <3>1, SteadyKeeps, Zenon DEF EspInv, Starting, Steady
  <2>4. CASE OnTrial(c)
    <3>1. trial'
      BY <1>5, <2>4, TriedBoot, Zenon DEF OnTrial, GoesBack
    <3> QED BY <1>1, <1>2, <1>5, <2>1, <2>4, <3>1, SteadyKeeps, Zenon DEF EspInv, Starting
  <2>5. CASE GoesBack(c, "aborted") /\ booted = SlotOf(1 - c)
    <3>1. ~trial'
      BY <1>5, <2>5, TriedBoot, Zenon DEF GoesBack
    <3> QED BY <1>1, <1>2, <1>5, <2>1, <2>5, <3>1, SteadyKeeps, Zenon DEF EspInv, Starting, Steady
  <2> QED BY <2>2, <2>3, <2>4, <2>5, Zenon
<1> QED BY <1>4, <1>5, Zenon

-------------------------------------------------------------------------------
\* What erasing an entry, and programming it, leave behind.
LEMMA EntryPut ==
    ASSUME NEW d \in Ids01, NEW val \in Entries, EspTypes, ota' = [ota EXCEPT ![d] = val]
    PROVE  /\ ota' \in [Ids01 -> Entries] /\ ota'[d] = val /\ ota'[1 - d] = ota[1 - d]
           /\ SlotOf(1 - d)' = SlotOf(1 - d)
<1>1. ota \in [Ids01 -> Entries] /\ 1 - d \in Ids01 /\ 1 - d # d
  BY DEF EspTypes, Ids01
<1>2. ota' \in [Ids01 -> Entries] /\ ota'[d] = val /\ ota'[1 - d] = ota[1 - d]
  BY <1>1, Zenon
<1> QED BY <1>2, Zenon DEF SlotOf

\* An erased entry is an entry.
LEMMA ErasedTyped == Erased \in Entries
  BY Zenon DEF Erased, OtaStates

\* The second half of a write puts the value into the entry that was erased.
LEMMA EndPuts ==
    ASSUME NEW c \in Ids01, NEW n \in Nat, NEW st \in OtaStates, EspTypes,
           Begun(c, n, st), EndWrite
    PROVE  /\ ota' \in [Ids01 -> Entries] /\ ota'[1 - c] = [seq |-> n, state |-> st]
           /\ ota'[c] = ota[c] /\ SlotOf(c)' = SlotOf(c) /\ SlotOf(1 - c)' = (n - 1) % 2
           /\ EspTypes'
<1> DEFINE val == [seq |-> n, state |-> st]
<1>1. val \in Entries /\ val.seq = n
  BY EntryTyped, Zenon
<1>2. writing.e = 1 - c /\ writing.val = val
  BY Zenon DEF Begun
<1> HIDE DEF val
<1>3. ota' = [ota EXCEPT ![1 - c] = val] /\ UNCHANGED <<slots, offered, proven>>
  BY <1>2, Zenon DEF EndWrite
<1>4. 1 - c \in Ids01 /\ 1 - (1 - c) = c
  BY DEF Ids01
<1>5. /\ ota' \in [Ids01 -> Entries] /\ ota'[1 - c] = val /\ ota'[c] = ota[c]
      /\ SlotOf(c)' = SlotOf(c)
  BY <1>1, <1>3, <1>4, EntryPut, Zenon
<1>6. SlotOf(1 - c)' = (n - 1) % 2
  BY <1>1, <1>5, Zenon DEF SlotOf
<1>7. EspTypes'
  BY <1>3, <1>5, Zenon DEF EspTypes
<1> QED BY <1>5, <1>6, <1>7, Zenon DEF val

\* A write begun while entry c selects erases the other entry only.
LEMMA BeginErasesOther ==
    ASSUME NEW c \in Ids01, NEW n \in Nat, NEW st \in OtaStates, EspTypes, BeginWrite,
           WriteOf(Head(todo)) = [e |-> 1 - c, val |-> [seq |-> n, state |-> st]]
    PROVE  /\ Begun(c, n, st)' /\ ota'[1 - c] = Erased /\ ota'[c] = ota[c]
           /\ SlotOf(c)' = SlotOf(c) /\ EspTypes'
<1> DEFINE w == WriteOf(Head(todo))
<1>1. w.e = 1 - c /\ w = [e |-> 1 - c, val |-> [seq |-> n, state |-> st]]
  OBVIOUS
<1>2. /\ writing' = w /\ ota' = [ota EXCEPT ![w.e] = Erased]
      /\ UNCHANGED <<slots, offered, proven>>
  BY Zenon DEF BeginWrite
<1> HIDE DEF w
<1>3. 1 - c \in Ids01 /\ 1 - (1 - c) = c
  BY DEF Ids01
<1>4. /\ ota' \in [Ids01 -> Entries] /\ ota'[1 - c] = Erased /\ ota'[c] = ota[c]
      /\ SlotOf(c)' = SlotOf(c)
  BY <1>1, <1>2, <1>3, EntryPut, ErasedTyped, Zenon
<1>5. EspTypes'
  BY <1>2, <1>4, Zenon DEF EspTypes
<1> QED BY <1>1, <1>2, <1>4, <1>5 DEF Begun, Erased

\* The parts of an entry.
LEMMA EntryParts ==
    ASSUME NEW d \in Ids01, EspTypes
    PROVE  ota[d].seq \in Nat /\ ota[d].state \in OtaStates
<1>1. ota[d] \in Entries
  BY Zenon DEF EspTypes
<1> QED BY <1>1, Zenon

\* Changing one part of an entry.
LEMMA ValueOf ==
    ASSUME NEW d \in Ids01, EspTypes
    PROVE  /\ \A st \in OtaStates : [ota[d] EXCEPT !.state = st] = [seq |-> ota[d].seq, state |-> st]
           /\ \A n \in Nat : [ota[d] EXCEPT !.seq = n] = [seq |-> n, state |-> ota[d].state]
<1>1. ota[d] \in Entries
  BY Zenon DEF EspTypes
<1> QED BY <1>1

-------------------------------------------------------------------------------
\* Erasing the other entry leaves what entry c selects; erasing the entry of an
\* image that can go back leaves the one it goes back to.
LEMMA OtherErased ==
    ASSUME NEW c \in Ids01, EspTypes, UNCHANGED <<slots, proven>>,
           ota'[c] = ota[c], ota'[1 - c] = Erased, SlotOf(c)' = SlotOf(c)
    PROVE  /\ SelectsProven(c) => SelectsProven(c)'
           /\ \A st \in OtaStates : GoesBack(1 - c, st) => SelectsProven(c)'
<1>1. 1 - (1 - c) = c
  BY DEF Ids01
<1> QED BY <1>1 DEF SelectsProven, GoesBack, Erased, Settled

\* Erasing an entry while otadata is being seeded.
LEMMA SeedingBegins ==
    ASSUME EspTypes, Seeding, BeginWrite
    PROVE  EspTypes' /\ Seeding'
<1>1. writing = None /\ UNCHANGED <<slots, booted, doing, todo, proven>>
  BY Zenon DEF BeginWrite
<1>2. ~Begun(0, 1, "undefined") /\ ~Begun(0, 1, "valid")
  <2>1. ASSUME NEW st \in OtaStates PROVE ~Begun(0, 1, st)
    <3> DEFINE val == [seq |-> 1, state |-> st]
    <3>1. val \in Entries
      BY EntryTyped, Zenon
    <3> HIDE DEF val
    <3>2. [e |-> 1, val |-> val] # None
      BY <3>1, EspAssumption
    <3> QED BY <1>1, <3>2 DEF Begun, val
  <2> QED BY <2>1, Zenon DEF OtaStates
<1>3. CASE todo = <<"seed", "valid">> /\ Unselected
  <2>1. WriteOf(Head(todo)) = SetCurrent(booted) /\ CurrentEntry = 0 /\ NoSelection
    BY <1>3, UnselectedBoot DEF WriteOf
  <2>2. SetCurrent(booted) = [e |-> 1, val |-> [seq |-> 1, state |-> "undefined"]]
    <3>1. booted = 0 /\ ota[1] = [seq |-> 0, state |-> "undefined"]
      BY <1>3, Zenon DEF Seeding, Unselected, Erased
    <3>2. ota[0].seq = 0 /\ 0 % 2 = 0
      BY <1>3 DEF Unselected, Erased
    <3> QED BY <2>1, <3>1, <3>2 DEF SetCurrent
  <2>3. /\ Begun(0, 1, "undefined")' /\ ota'[1] = Erased /\ ota'[0] = ota[0] /\ EspTypes'
    <3>1. 0 \in Ids01 /\ 1 \in Nat /\ "undefined" \in OtaStates /\ 1 - 0 = 1
      BY DEF Ids01, OtaStates
    <3>2. WriteOf(Head(todo)) = [e |-> 1 - 0, val |-> [seq |-> 1, state |-> "undefined"]]
      BY <2>1, <2>2
    <3> QED BY <3>1, <3>2, BeginErasesOther, Zenon
  <2>4. Unselected'
    BY <1>1, <1>3, <2>3, Zenon DEF Unselected
  <2> QED BY <1>1, <1>3, <2>3, <2>4, Zenon DEF Seeding
<1>4. CASE todo = <<"valid">> /\ RunsSelected(1) /\ ota[0] = Erased /\ ota[1].seq = 1
  <2>0. 0 \in Ids01 /\ 1 \in Ids01 /\ 1 \in Nat /\ "valid" \in OtaStates /\ 1 - 0 = 1
    BY DEF Ids01, OtaStates
  <2>1. WriteOf(Head(todo)) = SetState("valid") /\ CurrentEntry = 1
    BY <1>4, <2>0, SelectedBoot DEF WriteOf, RunsSelected
  <2>2. SetState("valid") = [e |-> 1, val |-> [seq |-> 1, state |-> "valid"]]
    BY <1>4, <2>0, <2>1, ValueOf DEF SetState
  <2>3. /\ Begun(0, 1, "valid")' /\ ota'[1] = Erased /\ ota'[0] = ota[0] /\ EspTypes'
    <3>2. WriteOf(Head(todo)) = [e |-> 1 - 0, val |-> [seq |-> 1, state |-> "valid"]]
      BY <2>1, <2>2
    <3> QED BY <2>0, <3>2, BeginErasesOther, Zenon
  <2>4. slots[0] \in proven
    BY <1>4, Zenon DEF RunsSelected, SelectsProven, Seeding
  <2>5. Unselected'
    BY <1>1, <1>4, <2>3, <2>4, Zenon DEF Unselected
  <2>6. booted = 0 /\ doing = "loading"
    BY Zenon DEF Seeding
  <2> QED BY <1>1, <1>4, <2>3, <2>5, <2>6, Zenon DEF Seeding
<1> QED BY <1>1, <1>2, <1>3, <1>4, Zenon DEF Seeding

\* Nothing has begun when nothing is being written.
LEMMA NotBegun ==
    ASSUME NEW c \in Ids01, NEW n \in Nat, NEW st \in OtaStates, writing = None
    PROVE  ~Begun(c, n, st)
<1> DEFINE val == [seq |-> n, state |-> st]
<1>1. val \in Entries /\ 1 - c \in {0, 1}
  BY EntryTyped DEF Ids01
<1> HIDE DEF val
<1>2. [e |-> 1 - c, val |-> val] # None
  BY <1>1, EspAssumption
<1> QED BY <1>2, Zenon DEF Begun, val

\* Erasing an entry while a trial is being confirmed: the entry of the image that
\* runs is the one that is kept.
LEMMA ConfirmingBegins ==
    ASSUME EspTypes, Confirming, BeginWrite
    PROVE  EspTypes' /\ Confirming'
<1>1. writing = None /\ todo # <<>> /\ UNCHANGED <<slots, booted, doing, todo, proven>>
  BY Zenon DEF BeginWrite
<1>2. PICK d \in Ids01 : todo = <<"valid">> /\ OnTrial(d) /\ slots[booted] \in proven
  <2>1. ASSUME NEW c \in Ids01 PROVE ~Begun(c, ota[c].seq + 1, "valid")
    <3>1. ota[c].seq + 1 \in Nat /\ "valid" \in OtaStates
      BY EntryParts DEF OtaStates
    <3> QED BY <1>1, <3>1, NotBegun, Zenon
  <2> QED BY <1>1, <2>1, Zenon DEF Confirming, Idle
<1> DEFINE c == 1 - d
<1>3. c \in Ids01 /\ d = 1 - c /\ 1 - d = c /\ "valid" \in OtaStates /\ "pending" \in OtaStates
  BY DEF Ids01, OtaStates
<1>4. /\ GoesBack(1 - c, "pending") /\ booted = SlotOf(1 - c)
      /\ ota[1 - c].seq = ota[c].seq + 1 /\ CurrentEntry = d
      /\ SlotOf(c) = 1 - SlotOf(d) /\ SlotOf(d) \in Ids01
  BY <1>2, <1>3, TriedBoot, Zenon DEF OnTrial, GoesBack
<1>5. PICK n \in Nat : n = ota[c].seq + 1
  BY <1>3, EntryParts
<1>6. WriteOf(Head(todo)) = [e |-> 1 - c, val |-> [seq |-> n, state |-> "valid"]]
  <2>1. WriteOf(Head(todo)) = SetState("valid")
    BY <1>2 DEF WriteOf
  <2>2. SetState("valid") = [e |-> d, val |-> [ota[d] EXCEPT !.state = "valid"]]
    BY <1>4, Zenon DEF SetState
  <2>3. [ota[d] EXCEPT !.state = "valid"] = [seq |-> ota[d].seq, state |-> "valid"]
    BY <1>3, ValueOf, Zenon
  <2>4. ota[d].seq = n
    BY <1>3, <1>4, <1>5, Zenon
  <2> HIDE DEF c
  <2> QED BY <1>3, <2>1, <2>2, <2>3, <2>4, Zenon
<1> HIDE DEF c
<1>7. /\ Begun(c, n, "valid")' /\ ota'[1 - c] = Erased /\ ota'[c] = ota[c]
      /\ SlotOf(c)' = SlotOf(c) /\ EspTypes'
  BY <1>3, <1>6, BeginErasesOther, Zenon
<1>8. SelectsProven(c)'
  BY <1>1, <1>3, <1>4, <1>7, OtherErased, Zenon
<1>9. booted' = 1 - SlotOf(c)'
  BY <1>1, <1>3, <1>4, <1>7, Zenon DEF Ids01
<1>10. Begun(c, ota[c].seq + 1, "valid")'
  BY <1>5, <1>7, Zenon DEF Begun
<1> QED BY <1>1, <1>2, <1>3, <1>7, <1>8, <1>9, <1>10, Zenon DEF Confirming

\* The operations that arm the new slot, written while entry c selects what runs.
LEMMA ArmingBeginsOther ==
    ASSUME NEW c \in Ids01, NEW n \in Nat, EspTypes, RunsSelected(c), BeginWrite,
           WriteOf(Head(todo)) = [e |-> 1 - c, val |-> [seq |-> n, state |-> "new"]]
    PROVE  EspTypes' /\ RunsSelected(c)' /\ Begun(c, n, "new")' /\ ota'[c] = ota[c]
<1>1. UNCHANGED <<slots, booted, doing, todo, proven>>
  BY Zenon DEF BeginWrite
<1>2. /\ Begun(c, n, "new")' /\ ota'[1 - c] = Erased /\ ota'[c] = ota[c]
      /\ SlotOf(c)' = SlotOf(c) /\ EspTypes'
  BY BeginErasesOther, Zenon DEF OtaStates
<1> QED BY <1>1, <1>2, OtherErased, Zenon DEF RunsSelected

\* The parity of the next sequence number names the other slot.
LEMMA NextSlot ==
    ASSUME NEW c \in Ids01, EspTypes, ota[c].seq # 0
    PROVE  /\ SlotOf(c) \in Ids01 /\ ((ota[c].seq + 1) - 1) % 2 = 1 - SlotOf(c)
           /\ ota[c].seq + 1 \in Nat
<1>1. PICK n \in Nat \ {0} : n = ota[c].seq
  BY EntryParts, Zenon
<1>2. (n - 1) % 2 \in {0, 1} /\ ((n + 1) - 1) % 2 = 1 - ((n - 1) % 2)
  BY SlotParity, Zenon
<1>3. SlotOf(c) = (n - 1) % 2
  BY <1>1, Zenon DEF SlotOf
<1> QED BY <1>1, <1>2, <1>3 DEF Ids01

\* Erasing an entry while an update is being armed.
LEMMA ArmingBegins ==
    ASSUME EspTypes, Arming, BeginWrite
    PROVE  EspTypes' /\ Arming'
<1>1. writing = None /\ todo # <<>> /\ UNCHANGED <<slots, booted, doing, todo, proven>>
  BY Zenon DEF BeginWrite
<1>2. doing' = "arming" /\ slots'[1 - booted'] # "partial"
  BY <1>1, Zenon DEF Arming
<1>3. "new" \in OtaStates /\ \A c \in Ids01 : ota[c].seq + 1 \in Nat /\ ota[1 - c].seq \in Nat
                                        /\ 1 - c \in Ids01 /\ 1 - (1 - c) = c
  BY EntryParts DEF OtaStates, Ids01
<1>4. ASSUME NEW c \in Ids01, NEW n \in Nat PROVE ~Begun(c, n, "new")
  BY <1>1, <1>3, NotBegun, Zenon
<1>5. PICK c \in Ids01 :
         \/ todo = <<"prime", "activate", "new">> /\ RunsSelected(c)
         \/ todo = <<"activate", "new">> /\ RunsSelected(c) /\ ota[1 - c].state = "new"
         \/ todo = <<"new">> /\ GoesBack(c, "new") /\ booted = SlotOf(1 - c)
  BY <1>1, <1>3, <1>4, Zenon DEF Arming
<1>6. CASE todo = <<"prime", "activate", "new">> /\ RunsSelected(c)
  <2>0. PICK n \in Nat : n = ota[1 - c].seq
    BY <1>3, Zenon
  <2>1. CurrentEntry = c /\ WriteOf(Head(todo)) = Prime
    BY <1>6, SelectedBoot DEF RunsSelected, WriteOf
  <2>2. [ota[1 - c] EXCEPT !.state = "new"] = [seq |-> n, state |-> "new"]
    BY <1>3, <2>0, ValueOf, Zenon
  <2>3. n = 0 \/ n + 1 = ota[c].seq
    BY <1>6, <2>0, Zenon DEF RunsSelected, SelectsProven
  <2>4. WriteOf(Head(todo)) = [e |-> 1 - c, val |-> [seq |-> n, state |-> "new"]]
    BY <2>1, <2>2, Zenon DEF Prime
  <2>5. EspTypes' /\ RunsSelected(c)' /\ Begun(c, n, "new")' /\ ota'[c] = ota[c]
    BY <1>6, <2>4, ArmingBeginsOther, Zenon
  <2>6. \E k \in Nat : (k = 0 \/ k + 1 = ota'[c].seq) /\ Begun(c, k, "new")'
    BY <2>3, <2>5, Zenon
  <2> QED BY <1>1, <1>2, <1>6, <2>5, <2>6, Zenon DEF Arming
<1>7. CASE todo = <<"activate", "new">> /\ RunsSelected(c) /\ ota[1 - c].state = "new"
  <2>0. PICK n \in Nat : n = ota[c].seq + 1
    BY <1>3, Zenon
  <2>1. CurrentEntry = c /\ ~NoSelection /\ WriteOf(Head(todo)) = SetCurrent(1 - booted)
    BY <1>7, SelectedBoot DEF RunsSelected, WriteOf
  <2>3. [ota[1 - c] EXCEPT !.seq = n] = [seq |-> n, state |-> "new"]
    BY <1>3, <1>7, ValueOf, Zenon
  <2>4. WriteOf(Head(todo)) = [e |-> 1 - c, val |-> [seq |-> n, state |-> "new"]]
    <3>1. ((ota[c].seq + 1) - 1) % 2 = 1 - booted /\ ota[c].seq \in Nat
      BY <1>7, NextSlot, EntryParts, Zenon DEF RunsSelected, SelectsProven
    <3>2. ota[c].seq % 2 = 1 - booted
      BY <3>1
    <3> QED BY <2>0, <2>1, <2>3, <3>2, Zenon DEF SetCurrent
  <2>5. EspTypes' /\ RunsSelected(c)' /\ Begun(c, n, "new")' /\ ota'[c] = ota[c]
    BY <1>7, <2>4, ArmingBeginsOther, Zenon
  <2>6. Begun(c, ota[c].seq + 1, "new")'
    BY <2>0, <2>5, Zenon DEF Begun
  <2> QED BY <1>1, <1>2, <1>7, <2>5, <2>6, Zenon DEF Arming
<1>8. CASE todo = <<"new">> /\ GoesBack(c, "new") /\ booted = SlotOf(1 - c)
  <2> DEFINE d == 1 - c
  <2>0. PICK n \in Nat : n = ota[d].seq + 1
    BY <1>3, Zenon
  <2>1. d \in Ids01 /\ 1 - d = c /\ CurrentEntry = c /\ ota[c].seq = n
    BY <1>3, <1>8, <2>0, NewBoot, Zenon DEF GoesBack
  <2>2. [ota[c] EXCEPT !.state = "new"] = [seq |-> ota[c].seq, state |-> "new"]
    BY <1>3, ValueOf, Zenon
  <2>3. WriteOf(Head(todo)) = [e |-> c, val |-> [ota[c] EXCEPT !.state = "new"]]
    BY <1>8, <2>1 DEF WriteOf, SetState
  <2>4. WriteOf(Head(todo)) = [e |-> 1 - d, val |-> [seq |-> n, state |-> "new"]]
    <3> HIDE DEF d
    <3> QED BY <2>1, <2>2, <2>3, Zenon
  <2>5. /\ Begun(d, n, "new")' /\ ota'[1 - d] = Erased /\ ota'[d] = ota[d]
        /\ SlotOf(d)' = SlotOf(d) /\ EspTypes'
    <3> HIDE DEF d
    <3> QED BY <1>3, <2>1, <2>4, BeginErasesOther, Zenon
  <2>6. GoesBack(1 - d, "new") /\ booted = SlotOf(d)
    BY <1>8, <2>1, Zenon
  <2> HIDE DEF d
  <2>7. SelectsProven(d)'
    BY <1>1, <1>3, <2>1, <2>5, <2>6, OtherErased, Zenon
  <2>8. RunsSelected(d)'
    BY <1>1, <2>5, <2>6, <2>7, Zenon DEF RunsSelected
  <2>9. Begun(d, ota[d].seq + 1, "new")'
    BY <2>0, <2>5, Zenon DEF Begun
  <2> QED BY <1>1, <1>2, <1>8, <2>1, <2>5, <2>8, <2>9, Zenon DEF Arming
<1> QED BY <1>5, <1>6, <1>7, <1>8, Zenon

-------------------------------------------------------------------------------
\* Writing an entry while otadata is being seeded.
LEMMA SeedingEnds ==
    ASSUME EspTypes, Seeding, EndWrite
    PROVE  EspTypes' /\ (Seeding' \/ Loading')
<1>1. writing # None /\ writing' = None /\ todo' = Tail(todo)
      /\ UNCHANGED <<slots, booted, doing, proven>> /\ booted = 0 /\ doing = "loading"
  BY Zenon DEF EndWrite, Seeding
<1>2. 0 \in Ids01 /\ 1 \in Ids01 /\ 1 \in Nat /\ 1 - 0 = 1 /\ 1 - 1 = 0 /\ (1 - 1) % 2 = 0
      /\ "valid" \in OtaStates /\ "undefined" \in OtaStates
  BY DEF Ids01, OtaStates
<1>3. ASSUME NEW st \in Settled, st \in OtaStates, Unselected, Begun(0, 1, st)
      PROVE  EspTypes' /\ RunsSelected(1)' /\ ota'[0] = Erased /\ ota'[1].seq = 1
  <2>1. /\ ota'[1] = [seq |-> 1, state |-> st] /\ ota'[0] = ota[0]
        /\ SlotOf(1)' = 0 /\ EspTypes'
    BY <1>2, <1>3, EndPuts
  <2>2. ota'[0] = Erased /\ slots[0] \in proven
    BY <1>3, <2>1, Zenon DEF Unselected
  <2>3. SelectsProven(1)'
    BY <1>1, <1>2, <1>3, <2>1, <2>2 DEF SelectsProven, Settled, Erased
  <2> QED BY <1>1, <2>1, <2>2, <2>3 DEF RunsSelected
<1>4. CASE todo = <<"seed", "valid">> /\ Unselected /\ Begun(0, 1, "undefined")
  <2>1. EspTypes' /\ RunsSelected(1)' /\ ota'[0] = Erased /\ ota'[1].seq = 1
    BY <1>2, <1>3, <1>4, Zenon DEF Settled
  <2>2. todo' = <<"valid">>
    BY <1>1, <1>4
  <2> QED BY <1>1, <2>1, <2>2, Zenon DEF Seeding
<1>5. CASE todo = <<"valid">> /\ Unselected /\ Begun(0, 1, "valid")
  <2>1. EspTypes' /\ RunsSelected(1)'
    BY <1>2, <1>3, <1>5, Zenon DEF Settled
  <2>2. todo' = <<>>
    BY <1>1, <1>5
  <2> QED BY <1>1, <1>2, <2>1, <2>2, Zenon DEF Loading, Idle
<1> QED BY <1>1, <1>4, <1>5, Zenon DEF Seeding

\* Writing an entry while a trial is being confirmed.
LEMMA ConfirmingEnds ==
    ASSUME EspTypes, Confirming, EndWrite
    PROVE  EspTypes' /\ Confirming'
<1>1. writing # None /\ writing' = None /\ todo' = Tail(todo)
      /\ UNCHANGED <<slots, booted, doing, proven>> /\ doing = "confirming"
  BY Zenon DEF EndWrite, Confirming
<1>2. PICK c \in Ids01 : /\ todo = <<"valid">> /\ SelectsProven(c) /\ booted = 1 - SlotOf(c)
                         /\ slots[booted] \in proven /\ Begun(c, ota[c].seq + 1, "valid")
  BY <1>1, Zenon DEF Confirming, Idle
<1>3. PICK n \in Nat : n = ota[c].seq + 1
  BY EntryParts
<1>4. (n - 1) % 2 = 1 - SlotOf(c) /\ 1 - c \in Ids01 /\ 1 - (1 - c) = c
  BY <1>2, <1>3, NextSlot DEF SelectsProven, Ids01
<1>5. Begun(c, n, "valid") /\ "valid" \in OtaStates
  BY <1>2, <1>3, Zenon DEF OtaStates
<1>6. /\ ota'[1 - c] = [seq |-> n, state |-> "valid"] /\ ota'[c] = ota[c]
      /\ SlotOf(1 - c)' = (n - 1) % 2 /\ EspTypes'
  BY <1>5, EndPuts, Zenon
<1>7. n # 0 /\ ota[c].state \in Settled /\ n = ota[c].seq + 1
  BY <1>2, <1>3, EntryParts DEF SelectsProven
<1>8. slots'[SlotOf(1 - c)'] \in proven' /\ booted' = SlotOf(1 - c)'
  BY <1>1, <1>2, <1>4, <1>6, Zenon
<1>9. SelectsProven(1 - c)'
  BY <1>4, <1>6, <1>7, <1>8 DEF SelectsProven, Settled
<1>10. RunsSelected(1 - c)' /\ todo' = <<>>
  BY <1>1, <1>2, <1>8, <1>9 DEF RunsSelected
<1> QED BY <1>1, <1>4, <1>6, <1>10, Zenon DEF Confirming, Idle

\* The new slot is selected: what runs stays the one to go back to.
LEMMA Activated ==
    ASSUME NEW c \in Ids01, EspTypes, slots[1 - booted] # "partial", RunsSelected(c),
           Begun(c, ota[c].seq + 1, "new"), EndWrite
    PROVE  EspTypes' /\ GoesBack(1 - c, "new")' /\ booted' = SlotOf(c)'
<1>1. UNCHANGED <<slots, booted, proven>>
  BY Zenon DEF EndWrite
<1>2. PICK n \in Nat : n = ota[c].seq + 1
  BY EntryParts
<1>3. (n - 1) % 2 = 1 - SlotOf(c) /\ 1 - c \in Ids01 /\ 1 - (1 - c) = c
  BY <1>2, NextSlot DEF RunsSelected, SelectsProven, Ids01
<1>4. /\ ota'[1 - c] = [seq |-> n, state |-> "new"] /\ ota'[c] = ota[c]
      /\ SlotOf(c)' = SlotOf(c) /\ SlotOf(1 - c)' = (n - 1) % 2 /\ EspTypes'
  BY <1>2, EndPuts, Zenon DEF OtaStates
<1>5. slots'[SlotOf(1 - c)'] # "partial" /\ slots'[SlotOf(c)'] \in proven' /\ booted' = SlotOf(c)'
  BY <1>1, <1>3, <1>4, Zenon DEF RunsSelected, SelectsProven
<1>6. ota[c].seq # 0 /\ ota[c].state \in Settled
  BY Zenon DEF RunsSelected, SelectsProven
<1>7. GoesBack(1 - c, "new")'
  BY <1>2, <1>3, <1>4, <1>5, <1>6 DEF GoesBack
<1> QED BY <1>4, <1>5, <1>7, Zenon

\* Writing an entry while an update is being armed.
LEMMA ArmingEnds ==
    ASSUME EspTypes, Arming, EndWrite
    PROVE  EspTypes' /\ Arming'
<1>1. writing # None /\ writing' = None /\ todo' = Tail(todo) /\ UNCHANGED <<slots, booted, doing, proven>>
      /\ doing = "arming" /\ slots[1 - booted] # "partial"
  BY Zenon DEF EndWrite, Arming
<1>2. PICK c \in Ids01 :
         \/ /\ todo = <<"prime", "activate", "new">> /\ RunsSelected(c)
            /\ \E n \in Nat : (n = 0 \/ n + 1 = ota[c].seq) /\ Begun(c, n, "new")
         \/ /\ todo = <<"activate", "new">> \/ todo = <<"new">>
            /\ RunsSelected(c) /\ Begun(c, ota[c].seq + 1, "new")
  BY <1>1, Zenon DEF Arming
<1>3. CASE /\ todo = <<"prime", "activate", "new">> /\ RunsSelected(c)
           /\ \E n \in Nat : (n = 0 \/ n + 1 = ota[c].seq) /\ Begun(c, n, "new")
  <2>1. PICK n \in Nat : (n = 0 \/ n + 1 = ota[c].seq) /\ Begun(c, n, "new")
    BY <1>3, Zenon
  <2>2. /\ ota'[1 - c] = [seq |-> n, state |-> "new"] /\ ota'[c] = ota[c]
        /\ SlotOf(c)' = SlotOf(c) /\ EspTypes'
    BY <2>1, EndPuts, Zenon DEF OtaStates
  <2>3. SelectsProven(c)'
    <3>1. /\ ota'[c].seq # 0 /\ ota'[c].state \in Settled /\ slots'[SlotOf(c)'] \in proven'
      BY <1>1, <1>3, <2>2, Zenon DEF RunsSelected, SelectsProven
    <3>2. ota'[1 - c].state = "new" /\ ota'[1 - c].seq = n /\ ota'[c].seq = ota[c].seq
      BY <2>2
    <3>3. ota'[1 - c].seq # 0 => ota'[c].seq = ota'[1 - c].seq + 1
      BY <2>1, <3>2, Zenon
    <3>4. ota'[1 - c].state \in Settled \cup {"new"}
      BY <3>2, Zenon
    <3> QED BY <3>1, <3>3, <3>4, Zenon DEF SelectsProven
  <2>4. RunsSelected(c)' /\ ota'[1 - c].state = "new"
    BY <1>1, <1>3, <2>2, <2>3 DEF RunsSelected
  <2>5. todo' = <<"activate", "new">>
    BY <1>1, <1>3
  <2> QED BY <1>1, <2>2, <2>4, <2>5, Zenon DEF Arming
<1>4. CASE /\ todo = <<"activate", "new">> \/ todo = <<"new">>
           /\ RunsSelected(c) /\ Begun(c, ota[c].seq + 1, "new")
  <2>1. EspTypes' /\ GoesBack(1 - c, "new")' /\ booted' = SlotOf(c)'
    BY <1>1, <1>4, Activated, Zenon
  <2>2. todo' = <<"new">> \/ todo' = <<>>
    <3>1. CASE todo = <<"activate", "new">>
      BY <1>1, <3>1
    <3>2. CASE todo = <<"new">>
      BY <1>1, <3>2
    <3> QED BY <1>4, <3>1, <3>2, Zenon
  <2>3. 1 - c \in Ids01 /\ 1 - (1 - c) = c
    BY DEF Ids01
  <2> QED BY <1>1, <2>1, <2>2, <2>3, Zenon DEF Arming
<1> QED BY <1>2, <1>3, <1>4, Zenon

\* Either half of a write keeps the invariant.
LEMMA WritesKeep == EspInv /\ (BeginWrite \/ EndWrite) => EspInv'
<1> SUFFICES ASSUME EspTypes, Phase, BeginWrite \/ EndWrite PROVE EspInv'
  BY Zenon DEF EspInv, Excused, BeginWrite, EndWrite, Phase
<1>1. ~Idle
  BY Zenon DEF BeginWrite, EndWrite, Idle
<1>2. Seeding \/ Confirming \/ Arming
  BY <1>1, Zenon DEF Phase, Off, Loading, Starting, Serving, Receiving
<1> QED BY <1>2, SeedingBegins, SeedingEnds, ConfirmingBegins, ConfirmingEnds, ArmingBegins,
           ArmingEnds, Zenon DEF EspInv

-------------------------------------------------------------------------------
\* A reset, wherever it happens, leaves otadata something to boot from.
LEMMA ResetsKeep ==
    ASSUME EspTypes, Phase, Reset, UNCHANGED <<ota, slots, offered, proven>>
    PROVE  EspInv'
<1>1. EspTypes'
  BY Zenon DEF EspTypes
<1>2. Off'
  BY PhaseFacts, ResetKeeps, Zenon
<1> QED BY <1>1, <1>2, Zenon DEF EspInv

\* The application starts: it confirms a trial, or serves.
LEMMA StartKeeps == EspInv /\ Start => EspInv'
<1> SUFFICES ASSUME EspTypes, Phase, Start PROVE EspInv'
  BY DEF EspInv, Excused, Start, Phase
<1>1. doing = "starting" /\ UNCHANGED <<ota, slots, offered>>
  BY Zenon DEF Start
<1>2. Starting
  BY <1>1, Zenon DEF Phase, Off, Loading, Seeding, Serving, Confirming, Receiving, Arming
<1>3. CASE ~trial
  <2>1. doing' = "serving" /\ UNCHANGED <<booted, todo, writing, proven>>
    BY <1>3, Zenon DEF Start
  <2>2. Steady'
    BY <1>1, <1>2, <1>3, <2>1, SteadyKeeps, Zenon DEF Starting
  <2>3. Serving'
    BY <1>2, <2>1, <2>2, Zenon DEF Serving, Starting, Idle
  <2>4. EspTypes'
    BY <1>1, <2>1, Zenon DEF EspTypes
  <2> QED BY <2>3, <2>4, Zenon DEF EspInv
<1>4. CASE trial /\ Reset /\ UNCHANGED proven
  BY <1>1, <1>4, ResetsKeep, Zenon
<1>5. CASE trial /\ doing' = "confirming" /\ todo' = <<"valid">>
           /\ proven' = proven \cup {slots[booted]} /\ UNCHANGED <<booted, writing>>
  <2>1. PICK c \in Ids01 : OnTrial(c)
    BY <1>2, <1>5, Zenon DEF Starting
  <2>2. slots[booted] # "partial" /\ writing = None
    BY <1>2, <2>1, Zenon DEF OnTrial, GoesBack, Starting, Idle
  <2>3. EspTypes'
    BY <1>1, <1>5, <2>2, Zenon DEF EspTypes
  <2>4. SlotOf(c)' = SlotOf(c) /\ SlotOf(1 - c)' = SlotOf(1 - c)
    BY <1>1, Zenon DEF SlotOf
  <2>5. OnTrial(c)' /\ slots'[booted'] \in proven'
    BY <1>1, <1>5, <2>1, <2>4, Zenon DEF OnTrial, GoesBack
  <2> QED BY <1>5, <2>2, <2>3, <2>5, Zenon DEF EspInv, Confirming
<1> QED BY <1>3, <1>4, <1>5, Zenon DEF Start

\* A confirmed image serves.
LEMMA ConfirmedKeeps == EspInv /\ Confirmed => EspInv'
<1>0. ASSUME Confirmed, Excused PROVE EspInv'
  <2>1. failed' = failed /\ astray' = astray
    BY <1>0, Zenon DEF Confirmed
  <2> QED BY <1>0, <2>1, Zenon DEF EspInv, Excused
<1> SUFFICES ASSUME EspTypes, Phase, Confirmed PROVE EspInv'
  BY <1>0, Zenon DEF EspInv, Phase
<1>1. doing = "confirming" /\ UNCHANGED <<ota, slots, offered, proven>>
  BY Zenon DEF Confirmed
<1>4. CASE Reset
  BY <1>1, <1>4, ResetsKeep, Zenon
<1> SUFFICES ASSUME todo = <<>>, doing' = "serving", UNCHANGED <<booted, todo, writing>>
             PROVE  EspInv'
  BY <1>4, Zenon DEF Confirmed
<1>2. Confirming
  BY <1>1, Zenon DEF Phase, Off, Loading, Seeding, Starting, Serving, Receiving, Arming
<1>3. PICK c \in Ids01 : Idle /\ RunsSelected(c)
  <2>1. todo # <<"valid">>
    BY Zenon
  <2> QED BY <1>2, <2>1, Zenon DEF Confirming
<1>5. Steady'
  BY <1>1, <1>3, SteadyKeeps, Zenon DEF Steady
<1>6. Serving' /\ EspTypes'
  BY <1>1, <1>3, <1>5, Zenon DEF Serving, Idle, EspTypes
<1> QED BY <1>6, Zenon DEF EspInv

\* An update that begins while otadata selects what runs overwrites the slot nothing
\* goes back to.
LEMMA BeginUpdateKeeps == EspInv /\ BeginUpdate => EspInv'
<1> SUFFICES ASSUME EspTypes, Phase, BeginUpdate, SelectedIs(booted) PROVE EspInv'
  BY Zenon DEF EspInv, Excused, BeginUpdate, Phase
<1>1. doing = "serving" /\ SelectedIs(booted) /\ doing' = "receiving"
      /\ slots' = [slots EXCEPT ![1 - booted] = "partial"] /\ offered' = offered + 1
      /\ offered < Len(NewImages) /\ UNCHANGED <<ota, booted, todo, writing, proven>>
  BY Zenon DEF BeginUpdate
<1>2. Serving
  BY <1>1, Zenon DEF Phase, Off, Loading, Seeding, Starting, Confirming, Receiving, Arming
<1>3. PICK c \in Ids01 : RunsSelected(c)
  <2>1. SUFFICES ASSUME NEW c \in Ids01, NEW st \in {"new", "aborted"}, GoesBack(c, st),
                        booted = SlotOf(1 - c)
                 PROVE  FALSE
    BY <1>2, Zenon DEF Serving, Steady
  <2>2. CurrentEntry = c
    BY <2>1, NewBoot, TriedBoot, Zenon
  <2>3. SlotOf(c) \in Ids01 /\ SlotOf(1 - c) = 1 - SlotOf(c)
    BY <2>1, RunningSlot, Zenon
  <2> QED BY <1>1, <2>1, <2>2, <2>3 DEF SelectedIs, Ids01
<1>4. booted = SlotOf(c) /\ SlotOf(c) \in Ids01 /\ 1 - SlotOf(c) # SlotOf(c)
  BY <1>3, SelectedBoot DEF RunsSelected, Ids01
<1>5. slots'[SlotOf(c)] = slots[SlotOf(c)] /\ DOMAIN slots' = Ids01
  BY <1>1, <1>4, Zenon DEF EspTypes
<1>6. SlotOf(c)' = SlotOf(c)
  BY <1>1, Zenon DEF SlotOf
<1>7. RunsSelected(c)'
  <2>1. SelectsProven(c) /\ booted = SlotOf(c)
    BY <1>3, Zenon DEF RunsSelected
  <2>2. ota' = ota /\ booted' = booted /\ proven' = proven
    BY <1>1, Zenon
  <2>3. SelectsProven(c)'
    BY <1>5, <1>6, <2>1, <2>2, Zenon DEF SelectsProven
  <2> QED BY <1>6, <2>1, <2>2, <2>3, Zenon DEF RunsSelected
<1>8. EspTypes' /\ offered' > 0
  <2>1. Len(NewImages) \in Nat
    BY EspAssumption
  <2> QED BY <1>1, <1>5, <2>1 DEF EspTypes
<1> QED BY <1>1, <1>2, <1>7, <1>8, Zenon DEF EspInv, Receiving, Serving, Idle

\* A received image is verified and armed, or dropped.
LEMMA ReceivedKeeps == EspInv /\ Received => EspInv'
<1> SUFFICES ASSUME EspTypes, Phase, Received PROVE EspInv'
  BY DEF EspInv, Excused, Received, Phase
<1>1. doing = "receiving" /\ UNCHANGED <<ota, booted, writing, offered, proven>>
  BY Zenon DEF Received
<1>2. Receiving
  BY <1>1, Zenon DEF Phase, Off, Loading, Seeding, Starting, Serving, Confirming, Arming
<1>3. PICK c \in Ids01 : RunsSelected(c)
  BY <1>2, Zenon DEF Receiving
<1>4. CASE doing' = "serving" /\ UNCHANGED <<slots, todo>>
  <2>1. Steady'
    BY <1>1, <1>3, <1>4, SteadyKeeps, Zenon DEF Steady
  <2>2. Serving' /\ EspTypes'
    BY <1>1, <1>2, <1>4, <2>1, Zenon DEF Serving, Receiving, Idle, EspTypes
  <2> QED BY <2>2, Zenon DEF EspInv
<1>5. CASE slots' = [slots EXCEPT ![1 - booted] = NewImages[offered]]
           /\ doing' = "arming" /\ todo' = Install
  <2>1. booted = SlotOf(c) /\ SlotOf(c) \in Ids01 /\ 1 - SlotOf(c) # SlotOf(c) /\ 1 - booted \in Ids01
    BY <1>3, SelectedBoot DEF RunsSelected, Ids01
  <2>2. NewImages[offered] # "partial"
    <3>1. offered \in 1..Len(NewImages)
      BY <1>2 DEF EspTypes, Receiving
    <3> QED BY <3>1, EspAssumption
  <2>3. slots'[SlotOf(c)] = slots[SlotOf(c)] /\ DOMAIN slots' = Ids01 /\ slots'[1 - booted'] # "partial"
    BY <1>1, <1>5, <2>1, <2>2, Zenon DEF EspTypes
  <2>4. SlotOf(c)' = SlotOf(c)
    BY <1>1, Zenon DEF SlotOf
  <2>5. RunsSelected(c)'
    BY <1>1, <1>3, <2>3, <2>4, Zenon DEF RunsSelected, SelectsProven
  <2>6. EspTypes'
    BY <1>1, <2>3, Zenon DEF EspTypes
  <2>7. writing' = None /\ todo' = <<"prime", "activate", "new">>
    BY <1>1, <1>2, <1>5, Zenon DEF Receiving, Idle, Install
  <2> QED BY <1>5, <2>3, <2>5, <2>6, <2>7, Zenon DEF EspInv, Arming
<1> QED BY <1>4, <1>5, Zenon DEF Received

\* Arming may fail between two writes, or in the middle of one.
LEMMA ArmingFailsKeeps == EspInv /\ ArmingFails => EspInv'
<1> SUFFICES ASSUME EspTypes, Phase, ArmingFails PROVE EspInv'
  BY DEF EspInv, Excused, ArmingFails, Phase
<1>1. doing = "arming" /\ doing' = "serving" /\ todo' = <<>> /\ writing' = None
      /\ UNCHANGED <<ota, slots, booted, offered, proven>>
  BY Zenon DEF ArmingFails
<1>2. Arming
  BY <1>1, Zenon DEF Phase, Off, Loading, Seeding, Starting, Serving, Confirming, Receiving
<1>3. Steady
  BY <1>2, Zenon DEF Arming, Steady
<1>4. Steady'
  BY <1>1, <1>3, SteadyKeeps, Zenon
<1>5. Serving' /\ EspTypes'
  BY <1>1, <1>4, Zenon DEF Serving, Idle, EspTypes
<1> QED BY <1>5, Zenon DEF EspInv

\* The settings are stored elsewhere.
LEMMA SettingsKeep == EspInv /\ (EraseSettings \/ StoreSettings) => EspInv'
<1> SUFFICES ASSUME EspTypes, Phase, EraseSettings \/ StoreSettings PROVE EspInv'
  BY Zenon DEF EspInv, Excused, EraseSettings, StoreSettings, Phase
<1>1. UNCHANGED <<ota, slots, offered, proven>>
  BY Zenon DEF EraseSettings, StoreSettings
<1>2. CASE Reset
  BY <1>1, <1>2, ResetsKeep, Zenon
<1>3. CASE doing \in {"serving", "storing"} /\ doing' \in {"serving", "storing"}
           /\ UNCHANGED <<booted, todo, writing>>
  <2>1. Serving
    BY <1>3, Zenon DEF Phase, Off, Loading, Seeding, Starting, Confirming, Receiving, Arming
  <2>2. Steady'
    BY <1>1, <1>3, <2>1, SteadyKeeps, Zenon DEF Serving
  <2>3. Serving' /\ EspTypes'
    BY <1>1, <1>3, <2>1, <2>2, Zenon DEF Serving, Idle, EspTypes
  <2> QED BY <2>3, Zenon DEF EspInv
<1> QED BY <1>2, <1>3, Zenon DEF EraseSettings, StoreSettings

\* A step that changes nothing.
LEMMA StutterKeeps == EspInv /\ UNCHANGED espVars => EspInv'
<1> SUFFICES ASSUME EspTypes, Phase, UNCHANGED espVars PROVE EspInv'
  BY DEF EspInv, Excused, espVars, Phase
<1> USE DEF espVars
<1>1. EspTypes'
  BY Zenon DEF EspTypes
<1>2. /\ Unselected' <=> Unselected
      /\ Idle' <=> Idle
      /\ \A c \in Ids01 :
           /\ SelectsProven(c)' <=> SelectsProven(c)
           /\ RunsSelected(c)' <=> RunsSelected(c)
           /\ OnTrial(c)' <=> OnTrial(c)
           /\ SlotOf(c)' = SlotOf(c) /\ SlotOf(1 - c)' = SlotOf(1 - c)
           /\ \A st : GoesBack(c, st)' <=> GoesBack(c, st)
           /\ \A n, st : Begun(c, n, st)' <=> Begun(c, n, st)
  BY DEF Unselected, Idle, SelectsProven, RunsSelected, OnTrial, SlotOf, GoesBack, Begun
<1>3. Steady' <=> Steady
  BY <1>2, Zenon DEF Steady
<1>4. CASE Off \/ Loading
  BY <1>1, <1>2, <1>4, Zenon DEF EspInv, Off, Loading, AnyShape
<1>5. CASE Seeding
  BY <1>1, <1>2, <1>5, Zenon DEF EspInv, Seeding, Ids01, OtaStates
<1>6. CASE Starting \/ Serving \/ Receiving
  BY <1>1, <1>2, <1>3, <1>6, Zenon DEF EspInv, Starting, Serving, Receiving
<1>7. CASE Confirming
  BY <1>1, <1>2, <1>7, Zenon DEF EspInv, Confirming
<1>8. CASE Arming
  BY <1>1, <1>2, <1>8, Zenon DEF EspInv, Arming
<1> QED BY <1>4, <1>5, <1>6, <1>7, <1>8, Zenon DEF Phase

\* A device as it is first provisioned.
LEMMA InitInv == EspInit => EspInv
<1> SUFFICES ASSUME EspInit PROVE EspTypes /\ Off
  BY Zenon DEF EspInv
<1>1. DOMAIN slots = Ids01 /\ offered \in 0..Len(NewImages) /\ "partial" \notin proven
  <2>1. Len(NewImages) \in Nat
    BY EspAssumption
  <2> QED BY <2>1 DEF EspInit
<1>2. CASE /\ ota = [e \in Ids01 |-> Erased]
           /\ slots = [s \in Ids01 |-> IF s = 0 THEN "first" ELSE "partial"]
  <2>1. ota \in [Ids01 -> Entries]
    BY <1>2, ErasedTyped, Zenon
  <2>2. Unselected
    BY <1>2, Zenon DEF Unselected, Ids01, EspInit
  <2> QED BY <1>1, <2>1, <2>2, Zenon DEF EspTypes, Off, AnyShape, Idle, EspInit
<1>3. CASE /\ ota = [e \in Ids01 |-> [seq |-> 2 - e, state |-> "valid"]]
           /\ slots = [s \in Ids01 |-> IF s = 0 THEN "first" ELSE "second"]
  <2>1. ota \in [Ids01 -> Entries]
    BY <1>3 DEF Ids01, OtaStates
  <2>2. /\ ota[0].seq = 2 /\ ota[0].state = "valid" /\ ota[1].seq = 1 /\ ota[1].state = "valid"
        /\ slots[1] = "second" /\ 0 \in Ids01 /\ 1 - 0 = 1 /\ (2 - 1) % 2 = 1 /\ "second" \in proven
    BY <1>3 DEF Ids01, EspInit
  <2>3. SelectsProven(0)
    BY <2>2 DEF SelectsProven, SlotOf, Settled
  <2> QED BY <1>1, <2>1, <2>2, <2>3, Zenon DEF EspTypes, Off, AnyShape, Idle, EspInit
<1> QED BY <1>2, <1>3, Zenon DEF EspInit

\* EspInv is inductive.
LEMMA InvStep == EspInv /\ [EspNext]_espVars => EspInv'
<1> SUFFICES ASSUME EspInv, [EspNext]_espVars PROVE EspInv'
  BY Zenon
<1>1. CASE Armed \/ LosePower
  <2>1. CASE Excused
    BY <1>1, <2>1 DEF Armed, LosePower, EspInv, Excused
  <2>2. CASE EspTypes /\ Phase
    BY <1>1, <2>2, ResetsKeep, Zenon DEF Armed, LosePower
  <2> QED BY <2>1, <2>2, Zenon DEF EspInv, Phase
<1> QED BY <1>1, BootKeeps, PrepareKeeps, WritesKeep, StartKeeps, ConfirmedKeeps, BeginUpdateKeeps,
           ReceivedKeeps, ArmingFailsKeeps, SettingsKeep, StutterKeeps, Zenon DEF EspNext

\* As long as every update began while otadata selected the running slot (so not after
\* a rollback) and prepare_firmware_ota never failed, the next boot of the ESP32 finds
\* a whole image, an unproven one only on trial, and only a proven image serves: for
\* any images and wherever power is lost, the middle of an otadata write included.
THEOREM SpecSafeWhileSelected == EspSpec => []SafeWhileSelected
<1>1. EspInit => EspInv
  BY InitInv, Zenon
<1>2. EspInv /\ [EspNext]_espVars => EspInv'
  BY InvStep, Zenon
<1> QED BY <1>1, <1>2, InvSafe, PTL DEF EspSpec

HIDE DEF Entries

-------------------------------------------------------------------------------
(* The sink, for every board and every payload, however it is cut into       *)
(* pieces. The invariant says cell by cell what the slot holds: what was     *)
(* accepted up to the last whole word, blank up to where it was erased, and  *)
(* the old contents beyond.                                                  *)

SinkTypes ==
    /\ board \in Boards
    /\ payload \in [len : Lengths, magic : BOOLEAN, good : BOOLEAN]
    /\ at \in Nat /\ erasedTo \in Nat /\ Programmed \in Nat
    /\ pending \in Seq(Nat) /\ desc \in Seq(Nat)
    /\ DOMAIN flash = 1 .. SlotLen[board]

\* What waits is the end of what was accepted, less than a word.
Waiting ==
    /\ Len(pending) < Word[board]
    /\ \A i \in 1 .. Len(pending) : pending[i] = Programmed + i

\* How much of the description has passed.
Captured(k) == IF k <= DescAt THEN 0 ELSE IF k <= DescAt + DescLen THEN k - DescAt ELSE DescLen
Described ==
    /\ Len(desc) = Captured(at)
    /\ \A i \in 1 .. Len(desc) : desc[i] = DescAt + i
    /\ Len(desc) = DescLen => payload.good

\* Padding only ends the image.
Unpadded == pending # <<>> \/ at # payload.len => \A c \in DOMAIN flash : flash[c] # Pad

SlotFaithful ==
    \A c \in DOMAIN flash : flash[c] \in
          IF c > erasedTo THEN {Old} ELSE IF c <= Programmed THEN {c} ELSE {Blank, Pad}

SinkInv ==
    /\ SinkTypes /\ Waiting /\ Described /\ Unpadded /\ SlotFaithful
    /\ at <= Capacity[board] /\ Programmed <= erasedTo /\ erasedTo <= SlotLen[board]
    /\ at > 0 /\ board = "esp32" => payload.magic
    /\ sinkFate = "done" => at = payload.len /\ pending = <<>> /\ Len(desc) = DescLen

\* What is left after an erase or a write failed.
FlashFailed ==
    /\ sinkFate = "flash"
    /\ \A c \in DOMAIN flash : /\ c <= Programmed => flash[c] = c
                               /\ c > erasedTo + Sector => flash[c] = Old

-------------------------------------------------------------------------------
\* Whole words: what is left over is less than one.
LEMMA WholeWords ==
    ASSUME NEW k \in Nat, NEW w \in Nat \ {0}
    PROVE  /\ (k \div w) * w \in Nat /\ (k \div w) * w <= k /\ k < ((k \div w) * w) + w
<1>1. k \div w \in Int /\ k % w \in 0 .. w - 1 /\ k = ((k \div w) * w) + (k % w)
  OBVIOUS
<1>2. k \div w \in Nat
  BY <1>1
<1>3. PICK q \in Nat : q = k \div w
  BY <1>2, Zenon
<1>4. q * w \in Nat
  OBVIOUS
<1>5. PICK p \in Nat : p = q * w
  BY <1>4, Zenon
<1> QED BY <1>1, <1>3, <1>5

\* ensure_erased reaches the end asked for and gives nothing back.
LEMMA ErasedFar ==
    ASSUME NEW end \in Nat, erasedTo \in Nat
    PROVE  EraseEnd(end) \in Nat /\ end <= EraseEnd(end) /\ erasedTo <= EraseEnd(end)
<1>1. CASE end <= erasedTo
  BY <1>1 DEF EraseEnd
<1>2. CASE end > erasedTo
  <2>1. Sector \in Nat \ {0}
    BY SinkAssumption, Zenon
  <2>2. PICK k \in Nat : k = end + Sector - 1
    BY <2>1
  <2>3. PICK p \in Nat : p = (k \div Sector) * Sector /\ k < p + Sector
    BY <2>1, WholeWords, Zenon
  <2>4. EraseEnd(end) = p
    BY <1>2, <2>2, <2>3 DEF EraseEnd
  <2> QED BY <1>2, <2>1, <2>2, <2>3, <2>4
<1> QED BY <1>1, <1>2

\* write_aligned on cells that hold no padding: the units are where they belong,
\* padding after them.
LEMMA Programming ==
    ASSUME SinkInv, NEW units \in Seq(Int), WriteAligned(units), NEW p \in Nat,
           Programmed <= p, p <= Programmed + Len(units),
           \A i \in 1 .. Len(units) : units[i] = IF Programmed + i <= p THEN Programmed + i ELSE Pad,
           \A c \in DOMAIN flash : flash[c] # Pad
    PROVE  /\ DOMAIN flash' = DOMAIN flash /\ erasedTo' \in Nat
           /\ p <= erasedTo' /\ erasedTo' <= SlotLen[board]
           /\ \A c \in DOMAIN flash : flash'[c] \in
                  IF c > erasedTo' THEN {Old} ELSE IF c <= p THEN {c} ELSE {Blank, Pad}
           /\ p = Programmed + Len(units) => \A c \in DOMAIN flash : flash'[c] # Pad
<1>a. Programmed \in Nat /\ Len(units) \in Nat
  BY DEF SinkInv, SinkTypes
<1>0. PICK from \in Nat, n \in Nat : from = Programmed /\ n = Len(units)
  BY <1>a, Zenon
<1>1. PICK to \in Nat : to = EraseEnd(from + n) /\ from + n <= to /\ erasedTo <= to
  BY <1>0, ErasedFar DEF SinkInv, SinkTypes
<1>2. /\ to <= SlotLen[board] /\ erasedTo' = to
      /\ flash' = [c \in DOMAIN flash |-> Cell(c, from, units, to)]
  BY <1>0, <1>1, Zenon DEF WriteAligned
<1>3. DOMAIN flash = 1 .. SlotLen[board] /\ SlotLen[board] \in Nat /\ erasedTo \in Nat /\ from <= erasedTo
  BY <1>0, SinkAssumption, Zenon DEF SinkInv, SinkTypes
<1>4. ASSUME NEW c \in DOMAIN flash
      PROVE  /\ flash'[c] \in IF c > to THEN {Old} ELSE IF c <= p THEN {c} ELSE {Blank, Pad}
             /\ p = from + n => flash'[c] # Pad
  <2>1. c \in Nat \ {0}
    BY <1>3
  <2>2. flash'[c] = Cell(c, from, units, to)
    BY <1>2, Zenon
  <2>3. /\ c > erasedTo => flash[c] = Old
        /\ c <= from => flash[c] = c
        /\ c <= erasedTo /\ c > from => flash[c] = Blank
    <3>1. flash[c] \in IF c > erasedTo THEN {Old} ELSE IF c <= from THEN {c} ELSE {Blank, Pad}
      BY <1>0, Zenon DEF SinkInv, SlotFaithful
    <3>2. flash[c] # Pad
      BY Zenon
    <3> QED BY <1>0, <1>3, <2>1, <3>1, <3>2
  <2>4. CASE c <= from
    <3>1. flash'[c] = c
      BY <1>0, <1>3, <2>1, <2>2, <2>3, <2>4 DEF Cell
    <3> QED BY <1>0, <1>1, <2>1, <2>4, <3>1 DEF Pad
  <2>5. CASE c > from + n
    <3>1. flash'[c] = IF c > to THEN Old ELSE Blank
      BY <1>0, <1>1, <1>3, <2>1, <2>2, <2>3, <2>5 DEF Cell
    <3> QED BY <1>0, <1>1, <2>1, <2>5, <3>1 DEF Pad, Old, Blank
  <2>6. CASE c > from /\ c <= from + n
    <3>1. PICK i \in 1 .. n : i = c - from
      BY <1>0, <2>1, <2>6
    <3>2. flash'[c] = units[i]
      BY <1>0, <1>1, <1>3, <2>1, <2>2, <2>3, <2>6, <3>1 DEF Cell
    <3>3. units[i] = IF c <= p THEN c ELSE Pad
      BY <1>0, <2>1, <3>1
    <3> QED BY <1>0, <1>1, <2>1, <2>6, <3>2, <3>3 DEF Pad
  <2> QED BY <1>0, <2>1, <2>4, <2>5, <2>6
<1>5. DOMAIN flash' = DOMAIN flash
  BY <1>2, Zenon
<1>6. p <= to
  BY <1>0, <1>1
<1>7. \A c \in DOMAIN flash : flash'[c] \in
           IF c > erasedTo' THEN {Old} ELSE IF c <= p THEN {c} ELSE {Blank, Pad}
  BY <1>2, <1>4, Zenon
<1>8. p = Programmed + Len(units) => \A c \in DOMAIN flash : flash'[c] # Pad
  BY <1>0, <1>4, Zenon
<1> QED BY <1>2, <1>5, <1>6, <1>7, <1>8, Zenon

\* Consecutive numbers as a sequence.
LEMMA Counting ==
    ASSUME NEW k \in Nat, NEW b \in Nat
    PROVE  /\ [i \in 1 .. k |-> b + i] \in Seq(Nat) /\ Len([i \in 1 .. k |-> b + i]) = k
           /\ \A i \in 1 .. k : [j \in 1 .. k |-> b + j][i] = b + i
OBVIOUS

\* A sequence after another.
LEMMA Joined ==
    ASSUME NEW T, NEW s \in Seq(T), NEW t \in Seq(T), NEW k \in Nat, NEW n \in Nat, k = Len(s), n = Len(t)
    PROVE  /\ s \o t \in Seq(T) /\ Len(s \o t) = k + n
           /\ \A i \in 1 .. k : (s \o t)[i] = s[i]
           /\ \A i \in 1 .. n : (s \o t)[k + i] = t[i]
<1>1. s \o t \in Seq(T) /\ Len(s \o t) = k + n
  OBVIOUS
<1>2. \A i \in 1 .. k : (s \o t)[i] = s[i]
  OBVIOUS
<1>3. \A i \in 1 .. n : (s \o t)[k + i] = t[i]
  OBVIOUS
<1> QED BY <1>1, <1>2, <1>3, Zenon

\* q is the part of s behind from, up to to.
PartOf(q, s, from, to) ==
    /\ q \in Seq(Nat) /\ Len(q) = to - from
    /\ \A i \in 1 .. to - from : q[i] = s[from + i]

\* A part of a sequence.
LEMMA Part ==
    ASSUME NEW s \in Seq(Nat), NEW from \in Nat, NEW to \in Nat, from <= to, to <= Len(s),
           NEW q, q = SubSeq(s, from + 1, to)
    PROVE  PartOf(q, s, from, to)
<1>1. PICK m \in Nat : m = from + 1
  OBVIOUS
<1>2. q = SubSeq(s, m, to) /\ q \in Seq(Nat)
  BY <1>1
<1>3. Len(q) = to - from
  BY <1>1, <1>2
<1>4. \A i \in 1 .. to - from : q[i] = s[m + i - 1]
  BY <1>1, <1>2, <1>3
<1>5. \A i \in 1 .. to - from : m + i - 1 = from + i
  BY <1>1
<1> QED BY <1>2, <1>3, <1>4, <1>5, Zenon DEF PartOf

\* The part of the description in a piece continues what was captured before.
LEMMA DescriptorPiece ==
    ASSUME NEW from \in Nat, NEW to \in Nat, from <= to
    PROVE  /\ DescriptorBytes(from, to) \in Seq(Nat)
           /\ Captured(from) \in Nat /\ Captured(to) \in Nat
           /\ Len(DescriptorBytes(from, to)) = Captured(to) - Captured(from)
           /\ \A i \in 1 .. Len(DescriptorBytes(from, to)) :
                 DescriptorBytes(from, to)[i] = DescAt + Captured(from) + i
<1>0. DescAt \in Nat /\ DescLen \in Nat
  BY SinkAssumption, Zenon
<1>1. PICK start \in Nat : start = IF from >= DescAt THEN from ELSE DescAt
  BY <1>0, Zenon
<1>3. PICK end \in Nat : end = DescAt + DescLen
  BY <1>0
<1>4. PICK stop \in Nat : stop = IF to <= end THEN to ELSE end
  BY Zenon
<1>a. (IF stop > start THEN stop - start ELSE 0) \in Nat
  OBVIOUS
<1>6. PICK k \in Nat : k = IF stop > start THEN stop - start ELSE 0
  BY <1>a, Zenon
<1>7. 1 .. stop - start = 1 .. k
  BY <1>6
<1>8. DescriptorBytes(from, to) = [i \in 1 .. k |-> start + i]
  BY <1>1, <1>3, <1>4, <1>7, Zenon DEF DescriptorBytes
<1>9. /\ [i \in 1 .. k |-> start + i] \in Seq(Nat) /\ Len([i \in 1 .. k |-> start + i]) = k
      /\ \A i \in 1 .. k : [j \in 1 .. k |-> start + j][i] = start + i
  BY Counting, Zenon
<1>10. Captured(from) \in Nat /\ Captured(to) \in Nat /\ k = Captured(to) - Captured(from)
  BY <1>0, <1>1, <1>3, <1>4, <1>6 DEF Captured
<1>11. \A i \in 1 .. k : start + i = DescAt + Captured(from) + i
  BY <1>0, <1>1, <1>3, <1>4, <1>6 DEF Captured
<1> QED BY <1>8, <1>9, <1>10, <1>11, Zenon

\* An update that ends leaves the slot as it is.
LEMMA SinkEndsStep ==
    ASSUME SinkInv, NEW how, SinkEnds(how),
           how = "done" => at = payload.len /\ pending = <<>> /\ Len(desc) = DescLen
    PROVE  SinkInv'
BY Zenon DEF SinkEnds, SinkInv, SinkTypes, Waiting, Described, Unpadded, SlotFaithful, Programmed

\* An erase or a write that fails spoils nothing that was written, and no sector
\* beyond the next one.
LEMMA FailingWrite ==
    ASSUME SinkInv, NEW units, Len(units) \in Nat, WriteFails(units)
    PROVE  FlashFailed'
<1>a. /\ Programmed \in Nat /\ erasedTo \in Nat /\ Programmed <= erasedTo /\ Sector \in Nat \ {0}
      /\ DOMAIN flash = 1 .. SlotLen[board] /\ SlotLen[board] \in Nat
  BY SinkAssumption, Zenon DEF SinkInv, SinkTypes
<1>0. PICK from \in Nat, n \in Nat, old \in Nat, size \in Nat \ {0} :
         from = Programmed /\ n = Len(units) /\ old = erasedTo /\ size = Sector
  BY <1>a, Zenon
<1>1. PICK to \in Nat : to = EraseEnd(from + n) /\ from + n <= to /\ old <= to
  <2>1. from + n \in Nat /\ erasedTo \in Nat
    BY <1>0, <1>a
  <2>2. /\ EraseEnd(from + n) \in Nat /\ from + n <= EraseEnd(from + n)
        /\ erasedTo <= EraseEnd(from + n)
    BY <2>1, ErasedFar, Zenon
  <2> QED BY <1>0, <2>2, Zenon
<1>2. sinkFate' = "flash" /\ Programmed' = from
  BY <1>0, Zenon DEF WriteFails, Programmed
<1>3. ASSUME NEW c \in DOMAIN flash
      PROVE  /\ c \in Nat \ {0}
             /\ c <= from => flash[c] = c
             /\ c > old => flash[c] = Old
  <2>1. c \in Nat \ {0}
    BY <1>a
  <2>2. flash[c] \in IF c > old THEN {Old} ELSE IF c <= from THEN {c} ELSE {Blank, Pad}
    BY <1>0, Zenon DEF SinkInv, SlotFaithful
  <2> QED BY <1>0, <1>a, <2>1, <2>2
<1>4. ASSUME NEW c \in DOMAIN flash, NEW e \in Nat, old <= e
      PROVE  /\ c <= from => Cell(c, from, <<>>, e) = c
             /\ c > e => Cell(c, from, <<>>, e) = Old
  <2>1. Len(<<>>) = 0
    OBVIOUS
  <2> QED BY <1>0, <1>3, <1>4, <1>a, <2>1 DEF Cell
<1>5. ASSUME NEW e \in old .. to - 1, erasedTo' = e,
             flash' = [c \in DOMAIN flash |->
                       IF c > e /\ c <= e + Sector /\ e + Sector <= SlotLen[board] THEN Spoilt
                       ELSE Cell(c, Programmed, <<>>, e)]
      PROVE  FlashFailed'
  <2>1. e \in Nat /\ old <= e /\ from <= e
    BY <1>0, <1>5, <1>a
  <2>2. ASSUME NEW c \in DOMAIN flash
        PROVE  /\ c <= from => flash'[c] = c
               /\ c > e + Sector => flash'[c] = Old
    <3>1. flash'[c] = IF c > e /\ c <= e + size /\ e + size <= SlotLen[board] THEN Spoilt
                      ELSE Cell(c, from, <<>>, e)
      BY <1>0, <1>5, Zenon
    <3> QED BY <1>0, <1>3, <1>4, <2>1, <3>1
  <2>3. DOMAIN flash' = DOMAIN flash
    BY <1>5, Zenon
  <2> QED BY <1>2, <1>5, <2>2, <2>3, Zenon DEF FlashFailed
<1>6. ASSUME erasedTo' = to,
             flash' = [c \in DOMAIN flash |->
                       IF c > Programmed /\ c <= Programmed + Len(units) THEN Spoilt
                       ELSE Cell(c, Programmed, <<>>, to)]
      PROVE  FlashFailed'
  <2>1. from <= to
    BY <1>1
  <2>2. ASSUME NEW c \in DOMAIN flash
        PROVE  /\ c <= from => flash'[c] = c
               /\ c > to + Sector => flash'[c] = Old
    <3>1. flash'[c] = IF c > from /\ c <= from + n THEN Spoilt ELSE Cell(c, from, <<>>, to)
      BY <1>0, <1>6, Zenon
    <3> QED BY <1>0, <1>1, <1>3, <1>4, <2>1, <3>1
  <2>3. DOMAIN flash' = DOMAIN flash
    BY <1>6, Zenon
  <2> QED BY <1>2, <1>6, <2>2, <2>3, Zenon DEF FlashFailed
<1> QED BY <1>0, <1>1, <1>5, <1>6, Zenon DEF WriteFails

\* PayloadSink::write.
LEMMA SinkWriteStep ==
    ASSUME SinkInv, NEW n \in Nat \ {0}, SinkWrite(n)
    PROVE  SinkInv' \/ FlashFailed'
<1> DEFINE units == pending \o [i \in 1 .. n |-> at + i]
           seen == desc \o DescriptorBytes(at, at + n)
<1>0. sinkFate = None /\ None # "done" /\ at + n <= payload.len
  BY SinkAssumption, Zenon DEF SinkWrite
<1>1. CASE SinkEnds("out of bounds") \/ SinkEnds("not an image")
  BY <1>1, SinkEndsStep, Zenon
<1>6. CASE WriteFails(SubSeq(units, 1, Whole(units)))
  <2>1. pending \in Seq(Nat) /\ [i \in 1 .. n |-> at + i] \in Seq(Nat) /\ Word[board] \in Nat \ {0}
    BY SinkAssumption DEF SinkInv, SinkTypes
  <2>2. units \in Seq(Nat)
    BY <2>1
  <2> HIDE DEF units
  <2>3. PICK k \in Nat : k = Len(units)
    BY <2>2
  <2>4. PICK w \in Nat : w = Whole(units) /\ w <= k
    BY <2>1, <2>3, WholeWords, Zenon DEF Whole
  <2>5. Len(SubSeq(units, 1, w)) \in Nat
    BY <2>2, <2>3, <2>4
  <2> QED BY <1>6, <2>4, <2>5, FailingWrite, Zenon
<1>2. CASE /\ at + n <= Capacity[board]
           /\ ~(board = "esp32" /\ at = 0 /\ ~payload.magic)
           /\ ~(Len(seen) = DescLen /\ ~payload.good)
           /\ at' = at + n
           /\ desc' = seen
           /\ pending' = Kept(units)
           /\ IF Whole(units) = 0 THEN UNCHANGED <<flash, erasedTo>>
              ELSE WriteAligned(SubSeq(units, 1, Whole(units)))
           /\ UNCHANGED <<board, payload, sinkFate>>
  <2>1. /\ at \in Nat /\ Programmed \in Nat /\ erasedTo \in Nat /\ pending \in Seq(Nat) /\ desc \in Seq(Nat)
        /\ board \in Boards
    BY Zenon DEF SinkInv, SinkTypes
  <2>a. payload \in [len : Lengths, magic : BOOLEAN, good : BOOLEAN] /\ payload.len \in Nat
    BY SinkAssumption, Zenon DEF SinkInv, SinkTypes
  <2>b. PICK wordLen \in Nat \ {0} : wordLen = Word[board]
    BY <2>1, SinkAssumption, Zenon
  <2>c. PICK k \in Nat, d \in Nat : k = Len(pending) /\ d = Len(desc)
    BY <2>1
  <2>d. PICK a \in Nat, from \in Nat : a = at /\ from = Programmed /\ from = a - k
    BY <2>1, <2>c, Zenon DEF Programmed
  <2>e. PICK dat \in Nat, dlen \in Nat : dat = DescAt /\ dlen = DescLen
    BY SinkAssumption, Zenon
  <2>2. PICK piece \in Seq(Nat) : /\ piece = [i \in 1 .. n |-> at + i] /\ Len(piece) = n
                                  /\ \A i \in 1 .. n : piece[i] = a + i
    <3>1. [i \in 1 .. n |-> at + i] = [i \in 1 .. n |-> a + i]
      BY <2>d, Zenon
    <3>2. n \in Nat
      BY Zenon
    <3> QED BY <3>1, <3>2, Counting, Zenon
  <2>g. units = pending \o piece
    BY <2>2, Zenon
  <2> HIDE DEF units
  <2>h. PICK wait \in Seq(Nat) : wait = pending /\ Len(wait) = k
    BY <2>1, <2>c, Zenon
  <2>3. /\ units \in Seq(Nat) /\ Len(units) = k + n
        /\ \A i \in 1 .. k : units[i] = wait[i]
        /\ \A i \in 1 .. n : units[k + i] = piece[i]
    <3>1. n \in Nat /\ k = Len(wait) /\ n = Len(piece)
      BY <2>2, <2>h, Zenon
    <3>2. /\ wait \o piece \in Seq(Nat) /\ Len(wait \o piece) = k + n
          /\ \A i \in 1 .. k : (wait \o piece)[i] = wait[i]
          /\ \A i \in 1 .. n : (wait \o piece)[k + i] = piece[i]
      BY <3>1, Joined
    <3>3. units = wait \o piece
      BY <2>g, <2>h, Zenon
    <3> QED BY <3>2, <3>3, Zenon
  <2>4. ASSUME NEW i \in 1 .. k + n PROVE units[i] = from + i
    <3>1. CASE i <= k
      <4>1. i \in 1 .. k
        BY <3>1
      <4>2. wait[i] = from + i
        BY <2>c, <2>d, <2>h, <4>1, Zenon DEF SinkInv, Waiting
      <4> QED BY <2>3, <4>1, <4>2, Zenon
    <3>2. CASE i > k
      <4>1. PICK j \in 1 .. n : i = k + j
        <5>1. i - k \in 1 .. n /\ i = k + (i - k)
          BY <3>2
        <5> QED BY <5>1, Zenon
      <4>2. units[i] = a + j
        BY <2>2, <2>3, <4>1, Zenon
      <4> QED BY <2>d, <4>1, <4>2
    <3> QED BY <3>1, <3>2
  <2>i. PICK len \in Nat : len = k + n
    OBVIOUS
  <2>5. PICK u \in Seq(Nat) : u = units /\ len = Len(u) /\ len = k + n
    BY <2>3, <2>i, Zenon
  <2>6. PICK w \in Nat : w = Whole(units) /\ w <= len /\ len < w + wordLen
    BY <2>5, <2>b, WholeWords, Zenon DEF Whole
  <2>7. /\ pending' = SubSeq(u, w + 1, len) /\ pending' \in Seq(Nat) /\ Len(pending') = len - w
        /\ \A i \in 1 .. len - w : pending'[i] = from + w + i
    <3>1. pending' = SubSeq(u, w + 1, len)
      BY <1>2, <2>5, <2>6, Zenon DEF Kept
    <3>2. /\ pending' \in Seq(Nat) /\ Len(pending') = len - w
          /\ \A i \in 1 .. len - w : pending'[i] = u[w + i]
      <4>1. len <= Len(u) /\ w <= len
        BY <2>5, <2>6
      <4>2. PICK q : q = SubSeq(u, w + 1, len)
        BY Zenon
      <4>3. PartOf(q, u, w, len)
        BY <4>1, <4>2, Part, Zenon
      <4> QED BY <3>1, <4>2, <4>3, Zenon DEF PartOf
    <3>3. ASSUME NEW i \in 1 .. len - w PROVE pending'[i] = from + w + i
      <4>1. w + i \in 1 .. k + n
        BY <2>5, <2>6
      <4>2. u[w + i] = from + (w + i)
        BY <2>4, <2>5, <4>1, Zenon
      <4> QED BY <3>2, <4>2
    <3> QED BY <3>1, <3>2, <3>3, Zenon
  <2>8. at' = a + n /\ Programmed' = from + w
    <3>1. at' = a + n
      BY <1>2, <2>d, Zenon
    <3>2. Programmed' = (a + n) - (len - w)
      BY <2>7, <3>1, Zenon DEF Programmed
    <3>3. (a + n) - (len - w) = from + w
      BY <2>5, <2>d
    <3> QED BY <3>1, <3>2, <3>3, Zenon
  <2>f. PICK to \in Nat : to = at + n /\ to = a + n
    BY <2>d
  <2>9. PICK more \in Seq(Nat) : /\ more = DescriptorBytes(at, at + n)
                                 /\ Len(more) = Captured(to) - Captured(a)
                                 /\ Captured(a) \in Nat /\ Captured(to) \in Nat
                                 /\ \A i \in 1 .. Len(more) : more[i] = DescAt + Captured(a) + i
    <3>1. a <= to
      BY <2>f
    <3>2. DescriptorBytes(at, at + n) = DescriptorBytes(a, to)
      BY <2>d, <2>f, Zenon
    <3>3. /\ DescriptorBytes(a, to) \in Seq(Nat)
          /\ Captured(a) \in Nat /\ Captured(to) \in Nat
          /\ Len(DescriptorBytes(a, to)) = Captured(to) - Captured(a)
          /\ \A i \in 1 .. Len(DescriptorBytes(a, to)) : DescriptorBytes(a, to)[i] = DescAt + Captured(a) + i
      BY <3>1, DescriptorPiece, Zenon
    <3> QED BY <3>2, <3>3, Zenon
  <2>10. /\ desc' \in Seq(Nat) /\ Len(desc') = Captured(to)
         /\ \A i \in 1 .. Len(desc') : desc'[i] = DescAt + i
    <3>1. PICK old \in Seq(Nat) : old = desc /\ Len(old) = d
      BY <2>1, <2>c, Zenon
    <3>2. desc' = old \o more /\ d = Captured(a)
      BY <1>2, <2>9, <2>c, <2>d, <3>1, Zenon DEF SinkInv, Described
    <3>3. PICK e \in Nat : e = Len(more)
      BY <2>9
    <3>4. /\ desc' \in Seq(Nat) /\ Len(desc') = d + e
          /\ \A i \in 1 .. d : desc'[i] = old[i]
          /\ \A i \in 1 .. e : desc'[d + i] = more[i]
      <4>1. d = Len(old) /\ e = Len(more)
        BY <3>1, <3>3, Zenon
      <4>2. /\ old \o more \in Seq(Nat) /\ Len(old \o more) = d + e
            /\ \A i \in 1 .. d : (old \o more)[i] = old[i]
            /\ \A i \in 1 .. e : (old \o more)[d + i] = more[i]
        BY <4>1, Joined
      <4>3. desc' = old \o more
        BY <3>2, Zenon
      <4> QED BY <4>2, <4>3, Zenon
    <3>5. Len(desc') = Captured(to)
      BY <2>9, <3>2, <3>3, <3>4
    <3>6. ASSUME NEW i \in 1 .. d + e PROVE desc'[i] = DescAt + i
      <4>1. CASE i <= d
        BY <2>c, <3>1, <3>4, <4>1 DEF SinkInv, Described
      <4>2. CASE i > d
        <5>1. PICK j \in 1 .. e : i = d + j
          <6>1. i - d \in 1 .. e /\ i = d + (i - d)
            BY <4>2
          <6> QED BY <6>1, Zenon
        <5>2. desc'[i] = more[j] /\ more[j] = dat + d + j
          BY <2>9, <2>e, <3>2, <3>3, <3>4, <5>1, Zenon
        <5> QED BY <2>e, <5>1, <5>2
      <4> QED BY <4>1, <4>2
    <3> QED BY <3>4, <3>5, <3>6, Zenon
  <2>11. board' = board /\ payload' = payload /\ sinkFate' = None
    BY <1>0, <1>2, Zenon
  <2>12. \A c \in DOMAIN flash : flash[c] # Pad
    BY <1>0, <2>1, <2>a DEF SinkInv, Unpadded
  <2>13. /\ DOMAIN flash' = DOMAIN flash /\ erasedTo' \in Nat
         /\ from + w <= erasedTo' /\ erasedTo' <= SlotLen[board]
         /\ \A c \in DOMAIN flash : flash'[c] \in
                IF c > erasedTo' THEN {Old} ELSE IF c <= from + w THEN {c} ELSE {Blank, Pad}
         /\ \A c \in DOMAIN flash : flash'[c] # Pad
    <3>1. CASE w = 0
      <4>1. flash' = flash /\ erasedTo' = erasedTo /\ from + w = from
        BY <1>2, <2>6, <3>1
      <4> QED BY <2>1, <2>12, <2>d, <4>1, Zenon DEF SinkInv, SlotFaithful
    <3>2. CASE w # 0
      <4>1. PICK block \in Seq(Int) : /\ block = SubSeq(u, 1, w) /\ Len(block) = w
                                      /\ \A i \in 1 .. w : block[i] = u[i]
        <5>1. 0 \in Nat /\ 0 <= w /\ w <= Len(u)
          BY <2>5, <2>6
        <5>2. PICK q : q = SubSeq(u, 0 + 1, w)
          BY Zenon
        <5>a. PartOf(q, u, 0, w)
          BY <5>1, <5>2, Part, Zenon
        <5>3. /\ q \in Seq(Nat) /\ Len(q) = w - 0
              /\ \A i \in 1 .. w - 0 : q[i] = u[0 + i]
          BY <5>a, Zenon DEF PartOf
        <5>4. q = SubSeq(u, 1, w) /\ Len(q) = w /\ q \in Seq(Int)
          BY <5>2, <5>3
        <5>5. \A i \in 1 .. w : q[i] = u[i]
          BY <5>3
        <5> QED BY <5>4, <5>5, Zenon
      <4>2. WriteAligned(block)
        BY <1>2, <2>5, <2>6, <3>2, <4>1, Zenon
      <4>3. PICK p \in Nat : p = from + w
        OBVIOUS
      <4>4. ASSUME NEW i \in 1 .. Len(block)
            PROVE  block[i] = IF Programmed + i <= p THEN Programmed + i ELSE Pad
        <5>1. i \in 1 .. w /\ i \in 1 .. k + n
          BY <2>5, <2>6, <4>1
        <5>2. block[i] = from + i
          BY <2>4, <2>5, <4>1, <5>1, Zenon
        <5> QED BY <2>d, <4>3, <5>1, <5>2
      <4>5. Programmed <= p /\ p = Programmed + Len(block) /\ p <= Programmed + Len(block)
        BY <2>d, <4>1, <4>3
      <4>6. /\ DOMAIN flash' = DOMAIN flash /\ erasedTo' \in Nat
            /\ p <= erasedTo' /\ erasedTo' <= SlotLen[board]
            /\ \A c \in DOMAIN flash : flash'[c] \in
                   IF c > erasedTo' THEN {Old} ELSE IF c <= p THEN {c} ELSE {Blank, Pad}
            /\ p = Programmed + Len(block) => \A c \in DOMAIN flash : flash'[c] # Pad
        BY <2>12, <4>2, <4>4, <4>5, Programming, Zenon
      <4> QED BY <4>3, <4>5, <4>6, Zenon
    <3> QED BY <3>1, <3>2, Zenon
  <2>14. SinkTypes'
    <3>1. at' \in Nat /\ Programmed' \in Nat
      BY <2>8
    <3> QED BY <2>1, <2>7, <2>10, <2>11, <2>13, <2>a, <3>1, Zenon DEF SinkInv, SinkTypes
  <2>15. Waiting'
    <3>1. Len(pending') < wordLen
      BY <2>6, <2>7
    <3>2. \A i \in 1 .. Len(pending') : pending'[i] = Programmed' + i
      BY <2>7, <2>8, Zenon
    <3> QED BY <2>11, <2>b, <3>1, <3>2, Zenon DEF Waiting
  <2>16. Described'
    <3>1. Len(desc') = DescLen => payload'.good
      BY <1>2, <2>11, Zenon
    <3> QED BY <2>8, <2>10, <2>f, <3>1, Zenon DEF Described
  <2>17. Unpadded' /\ SlotFaithful'
    BY <2>8, <2>13, Zenon DEF Unpadded, SlotFaithful
  <2>18. board' = "esp32" => payload'.magic
    <3>1. at = 0 \/ at > 0
      BY <2>1
    <3> QED BY <1>2, <2>11, <3>1, Zenon DEF SinkInv
  <2> QED BY <1>0, <1>2, <2>8, <2>11, <2>13, <2>14, <2>15, <2>16, <2>17, <2>18, Zenon DEF SinkInv
<1>3. Capacity[board] \in Nat /\ at \in Nat
  BY SinkAssumption, Zenon DEF SinkInv, SinkTypes
<1>4. at + n <= Capacity[board] \/ at + n > Capacity[board]
  BY <1>3
<1>5. SinkEnds("out of bounds") \/ at + n <= Capacity[board]
  BY <1>4, Zenon DEF SinkWrite
<1> QED BY <1>1, <1>2, <1>5, <1>6, Zenon DEF SinkWrite

\* finish: the last word, padded.
LEMMA SinkFinishStep == SinkInv /\ SinkFinish => SinkInv' \/ FlashFailed'
<1> SUFFICES ASSUME SinkInv, SinkFinish PROVE SinkInv' \/ FlashFailed'
  BY Zenon
<1>0. sinkFate = None /\ None # "done" /\ at = payload.len
  BY SinkAssumption, Zenon DEF SinkFinish
<1>1. CASE \/ SinkEnds("not an image") \/ SinkEnds("out of bounds")
           \/ Len(desc) = DescLen /\ pending = <<>> /\ SinkEnds("done")
  BY <1>0, <1>1, SinkEndsStep, Zenon
<1>2. CASE /\ pending # <<>>
           /\ WriteAligned(pending \o [i \in 1 .. Word[board] - Len(pending) |-> Pad])
           /\ pending' = <<>>
           /\ UNCHANGED <<board, payload, at, desc, sinkFate>>
  <2>1. /\ at \in Nat /\ Programmed \in Nat /\ erasedTo \in Nat /\ pending \in Seq(Nat) /\ desc \in Seq(Nat)
        /\ board \in Boards
    BY Zenon DEF SinkInv, SinkTypes
  <2>2. PICK wordLen \in Nat \ {0} : wordLen = Word[board]
    BY <2>1, SinkAssumption, Zenon
  <2>3. PICK k \in Nat : k = Len(pending) /\ k < wordLen
    BY <2>1, <2>2 DEF SinkInv, Waiting
  <2>4. PICK a \in Nat, from \in Nat : a = at /\ from = Programmed /\ a = from + k
    BY <2>1, <2>3 DEF Programmed
  <2>5. PICK rest \in Nat : rest = wordLen - k
    BY <2>3
  <2>6. PICK pads \in Seq(Int) : /\ pads = [i \in 1 .. rest |-> Pad] /\ Len(pads) = rest
                                 /\ \A i \in 1 .. rest : pads[i] = Pad
    <3>1. Pad \in Int
      BY DEF Pad
    <3>2. /\ [i \in 1 .. rest |-> Pad] \in Seq(Int) /\ Len([i \in 1 .. rest |-> Pad]) = rest
          /\ \A i \in 1 .. rest : [j \in 1 .. rest |-> Pad][i] = Pad
      BY <3>1
    <3> QED BY <3>2, Zenon
  <2>7. PICK wait \in Seq(Int) : wait = pending /\ Len(wait) = k /\ \A i \in 1 .. k : wait[i] = from + i
    <3>1. pending \in Seq(Int)
      BY <2>1
    <3>2. \A i \in 1 .. k : pending[i] = from + i
      BY <2>3, <2>4, Zenon DEF SinkInv, Waiting
    <3> QED BY <2>3, <3>1, <3>2, Zenon
  <2>8. PICK block : block = wait \o pads
    BY Zenon
  <2>9. /\ block \in Seq(Int) /\ Len(block) = k + rest
        /\ \A i \in 1 .. k : block[i] = wait[i]
        /\ \A i \in 1 .. rest : block[k + i] = pads[i]
    <3>1. k = Len(wait) /\ rest = Len(pads)
      BY <2>6, <2>7, Zenon
    <3>2. /\ wait \o pads \in Seq(Int) /\ Len(wait \o pads) = k + rest
          /\ \A i \in 1 .. k : (wait \o pads)[i] = wait[i]
          /\ \A i \in 1 .. rest : (wait \o pads)[k + i] = pads[i]
      BY <3>1, Joined
    <3> QED BY <2>8, <3>2, Zenon
  <2>10. WriteAligned(block)
    BY <1>2, <2>2, <2>3, <2>5, <2>6, <2>7, <2>8, Zenon
  <2>11. ASSUME NEW i \in 1 .. Len(block)
         PROVE  block[i] = IF Programmed + i <= a THEN Programmed + i ELSE Pad
    <3>1. i \in 1 .. k + rest
      BY <2>9, Zenon
    <3>2. CASE i <= k
      BY <2>4, <2>7, <2>9, <3>1, <3>2
    <3>3. CASE i > k
      <4>1. PICK j \in 1 .. rest : i = k + j
        <5>1. i - k \in 1 .. rest /\ i = k + (i - k)
          BY <3>1, <3>3
        <5> QED BY <5>1, Zenon
      <4>2. block[i] = Pad
        BY <2>6, <2>9, <4>1, Zenon
      <4> QED BY <2>4, <3>1, <3>3, <4>2
    <3> QED BY <3>1, <3>2, <3>3
  <2>12. \A c \in DOMAIN flash : flash[c] # Pad
    BY <1>2, Zenon DEF SinkInv, Unpadded
  <2>13. Programmed <= a /\ a <= Programmed + Len(block)
    BY <2>4, <2>9
  <2>14. /\ DOMAIN flash' = DOMAIN flash /\ erasedTo' \in Nat
         /\ a <= erasedTo' /\ erasedTo' <= SlotLen[board]
         /\ \A c \in DOMAIN flash : flash'[c] \in
                IF c > erasedTo' THEN {Old} ELSE IF c <= a THEN {c} ELSE {Blank, Pad}
    BY <2>9, <2>10, <2>11, <2>12, <2>13, Programming, Zenon
  <2>15. /\ board' = board /\ payload' = payload /\ at' = a /\ desc' = desc /\ sinkFate' = None
         /\ pending' = <<>> /\ Len(pending') = 0 /\ pending' \in Seq(Nat)
    BY <1>0, <1>2, <2>4
  <2>16. Programmed' = a
    BY <2>15 DEF Programmed
  <2>17. SinkTypes'
    BY <2>1, <2>14, <2>15, <2>16, Zenon DEF SinkInv, SinkTypes
  <2>18. Waiting'
    BY <2>2, <2>15 DEF Waiting
  <2>19. Described'
    BY <2>4, <2>15, Zenon DEF SinkInv, Described
  <2>20. Unpadded' /\ SlotFaithful'
    BY <1>0, <2>4, <2>14, <2>15, <2>16, Zenon DEF Unpadded, SlotFaithful
  <2> QED BY <1>0, <2>4, <2>14, <2>15, <2>16, <2>17, <2>18, <2>19, <2>20, Zenon DEF SinkInv
<1>3. CASE WriteFails(pending \o [i \in 1 .. Word[board] - Len(pending) |-> Pad])
  <2>1. pending \in Seq(Int) /\ Word[board] \in Nat /\ Len(pending) < Word[board]
    BY SinkAssumption DEF SinkInv, SinkTypes, Waiting
  <2>2. PICK pads \in Seq(Int) : pads = [i \in 1 .. Word[board] - Len(pending) |-> Pad]
    <3>1. PICK rest \in Nat : rest = Word[board] - Len(pending)
      BY <2>1
    <3>2. Pad \in Int
      BY DEF Pad
    <3>3. [i \in 1 .. rest |-> Pad] \in Seq(Int)
      BY <3>2
    <3> QED BY <3>1, <3>3, Zenon
  <2>3. Len(pending \o pads) \in Nat
    BY <2>1, <2>2
  <2> QED BY <1>3, <2>2, <2>3, FailingWrite, Zenon
<1> QED BY <1>1, <1>2, <1>3, Zenon DEF SinkFinish

\* The invariant holds at first.
LEMMA InitSink == SinkInit => SinkInv
<1> SUFFICES ASSUME SinkInit PROVE SinkInv
  BY Zenon
<1>1. /\ board \in Boards /\ payload \in [len : Lengths, magic : BOOLEAN, good : BOOLEAN]
      /\ flash = [c \in 1 .. SlotLen[board] |-> Old]
      /\ at = 0 /\ erasedTo = 0 /\ pending = <<>> /\ desc = <<>> /\ sinkFate = None
      /\ Len(pending) = 0 /\ Len(desc) = 0
  BY Zenon DEF SinkInit
<1>2. /\ Word[board] \in Nat \ {0} /\ Capacity[board] \in Nat /\ SlotLen[board] \in Nat
      /\ DescAt \in Nat /\ DescLen \in Nat \ {0} /\ None # "done"
  BY <1>1, SinkAssumption, Zenon
<1>3. Programmed = 0 - 0
  BY <1>1, Zenon DEF Programmed
<1>4. SinkTypes
  <2>1. Programmed = 0 /\ DOMAIN flash = 1 .. SlotLen[board]
    BY <1>1, <1>3
  <2> QED BY <1>1, <2>1 DEF SinkTypes
<1>5. Waiting /\ Described
  BY <1>1, <1>2 DEF Waiting, Described, Captured
<1>6. Unpadded /\ SlotFaithful
  BY <1>1, <1>2 DEF Unpadded, SlotFaithful, Old, Pad
<1> QED BY <1>1, <1>2, <1>3, <1>4, <1>5, <1>6 DEF SinkInv

\* The invariant is strong enough.
LEMMA SinkInvFaithful == SinkInv => SinkFaithful
<1> SUFFICES ASSUME SinkInv PROVE SinkFaithful
  BY Zenon
<1>1. \A c \in DOMAIN flash : flash[c] \in
          IF c > erasedTo THEN {Old} ELSE IF c <= Programmed THEN {c} ELSE {Blank, Pad}
  BY Zenon DEF SinkInv, SlotFaithful
<1>3. ASSUME NEW c \in DOMAIN flash
      PROVE  /\ c <= Programmed => flash[c] = c
             /\ c > Programmed /\ c <= erasedTo /\ sinkFate # "flash" => flash[c] \in {Blank, Pad}
             /\ c > (IF sinkFate = "flash" THEN erasedTo + Sector ELSE erasedTo) => flash[c] = Old
  <2>1. /\ c \in Nat \ {0} /\ Programmed \in Nat /\ erasedTo \in Nat /\ Programmed <= erasedTo
        /\ Sector \in Nat
    <3>1. DOMAIN flash = 1 .. SlotLen[board] /\ SlotLen[board] \in Nat
      BY SinkAssumption, Zenon DEF SinkInv, SinkTypes
    <3> QED BY <3>1, SinkAssumption DEF SinkInv, SinkTypes
  <2>2. flash[c] \in IF c > erasedTo THEN {Old} ELSE IF c <= Programmed THEN {c} ELSE {Blank, Pad}
    BY <1>1, Zenon
  <2>3. PICK from \in Nat, to \in Nat, size \in Nat : from = Programmed /\ to = erasedTo /\ size = Sector
    BY <2>1, Zenon
  <2>4. c > (IF sinkFate = "flash" THEN to + size ELSE to) => c > to
    BY <2>1
  <2> QED BY <2>1, <2>2, <2>3, <2>4
<1>2. ASSUME sinkFate = "done"
      PROVE  /\ \A c \in 1 .. payload.len : flash[c] = c
             /\ desc = [i \in 1 .. DescLen |-> DescAt + i]
             /\ payload.good /\ payload.len <= Capacity[board]
             /\ board = "esp32" => payload.magic
  <2>1. /\ at = payload.len /\ pending = <<>> /\ Len(desc) = DescLen /\ at <= Capacity[board]
        /\ at \in Nat /\ erasedTo \in Nat /\ desc \in Seq(Nat)
        /\ Programmed <= erasedTo /\ erasedTo <= SlotLen[board] /\ DOMAIN flash = 1 .. SlotLen[board]
        /\ SlotLen[board] \in Nat /\ DescLen \in Nat
    BY <1>2, SinkAssumption, Zenon DEF SinkInv, SinkTypes
  <2>2. Programmed = at
    BY <2>1 DEF Programmed
  <2>3. \A c \in 1 .. payload.len : flash[c] = c
    <3> TAKE c \in 1 .. payload.len
    <3>1. c \in DOMAIN flash /\ c <= erasedTo /\ c <= Programmed
      BY <2>1, <2>2
    <3>2. flash[c] \in IF c > erasedTo THEN {Old} ELSE IF c <= Programmed THEN {c} ELSE {Blank, Pad}
      BY <1>1, <3>1, Zenon
    <3>3. ~(c > erasedTo)
      BY <2>1, <3>1
    <3> QED BY <3>1, <3>2, <3>3, Zenon
  <2>4. desc = [i \in 1 .. DescLen |-> DescAt + i]
    <3>1. \A i \in 1 .. DescLen : desc[i] = DescAt + i
      BY <2>1, Zenon DEF SinkInv, Described
    <3>2. DOMAIN desc = 1 .. DescLen /\ desc = [i \in DOMAIN desc |-> desc[i]]
      BY <2>1
    <3> QED BY <3>1, <3>2, Zenon
  <2>5. payload.good
    BY <2>1, Zenon DEF SinkInv, Described
  <2>6. at > 0
    BY <2>1, SinkAssumption DEF SinkInv, Described, Captured
  <2> QED BY <2>1, <2>3, <2>4, <2>5, <2>6, Zenon DEF SinkInv
<1> QED BY <1>2, <1>3, Zenon DEF SinkFaithful

(* For every word and sector size, slot and image length, and every way the     *)
(* image is cut into pieces, the sinks program the image unit for unit, over     *)
(* erased cells only, and take the description from its place; a failing erase   *)
(* or write spoils at most the next sector.                                      *)
THEOREM SpecSinkFaithful == SinkSpec => []SinkFaithful
<1>1. SinkInit => SinkInv
  BY InitSink, Zenon
<1>2. (SinkInv \/ FlashFailed) /\ [SinkNext]_sinkVars => (SinkInv \/ FlashFailed)'
  <2>0. ASSUME FlashFailed, [SinkNext]_sinkVars PROVE FlashFailed'
    <3>1. UNCHANGED sinkVars
      BY <2>0, SinkAssumption, Zenon DEF FlashFailed, SinkNext, SinkFinish, SinkWrite
    <3> QED BY <2>0, <3>1, Zenon DEF FlashFailed, sinkVars, Programmed
  <2> SUFFICES ASSUME SinkInv, [SinkNext]_sinkVars PROVE SinkInv' \/ FlashFailed'
    BY <2>0, Zenon
  <2>1. CASE SinkFinish
    BY <2>1, SinkFinishStep, Zenon
  <2>2. CASE \E n \in 1 .. Sector + 1 : SinkWrite(n)
    <3>1. PICK n \in 1 .. Sector + 1 : SinkWrite(n)
      BY <2>2, Zenon
    <3>2. n \in Nat \ {0}
      BY SinkAssumption
    <3> QED BY <3>1, <3>2, SinkWriteStep, Zenon
  <2>3. CASE UNCHANGED sinkVars
    BY <2>3, Zenon DEF sinkVars, SinkInv, SinkTypes, Waiting, Described, Unpadded, SlotFaithful, Programmed
  <2> QED BY <2>1, <2>2, <2>3, Zenon DEF SinkNext
<1>3. SinkInv \/ FlashFailed => SinkFaithful
  <2>1. FlashFailed => /\ sinkFate = "flash" /\ sinkFate # "done"
                       /\ \A c \in DOMAIN flash : /\ c <= Programmed => flash[c] = c
                                                  /\ c > erasedTo + Sector => flash[c] = Old
    BY DEF FlashFailed
  <2>2. ASSUME FlashFailed PROVE SinkFaithful
    <3>1. (IF sinkFate = "flash" THEN erasedTo + Sector ELSE erasedTo) = erasedTo + Sector
      BY <2>1, <2>2, Zenon
    <3>2. ASSUME NEW c \in DOMAIN flash
          PROVE  /\ c <= Programmed => flash[c] = c
                 /\ c > Programmed /\ c <= erasedTo /\ sinkFate # "flash" => flash[c] \in {Blank, Pad}
                 /\ c > (IF sinkFate = "flash" THEN erasedTo + Sector ELSE erasedTo) => flash[c] = Old
      <4>1. c > erasedTo + Sector => flash[c] = Old
        BY <2>1, <2>2, Zenon
      <4>2. c > (IF sinkFate = "flash" THEN erasedTo + Sector ELSE erasedTo) => flash[c] = Old
        BY <3>1, <4>1
      <4> QED BY <2>1, <2>2, <4>2, Zenon
    <3> QED BY <2>1, <2>2, <3>2, Zenon DEF SinkFaithful
  <2> QED BY <2>2, SinkInvFaithful, Zenon
<1> QED BY <1>1, <1>2, <1>3, PTL DEF SinkSpec
===============================================================================
