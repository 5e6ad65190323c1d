------------------------------- MODULE EspUpdate ------------------------------
(* Firmware update of the ESP32 boards across power loss: the two OTA slots and *)
(* the two otadata entries, the shell's update, the boot-time bookkeeping, the  *)
(* trial and its confirmation, and the configuration record that shares the     *)
(* flash behind one lock.  An otadata write erases the entry before it programs *)
(* it.  The bootloader and the OTA crate are external: modelled from what the   *)
(* code and its comments rely on.                                               *)
EXTENDS Naturals, Sequences, Optional

CONSTANTS
    NewImages,   \* images an operator may install, in this order
    MaxSeq,      \* bound: otadata sequence numbers
    MaxLosses    \* bound: power losses

\* An otadata entry: what selects it, and its OtaImageState.
OtaStates == {"undefined", "new", "pending", "valid", "aborted"}
Entries == [seq : Nat, state : OtaStates]

ASSUME EspAssumption ==
    /\ NewImages \in Seq(STRING \ {"partial"})
    /\ None \notin {0, 1} \cup [e : {0, 1}, val : Entries]

VARIABLES
    ota,         \* otadata: entry -> [seq, state]; seq 0 is erased
    slots,       \* slot -> image, or "partial"
    booted,      \* the running slot, or None without power
    doing,       \* what the application does
    trial,       \* FirmwareStatus.trial
    todo,        \* otadata operations to come
    writing,     \* the entry value a begun write will program, or None
    settings,    \* the configuration: "good" or "none"
    offered,     \* images offered so far
    proven,      \* history: images that passed a trial, and the first one
    failed,      \* history: "prepare" and "arming" if that ever met a flash error
    astray,      \* history: an update began while otadata selected the other slot
    losses

espVars == <<ota, slots, booted, doing, trial, todo, writing, settings, offered, proven, failed,
            astray, losses>>

Ids01 == {0, 1}
Erased == [seq |-> 0, state |-> "undefined"]

\* The entry the crate goes by, and the one it writes next (prime_next_ota_state
\* mirrors this choice).
CurrentEntry ==
    IF ota[0].seq = 0 /\ ota[1].seq = 0 THEN 0
    ELSE IF ota[0].seq # 0 /\ (ota[1].seq = 0 \/ ota[0].seq > ota[1].seq) THEN 0 ELSE 1

NoSelection == ota[0].seq = 0 /\ ota[1].seq = 0
SlotOf(e) == (ota[e].seq - 1) % 2
SelectedIs(s) == ~NoSelection /\ SlotOf(CurrentEntry) = s

\* The bootloader: a slot still pending at a reset is given up; of the other
\* entries the highest counts; erased otadata means ota_0.
Reviewed == [e \in Ids01 |->
    IF ota[e].state = "pending" THEN [ota[e] EXCEPT !.state = "aborted"] ELSE ota[e]]
Candidates == {e \in Ids01 : Reviewed[e].seq # 0 /\ Reviewed[e].state # "aborted"}
BootEntry == CHOOSE e \in Candidates : \A f \in Candidates : Reviewed[f].seq <= Reviewed[e].seq
BootSlot == IF Candidates = {} THEN 0 ELSE SlotOf(BootEntry)

\* What an operation on otadata leaves in which entry.  The sequence number is bumped
\* to the next one that selects the slot.
SetCurrent(s) ==
    LET n == ota[CurrentEntry].seq
    IN  [e |-> 1 - CurrentEntry,
         val |-> [ota[1 - CurrentEntry] EXCEPT !.seq = IF n % 2 = s THEN n + 1 ELSE n + 2]]
SetState(st) == [e |-> CurrentEntry, val |-> [ota[CurrentEntry] EXCEPT !.state = st]]
Prime == [e |-> 1 - CurrentEntry, val |-> [ota[1 - CurrentEntry] EXCEPT !.state = "new"]]

WriteOf(op) ==
    CASE op = "seed"     -> SetCurrent(booted)
      [] op = "prime"    -> Prime
      [] op = "activate" -> SetCurrent(1 - booted)
      [] op = "new"      -> SetState("new")
      [] OTHER           -> SetState("valid")

-------------------------------------------------------------------------------
Boot ==
    /\ booted = None
    /\ booted' = BootSlot
    /\ ota' = IF Candidates # {} /\ Reviewed[BootEntry].state = "new"
              THEN [Reviewed EXCEPT ![BootEntry].state = "pending"] ELSE Reviewed
    /\ doing' = "loading"
    /\ UNCHANGED <<slots, trial, todo, writing, settings, offered, proven, failed, astray, losses>>

\* prepare_firmware_ota: erased otadata is seeded with the running slot; if otadata
\* cannot be read, or seeded, the boot goes on without a trial.
Prepare ==
    /\ doing = "loading"
    /\ \/ /\ todo = <<>> /\ NoSelection
          /\ todo' = <<"seed", "valid">>
          /\ UNCHANGED <<doing, trial, writing, failed>>
       \/ /\ todo = <<>> /\ ~NoSelection
          /\ trial' = (ota[CurrentEntry].state \in {"new", "pending"})
          /\ doing' = "starting"
          /\ UNCHANGED <<todo, writing, failed>>
       \/ /\ trial' = FALSE /\ doing' = "starting" /\ failed' = failed \cup {"prepare"}
          /\ todo' = <<>> /\ writing' = None
    /\ UNCHANGED <<ota, slots, booted, settings, offered, proven, astray, losses>>

\* A write of otadata by the storage layer: the entry is erased, and then programmed.
BeginWrite ==
    /\ booted # None /\ todo # <<>> /\ writing = None
    /\ ota[CurrentEntry].seq < MaxSeq
    /\ writing' = WriteOf(Head(todo))
    /\ ota' = [ota EXCEPT ![WriteOf(Head(todo)).e] = Erased]
    /\ UNCHANGED <<slots, booted, doing, trial, todo, settings, offered, proven, failed, astray, losses>>

EndWrite ==
    /\ writing # None
    /\ ota' = [ota EXCEPT ![writing.e] = writing.val]
    /\ writing' = None
    /\ todo' = Tail(todo)
    /\ UNCHANGED <<slots, booted, doing, trial, settings, offered, proven, failed, astray, losses>>

Reset ==
    /\ booted' = None /\ doing' = "off" /\ trial' = FALSE /\ todo' = <<>> /\ writing' = None

\* main: a trial image without configuration, or without a tunnel in time, resets;
\* one that survives is confirmed; only then does the shell start.
Start ==
    /\ doing = "starting"
    /\ IF ~trial
       THEN doing' = "serving" /\ UNCHANGED <<booted, trial, todo, writing, proven>>
       ELSE \/ Reset /\ UNCHANGED proven
            \/ /\ settings = "good"
               /\ doing' = "confirming" /\ todo' = <<"valid">>
               /\ proven' = proven \cup {slots[booted]}
               /\ UNCHANGED <<booted, trial, writing>>
    /\ UNCHANGED <<ota, slots, settings, offered, failed, astray, losses>>

\* confirm_firmware_ota is done, or failed in any place: then the board resets.
Confirmed ==
    /\ doing = "confirming"
    /\ \/ /\ todo = <<>>
          /\ doing' = "serving" /\ trial' = FALSE /\ UNCHANGED <<booted, todo, writing>>
       \/ Reset
    /\ UNCHANGED <<ota, slots, settings, offered, proven, failed, astray, losses>>

\* receive_firmware_update: EspOtaSink erases and writes the slot that does not run,
\* whichever one otadata selects.
BeginUpdate ==
    /\ doing = "serving" /\ offered < Len(NewImages)
    /\ doing' = "receiving"
    /\ offered' = offered + 1
    /\ astray' = (astray \/ ~SelectedIs(booted))
    /\ slots' = [slots EXCEPT ![1 - booted] = "partial"]
    /\ UNCHANGED <<ota, booted, trial, todo, writing, settings, proven, failed, losses>>

\* Mutant: the slot is selected first and marked NEW after.
InstallActivateFirst == <<"activate", "new">>

\* The order of the otadata operations that arm the new slot.
Install == <<"prime", "activate", "new">>

\* The transfer fails, or the image is verified and read back.
Received ==
    /\ doing = "receiving" /\ todo = <<>>
    /\ \/ doing' = "serving" /\ UNCHANGED <<slots, todo>>
       \/ /\ slots' = [slots EXCEPT ![1 - booted] = NewImages[offered]]
          /\ doing' = "arming"
          /\ todo' = Install
    /\ UNCHANGED <<ota, booted, trial, writing, settings, offered, proven, failed, astray, losses>>

\* Armed: the shell reboots the board.  A flash operation that failed, before or after
\* it erased an entry, leaves the rest undone and returns to the shell.
Armed ==
    /\ doing = "arming" /\ todo = <<>>
    /\ Reset
    /\ UNCHANGED <<ota, slots, settings, offered, proven, failed, astray, losses>>

ArmingFails ==
    /\ doing = "arming" /\ todo # <<>>
    /\ doing' = "serving" /\ todo' = <<>> /\ writing' = None
    /\ failed' = failed \cup {"arming"}
    /\ UNCHANGED <<ota, slots, booted, trial, settings, offered, proven, astray, losses>>

\* store_config: erase, then write and read back, then reboot; the operator's
\* button erases the record whenever nobody holds the flash, and reboots.
EraseSettings ==
    /\ doing \in {"starting", "serving"}
    /\ settings' = "none"
    /\ \/ doing = "serving" /\ doing' = "storing" /\ UNCHANGED <<booted, trial, todo, writing>>
       \/ settings = "good" /\ Reset
    /\ UNCHANGED <<ota, slots, offered, proven, failed, astray, losses>>

StoreSettings ==
    /\ doing = "storing"
    /\ \/ settings' = "good" /\ Reset
       \/ doing' = "serving" /\ UNCHANGED <<settings, booted, trial, todo, writing>>
    /\ UNCHANGED <<ota, slots, offered, proven, failed, astray, losses>>

\* Power is lost, or the watchdog or a panic resets the board, anywhere.
LosePower ==
    /\ booted # None /\ losses < MaxLosses
    /\ losses' = losses + 1
    /\ Reset
    /\ UNCHANGED <<ota, slots, settings, offered, proven, failed, astray>>

\* A board fresh from the factory runs ota_0 with otadata erased; one that was
\* updated before runs ota_1, the first image in ota_0 and marked valid.
EspInit ==
    /\ \/ /\ ota = [e \in Ids01 |-> Erased]
          /\ slots = [s \in Ids01 |-> IF s = 0 THEN "first" ELSE "partial"]
       \/ /\ ota = [e \in Ids01 |-> [seq |-> 2 - e, state |-> "valid"]]
          /\ slots = [s \in Ids01 |-> IF s = 0 THEN "first" ELSE "second"]
    /\ booted = None /\ doing = "off" /\ trial = FALSE /\ todo = <<>> /\ writing = None
    /\ settings = "good" /\ offered = 0 /\ proven = {"first", "second"}
    /\ failed = {} /\ astray = FALSE /\ losses = 0

EspNext ==
    \/ Boot \/ Prepare \/ BeginWrite \/ EndWrite \/ Start \/ Confirmed \/ BeginUpdate
    \/ Received \/ Armed \/ ArmingFails \/ EraseSettings \/ StoreSettings \/ LosePower

EspSpec == EspInit /\ [][EspNext]_espVars

-------------------------------------------------------------------------------
WholeImage == slots[BootSlot] # "partial"

\* An image nobody has proven is booted as NEW, so that a reset in its trial goes back.
TrialFirst == slots[BootSlot] \notin proven => Candidates # {} /\ Reviewed[BootEntry].state = "new"

ProvenServes == doing = "serving" => slots[booted] \in proven

(* Whatever happens during updates, and wherever power is lost, the middle of an *)
(* otadata write included, the next boot finds a whole image, one that has not   *)
(* passed a trial is booted on trial, and only a proven one runs the shell.      *)
(* Excepted are a boot whose prepare_firmware_ota failed, which forgets that it  *)
(* is a trial, and updates that begin while otadata selects the slot that does   *)
(* not run, after a rollback or a failed activation (see PowerFailSafe).         *)
SafeWhileSelected == "prepare" \in failed \/ astray \/ (WholeImage /\ TrialFirst /\ ProvenServes)

(* Without a flash error an unproven image is booted on trial only, after a      *)
(* rollback as well: the partition table says that the inactive slot is for      *)
(* "power-fail-safe shell OTA".  It does not hold: after a rollback              *)
(* prime_next_ota_state takes the entry of the running image for the free one,   *)
(* and power lost between its erase and its write leaves nothing selected: ota_0 *)
(* boots, unproven, to stay.                                                     *)
PowerFailSafe == failed = {} => TrialFirst
===============================================================================
