------------------------------ MODULE Stm32Update -----------------------------
(* Firmware update of the STM32 board across power loss: Embassy Boot's state   *)
(* word, the ACTIVE and DFU partitions, the boot-time bookkeeping, the trial    *)
(* and its confirmation, the shell's update and the configuration record.  The  *)
(* bootloader is external: it swaps the partitions power-fail-safely when the   *)
(* state says Swap, and swaps them back when it finds a trial never confirmed.  *)
EXTENDS Naturals, Sequences

CONSTANTS
    StmImages,    \* images an operator may install, in this order
    MaxResets     \* bound: power losses

ASSUME StmAssumption == StmImages \in Seq(STRING \ {"partial"})

VARIABLES
    active, dfu,  \* the images in the partitions; "partial" is none
    word,         \* the state word: "boot", "swap" or "revert"
    swapped,      \* Embassy Boot's progress: the swap for this word is done
    stage2,       \* "off", "loading", "starting", "serving", "receiving", "storing"
    onTrial,      \* FirmwareStatus.trial
    record,       \* the configuration record: "good" or "none"
    shipped,      \* images offered so far
    healthy,      \* history: images that passed a trial, and the first one
    resets

stmVars == <<active, dfu, word, swapped, stage2, onTrial, record, shipped, healthy, resets>>

\* The bootloader.
StmBoot ==
    /\ stage2 = "off" /\ stage2' = "loading"
    /\ IF word = "swap"
       THEN /\ active' = dfu /\ dfu' = active
            /\ swapped' = ~swapped
            /\ word' = IF swapped THEN "revert" ELSE word
       ELSE UNCHANGED <<active, dfu, swapped, word>>
    /\ UNCHANGED <<onTrial, record, shipped, healthy, resets>>

StmReset == stage2' = "off" /\ onTrial' = FALSE

\* Mutant: a swapped image is taken for a confirmed one.
TrialWhenReverted(w) == w = "revert"

\* FirmwareStatus.trial for a state word.
IsTrial(w) == w = "swap"

\* prepare_firmware_boot; a state that cannot be read resets the board.
StmPrepare ==
    /\ stage2 = "loading"
    /\ \/ StmReset /\ UNCHANGED <<word, swapped>>
       \/ /\ stage2' = "starting"
          /\ onTrial' = IsTrial(word)
          /\ word' = IF word = "revert" THEN "boot" ELSE word
          /\ swapped' = IF word = "revert" THEN FALSE ELSE swapped
    /\ UNCHANGED <<active, dfu, record, shipped, healthy, resets>>

\* main: a trial without a configuration, without a tunnel in time, or that cannot
\* be confirmed, resets; the shell starts after confirm_firmware_boot.
StmStart ==
    /\ stage2 = "starting"
    /\ \/ onTrial /\ StmReset /\ UNCHANGED <<word, swapped, healthy>>
       \/ /\ onTrial => record = "good"
          /\ stage2' = "serving" /\ onTrial' = FALSE
          /\ IF onTrial
             THEN word' = "boot" /\ swapped' = FALSE /\ healthy' = healthy \cup {active}
             ELSE UNCHANGED <<word, swapped, healthy>>
    /\ UNCHANGED <<active, dfu, record, shipped, resets>>

\* receive_firmware_update: refused unless the running image is confirmed.
StmBeginUpdate ==
    /\ stage2 = "serving" /\ shipped< Len(StmImages)
    /\ shipped' = shipped + 1
    /\ IF word # "boot" THEN UNCHANGED <<stage2, dfu>>
       ELSE stage2' = "receiving" /\ dfu' = "partial"
    /\ UNCHANGED <<active, word, swapped, onTrial, record, healthy, resets>>

\* The transfer or a check fails; or mark_firmware_updated and a reboot.
StmReceived ==
    /\ stage2 = "receiving"
    /\ \/ stage2' = "serving" /\ UNCHANGED <<dfu, word, swapped, onTrial>>
       \/ /\ dfu' = StmImages[shipped]
          /\ \/ word' = "swap" /\ swapped' = FALSE /\ StmReset
             \/ stage2' = "serving" /\ UNCHANGED <<word, swapped, onTrial>>
    /\ UNCHANGED <<active, record, shipped, healthy, resets>>

\* store_config, and the button that erases the configuration.
StmErase ==
    /\ stage2 \in {"starting", "serving"}
    /\ record' = "none"
    /\ \/ stage2 = "serving" /\ stage2' = "storing" /\ UNCHANGED onTrial
       \/ record = "good" /\ StmReset
    /\ UNCHANGED <<active, dfu, word, swapped, shipped, healthy, resets>>

StmStore ==
    /\ stage2 = "storing"
    /\ \/ record' = "good" /\ StmReset
       \/ stage2' = "serving" /\ UNCHANGED <<record, onTrial>>
    /\ UNCHANGED <<active, dfu, word, swapped, shipped, healthy, resets>>

StmLosePower ==
    /\ stage2 # "off" /\ resets < MaxResets
    /\ resets' = resets + 1
    /\ StmReset
    /\ UNCHANGED <<active, dfu, word, swapped, record, shipped, healthy>>

StmInit ==
    /\ active = "first" /\ dfu = "partial" /\ word = "boot" /\ swapped = FALSE
    /\ stage2 = "off" /\ onTrial = FALSE /\ record \in {"good", "none"}
    /\ shipped = 0 /\ healthy = {"first"} /\ resets = 0

StmNext ==
    \/ StmBoot \/ StmPrepare \/ StmStart \/ StmBeginUpdate \/ StmReceived
    \/ StmErase \/ StmStore \/ StmLosePower

StmSpec == StmInit /\ [][StmNext]_stmVars

-------------------------------------------------------------------------------
(* What runs is whole; while it is unproven the partition the bootloader would  *)
(* go back to holds a proven image; the shell runs only proven images, and an   *)
(* operator at the shell is never refused an update for a trial that is over.   *)
SafeSwap ==
    /\ active # "partial"
    /\ active \notin healthy => word = "swap" /\ swapped /\ dfu \in healthy
    /\ word = "swap" /\ ~swapped => dfu # "partial" /\ active \in healthy
    /\ stage2 \in {"serving", "receiving", "storing"} => active \in healthy /\ word = "boot"
===============================================================================
