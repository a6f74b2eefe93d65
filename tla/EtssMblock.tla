------------------------------ MODULE EtssMblock ------------------------------
(***************************************************************************)
(* The header arithmetic of the ETSS metadata blocks                       *)
(* (etss_flash_fs_mblock.c): the 8-bit swap count that orders the two      *)
(* metadata blocks, its wrap around the erase value of the flash, and the  *)
(* choice of the most recent of two valid headers.                         *)
(*                                                                         *)
(* SwapMod is the number of values of the counter (2^8 in the code),       *)
(* EraseVal what a byte of an erased block reads as.                       *)
(***************************************************************************)
EXTENDS Integers

CONSTANTS SwapMod, EraseVal

ASSUME SwapAssumption ==
    /\ SwapMod \in Nat
    /\ SwapMod >= 4
    /\ EraseVal \in {0, SwapMod - 1}

(* active_swap_count is a uint8_t. *)
SwapCount == 0 .. SwapMod - 1

(* uint8_t increment, which wraps to 0. *)
Inc(s) == IF s = SwapMod - 1 THEN 0 ELSE s + 1

(* A swap count equal to the erase value was never programmed. *)
ValidSwapCount(s) == s # EraseVal

PlainIncrement(s) == Inc(s)

(* The count that the next header carries: the erase value is skipped. *)
NextSwap(s) == IF ValidSwapCount(Inc(s)) THEN Inc(s) ELSE Inc(Inc(s))

(* The first count after the counter has wrapped. *)
RolloverVal == IF EraseVal = 0 THEN 1 ELSE 0

LargerSwap(s0, s1) == IF s1 > s0 THEN 1 ELSE 0

(* The metadata block taken as the latest when both headers are valid. *)
LatestMetaBlock(s0, s1) ==
    IF s1 = RolloverVal /\ s0 # RolloverVal + 1 THEN 1
    ELSE IF s0 = RolloverVal /\ s1 # RolloverVal + 1 THEN 0
    ELSE IF s1 > s0 THEN 1 ELSE 0

(* ETSS_OTHER_META_BLOCK *)
Other(b) == 1 - b
===============================================================================
