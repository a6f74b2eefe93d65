---------------------------- MODULE EtssMetaCommit ----------------------------
(***************************************************************************)
(* The power-fail-safe update protocol of the ETSS flash file system       *)
(* (etss_flash_fs_mblock.c and its callers).  Two metadata blocks take     *)
(* turns as active and scratch; one data block is kept spare.  An update   *)
(* writes the changed data block into the spare one and the whole new      *)
(* metadata into the scratch metadata block, commits by programming the    *)
(* metadata header, whose swap count comes last, and then erases the old   *)
(* metadata block and the old data block, in that order.                   *)
(*                                                                         *)
(* A power failure may come before, after or in the middle of every flash  *)
(* operation, and a read of a metadata header may fail, which the code     *)
(* takes for an update that was not completed.  Which files the blocks     *)
(* hold is left to EtssFlashFs: here the metadata is a version number and, *)
(* per logical data block, where its data is and which update wrote it.    *)
(***************************************************************************)
EXTENDS EtssMblock

CONSTANTS
    NumBlocks,      \* physical blocks of the file system (cfg->num_blocks)
    MaxVersion      \* bound: updates started, so that TLC terminates

ASSUME NumBlocksAssumption == NumBlocks \in Nat /\ NumBlocks >= 4

ASSUME MaxVersionAssumption == MaxVersion \in Nat

MetaBlock == {0, 1}
LBlock == 1 .. NumBlocks - 3             \* the dedicated logical data blocks
DBlock == 2 .. NumBlocks - 1             \* the physical blocks that hold data

Erased == 0                              \* content of an erased data block
Garbage == -1                            \* programmed twice, or half erased

VARIABLES
    mblk,       \* flash: the two metadata blocks
    dat,        \* flash: the update whose data each data block holds
    ctx,        \* RAM: active block, swap count, spare data block
    upd,        \* RAM: logical block being rewritten (0: none), its new data
    pc,         \* RAM: where the running call of the file system stands
    issued,     \* history: updates started so far
    committed,  \* history: the last update whose header was programmed and
                \* which was not erased for want of reading that header
    missed      \* history: the block kept by the running start or wipe is
                \* not the latest, as the latest header could not be read

vars == <<mblk, dat, ctx, upd, pc, issued, committed, missed>>

-------------------------------------------------------------------------------
(* Metadata blocks *)

(* etss_init_dblock_start, etss_init_scratch_dblock: a fresh layout keeps  *)
(* block 2 spare and gives logical block l the physical block l + 2.       *)
InitScratch == 2
InitPhy == [l \in LBlock |-> l + 2]

ErasedMeta == [fs_version |-> FALSE, swap |-> EraseVal, xor |-> FALSE,
               scratch |-> InitScratch, phy |-> InitPhy,
               data |-> [l \in LBlock |-> Erased], ver |-> Erased]

(* etss_mblock_validate_header_meta: version known, swap count programmed, *)
(* XOR of the metadata as recorded in the header.                          *)
ValidHeader(h) == h.fs_version /\ ValidSwapCount(h.swap) /\ h.xor

(* etss_init_get_active_metablock: a header that cannot be read counts as  *)
(* one that is not valid.                                                  *)
Found(readable, b) == b \in readable /\ ValidHeader(mblk[b])

SomeFound(readable) == \E b \in MetaBlock : Found(readable, b)

(* The block that is valid, or the latest of two. *)
ActiveAmong(readable) ==
    IF Found(readable, 0) /\ Found(readable, 1)
      THEN LatestMetaBlock(mblk[0].swap, mblk[1].swap)
      ELSE IF Found(readable, 0) THEN 0 ELSE 1

SomeValid == SomeFound(MetaBlock)
ActiveMetaBlock == ActiveAmong(MetaBlock)

(* Programming flash that is not erased mixes the two contents. *)
Program(old, new) == IF old = Erased THEN new ELSE Garbage

-------------------------------------------------------------------------------
Init ==
    /\ mblk = [b \in MetaBlock |-> ErasedMeta]
    /\ dat = [d \in DBlock |-> Erased]
    /\ ctx = [active |-> 0, swap |-> 0, scratch |-> InitScratch]
    /\ upd = [lblock |-> 0, phy |-> InitScratch, data |-> Erased]
    /\ pc = "prepare"
    /\ issued = 0
    /\ committed = 0
    /\ missed = FALSE

(* etss_flash_fs_mblock_init: find the active block among those whose      *)
(* header can be read and load its header.  With no valid header the       *)
(* caller of prepare falls back on wipe_all.                               *)
Prepare ==
    /\ pc = "prepare"
    /\ \E readable \in SUBSET MetaBlock :
         LET a == ActiveAmong(readable)
         IN  IF SomeFound(readable)
               THEN /\ ctx' = [active |-> a, swap |-> mblk[a].swap,
                               scratch |-> mblk[a].scratch]
                    /\ missed' = (ActiveMetaBlock \notin readable)
                    /\ pc' = "boot_erase_meta"
               ELSE pc' = "wipe_start" /\ UNCHANGED <<ctx, missed>>
    /\ UNCHANGED <<mblk, dat, upd, issued, committed>>

(* Any other flash error inside prepare (the initialisation, loading the   *)
(* chosen header, the two erases) also ends in wipe_all, as                *)
(* ETSS_CREATE_FLASH_LAYOUT is set by default.                             *)
PrepareFails ==
    /\ pc \in {"prepare", "boot_erase_meta", "boot_erase_data"}
    /\ pc' = "wipe_start"
    /\ missed' = FALSE
    /\ UNCHANGED <<mblk, dat, ctx, upd, issued, committed>>

(* The last commit once the block other than ctx.active has been erased:   *)
(* unless the latest header could not be read, that block is not it.       *)
Kept ==
    IF ~missed THEN committed
    ELSE IF ValidHeader(mblk[ctx.active]) THEN mblk[ctx.active].ver ELSE 0

(* etss_mblock_erase_scratch_blocks, the metadata block first.  The same   *)
(* function ends an update and mblock_init.                                *)
EraseMeta ==
    /\ \/ pc = "erase_meta" /\ pc' = "erase_data"
       \/ pc = "boot_erase_meta" /\ pc' = "boot_erase_data"
    /\ mblk' = [mblk EXCEPT ![Other(ctx.active)] = ErasedMeta]
    /\ committed' = Kept
    /\ missed' = FALSE
    /\ UNCHANGED <<dat, ctx, upd, issued>>

EraseNewData ==
    /\ pc \in {"erase_data", "boot_erase_data"}
    /\ dat' = [dat EXCEPT ![upd.phy] = Erased]
    /\ pc' = "ready"
    /\ UNCHANGED <<mblk, ctx, upd, issued, committed, missed>>

EraseData ==
    /\ pc \in {"erase_data", "boot_erase_data"}
    /\ dat' = [dat EXCEPT ![ctx.scratch] = Erased]
    /\ pc' = "ready"
    /\ UNCHANGED <<mblk, ctx, upd, issued, committed, missed>>

-------------------------------------------------------------------------------
(* An update *)

(* etss_flash_fs_dblock_write_file or _compact_block into the spare block, *)
(* which then becomes the block of l; the old one becomes the spare one in *)
(* the RAM copy of the header (etss_flash_fs_mblock_set_data_scratch).     *)
WriteData(l) ==
    /\ pc = "ready"
    /\ issued < MaxVersion
    /\ issued' = issued + 1
    /\ dat' = [dat EXCEPT ![ctx.scratch] = Program(@, issued + 1)]
    /\ upd' = [lblock |-> l, phy |-> ctx.scratch, data |-> issued + 1]
    /\ ctx' = [ctx EXCEPT !.scratch = mblk[ctx.active].phy[l]]
    /\ pc' = "metadata"
    /\ UNCHANGED <<mblk, committed, missed>>

(* An update of data that lives in the metadata block (logical block 0),   *)
(* or of no data at all: no dedicated block moves.                         *)
WriteNoData ==
    /\ pc = "ready"
    /\ issued < MaxVersion
    /\ issued' = issued + 1
    /\ upd' = [lblock |-> 0, phy |-> ctx.scratch, data |-> Erased]
    /\ pc' = "metadata"
    /\ UNCHANGED <<mblk, dat, ctx, committed, missed>>

(* etss_flash_fs_mblock_update_scratch_block_meta, _update_scratch_file_meta, *)
(* _cp_file_meta and _migrate_lb0_data_to_scratch: everything but the header. *)
WriteMetadata ==
    LET s == Other(ctx.active)
        old == mblk[ctx.active]
    IN  /\ pc = "metadata"
        /\ mblk' = [mblk EXCEPT ![s] =
             [mblk[s] EXCEPT
               !.phy = [l \in LBlock |-> IF l = upd.lblock THEN upd.phy
                                                           ELSE old.phy[l]],
               !.data = [l \in LBlock |-> IF l = upd.lblock THEN upd.data
                                                            ELSE old.data[l]],
               !.ver = Program(mblk[s].ver, issued)]]
        /\ pc' = "header"
        /\ UNCHANGED <<dat, ctx, upd, issued, committed, missed>>

(* etss_mblock_write_scratch_meta_header and swap_metablocks: the commit.  *)
(* The XOR is computed from what the flash holds, so it always matches.    *)
ProgramHeader(s) ==
    [mblk EXCEPT ![s] = [@ EXCEPT !.fs_version = TRUE, !.xor = TRUE,
                                  !.swap = NextSwap(ctx.swap),
                                  !.scratch = ctx.scratch]]

WriteHeader ==
    LET s == Other(ctx.active)
    IN  /\ pc \in {"header", "wipe_header"}
        /\ mblk' = ProgramHeader(s)
        /\ ctx' = [ctx EXCEPT !.active = s, !.swap = NextSwap(ctx.swap)]
        /\ committed' = issued
        /\ pc' = IF pc = "header" THEN "erase_meta" ELSE "prepare"
        /\ UNCHANGED <<dat, upd, issued, missed>>

-------------------------------------------------------------------------------
(* etss_flash_fs_mblock_reset_metablock *)

EraseActiveFirst(readable) ==
    IF SomeFound(readable) THEN ActiveAmong(readable) ELSE 0

(* "ensure that the active metadata block is erased last" *)
FirstToErase(readable) ==
    IF SomeFound(readable) THEN Other(ActiveAmong(readable)) ELSE 0

(* The headers are read again, to choose the block that is erased last. *)
WipeStart ==
    /\ pc = "wipe_start"
    /\ \E readable \in SUBSET MetaBlock :
         LET last == Other(FirstToErase(readable))
         IN  /\ ctx' = [ctx EXCEPT !.active = last]
             /\ missed' = /\ SomeValid
                          /\ ActiveMetaBlock \notin readable
                          /\ ActiveMetaBlock # last
    /\ pc' = "wipe_first"
    /\ UNCHANGED <<mblk, dat, upd, issued, committed>>

WipeFirst ==
    /\ pc = "wipe_first"
    /\ mblk' = [mblk EXCEPT ![Other(ctx.active)] = ErasedMeta]
    /\ committed' = Kept
    /\ missed' = FALSE
    /\ pc' = "wipe_second"
    /\ UNCHANGED <<dat, ctx, upd, issued>>

WipeSecond ==
    /\ pc = "wipe_second"
    /\ mblk' = [mblk EXCEPT ![ctx.active] = ErasedMeta]
    /\ ctx' = [active |-> 0, swap |-> RolloverVal, scratch |-> InitScratch]
    /\ committed' = 0
    /\ pc' = "wipe_data"
    /\ UNCHANGED <<dat, upd, issued, missed>>

(* Every dedicated data block is erased; block 2, the spare one, is not. *)
WipeData ==
    /\ pc = "wipe_data"
    /\ dat' = [d \in DBlock |-> IF d = InitScratch THEN dat[d] ELSE Erased]
    /\ pc' = "wipe_metadata"
    /\ UNCHANGED <<mblk, ctx, upd, issued, committed, missed>>

WipeMetadata ==
    LET s == Other(ctx.active)
    IN  /\ pc = "wipe_metadata"
        /\ issued < MaxVersion
        /\ issued' = issued + 1
        /\ mblk' = [mblk EXCEPT ![s] =
             [mblk[s] EXCEPT !.phy = InitPhy,
                             !.data = [l \in LBlock |-> Erased],
                             !.ver = Program(mblk[s].ver, issued + 1)]]
        /\ pc' = "wipe_header"
        /\ UNCHANGED <<dat, ctx, upd, committed, missed>>

-------------------------------------------------------------------------------
(* Power failures *)

(* RAM is lost; the next start runs prepare. *)
PowerLost ==
    /\ ctx' = [active |-> 0, swap |-> 0, scratch |-> InitScratch]
    /\ upd' = [lblock |-> 0, phy |-> InitScratch, data |-> Erased]
    /\ pc' = "prepare"
    /\ missed' = FALSE
    /\ UNCHANGED issued

Crash == PowerLost /\ UNCHANGED <<mblk, dat, committed>>

(* Data or metadata is programmed in part. *)
CrashInProgram ==
    /\ \/ /\ pc = "ready"
          /\ dat' = [dat EXCEPT ![ctx.scratch] = Garbage]
          /\ UNCHANGED mblk
       \/ /\ pc \in {"metadata", "wipe_metadata"}
          /\ mblk' = [mblk EXCEPT ![Other(ctx.active)].ver = Garbage]
          /\ UNCHANGED dat
    /\ PowerLost
    /\ UNCHANGED committed

(* The header is programmed up to, but without, its last byte. *)
CrashInHeader ==
    /\ pc \in {"header", "wipe_header"}
    /\ mblk' = [ProgramHeader(Other(ctx.active)) EXCEPT
                  ![Other(ctx.active)].swap = mblk[Other(ctx.active)].swap]
    /\ PowerLost
    /\ UNCHANGED <<dat, committed>>

(* An interrupted erase leaves a metadata block whose metadata does not    *)
(* match the XOR in its header, or a data block of no use.                 *)
CrashInEraseMeta ==
    /\ pc \in {"erase_meta", "boot_erase_meta"}
    /\ mblk' = [mblk EXCEPT ![Other(ctx.active)].xor = FALSE]
    /\ committed' = Kept
    /\ PowerLost
    /\ UNCHANGED dat

CrashInEraseData ==
    /\ pc \in {"erase_data", "boot_erase_data"}
    /\ dat' = [dat EXCEPT ![ctx.scratch] = Garbage]
    /\ PowerLost
    /\ UNCHANGED <<mblk, committed>>

CrashInWipe ==
    /\ \/ /\ pc = "wipe_first"
          /\ mblk' = [mblk EXCEPT ![Other(ctx.active)].xor = FALSE]
          /\ committed' = Kept
       \/ /\ pc = "wipe_second"
          /\ mblk' = [mblk EXCEPT ![ctx.active].xor = FALSE]
          /\ committed' = 0
    /\ PowerLost
    /\ UNCHANGED dat

Next ==
    \/ Prepare \/ PrepareFails
    \/ EraseMeta \/ EraseData
    \/ \E l \in LBlock : WriteData(l)
    \/ WriteNoData
    \/ WriteMetadata \/ WriteHeader
    \/ WipeStart \/ WipeFirst \/ WipeSecond \/ WipeData \/ WipeMetadata
    \/ Crash \/ CrashInProgram \/ CrashInHeader
    \/ CrashInEraseMeta \/ CrashInEraseData \/ CrashInWipe

Spec == Init /\ [][Next]_vars

-------------------------------------------------------------------------------
(* Properties *)

MetaContent ==
    [fs_version : BOOLEAN, swap : SwapCount, xor : BOOLEAN,
     scratch : DBlock, phy : [LBlock -> DBlock], data : [LBlock -> Nat],
     ver : Nat \cup {Garbage}]

PcLabel ==
    {"prepare", "boot_erase_meta", "boot_erase_data", "ready", "metadata",
     "header", "erase_meta", "erase_data", "wipe_start", "wipe_first",
     "wipe_second", "wipe_data", "wipe_metadata", "wipe_header"}

(* Every variable has its type: block ids, counts and versions in range. *)
TypeOK ==
    /\ mblk \in [MetaBlock -> MetaContent]
    /\ dat \in [DBlock -> Nat \cup {Garbage}]
    /\ ctx \in [active : MetaBlock, swap : SwapCount, scratch : DBlock]
    /\ upd \in [lblock : LBlock \cup {0}, phy : DBlock, data : Nat]
    /\ pc \in PcLabel
    /\ issued \in Nat
    /\ committed \in Nat
    /\ missed \in BOOLEAN

(* What a start of the file system would find: 0 if there is no valid      *)
(* metadata block, the version of the selected one otherwise.              *)
Recovered == IF SomeValid THEN mblk[ActiveMetaBlock].ver ELSE 0

(* A restart at any moment, also in the middle of a flash operation, finds *)
(* the last committed metadata: never an older one, never a partly written *)
(* one, and none only before the first format or in the middle of a wipe.  *)
(* Where a start or a wipe could not read the latest header and erased     *)
(* that block, the last commit is the one before, complete with its data.  *)
RecoversLastCommit == Recovered = committed

(* The data blocks that m names hold m's data, and the spare one is free. *)
DataOf(m) ==
    \A l \in LBlock :
      /\ dat[m.phy[l]] = m.data[l]
      /\ m.phy[l] # m.scratch
      /\ \A k \in LBlock : k # l => m.phy[k] # m.phy[l]

(* The data blocks named by the metadata a restart would find hold exactly *)
(* the data that metadata was committed with, no two logical blocks share  *)
(* a physical one, and none of them is the spare block that every update   *)
(* overwrites and every start erases.                                      *)
CommittedDataIntact == SomeValid => DataOf(mblk[ActiveMetaBlock])

(* Between calls the RAM copy agrees with what a restart would load, and   *)
(* both spare blocks are erased, as the next update needs them.            *)
ReadyIsClean ==
    pc = "ready" =>
      /\ SomeValid
      /\ ctx.active = ActiveMetaBlock
      /\ ctx.swap = mblk[ctx.active].swap
      /\ ctx.scratch = mblk[ctx.active].scratch
      /\ mblk[Other(ctx.active)] = ErasedMeta
      /\ dat[ctx.scratch] = Erased

(* The version a restart would find moves forward, by the commit of the    *)
(* update in progress; it is dropped by a wipe only; and it goes back to   *)
(* an older version only when the latest of two valid headers could not be *)
(* read (etss_init_get_active_metablock takes that block for one whose     *)
(* update was incomplete), and then to the older of the two.               *)
NoRollback ==
    [][\/ Recovered' = Recovered
       \/ Recovered' = issued /\ Recovered < issued
       \/ Recovered' = 0 /\ pc \in {"wipe_first", "wipe_second"}
       \/ missed /\ Recovered' = mblk[ctx.active].ver]_vars

-------------------------------------------------------------------------------
(* The inductive invariant *)

(* Block a holds the last commit; if the other block is valid as well, it  *)
(* holds the commit before, one swap count earlier, with its data.         *)
Current(a) ==
    /\ ValidHeader(mblk[a])
    /\ mblk[a].ver = committed
    /\ committed > 0
    /\ DataOf(mblk[a])
    /\ ValidHeader(mblk[Other(a)]) =>
         /\ mblk[a].swap = NextSwap(mblk[Other(a)].swap)
         /\ mblk[Other(a)].ver \in 1 .. committed - 1
         /\ DataOf(mblk[Other(a)])

NothingValid == committed = 0 /\ ~SomeValid

Safe == NothingValid \/ \E a \in MetaBlock : Current(a)

(* The block that a wipe erases last: the one with the last commit, unless *)
(* its header could not be read.                                           *)
ErasedLast ==
    IF missed THEN Current(Other(ctx.active))
              ELSE NothingValid \/ Current(ctx.active)

(* The RAM copy describes block ctx.active. *)
Loaded ==
    /\ Current(ctx.active)
    /\ ctx.swap = mblk[ctx.active].swap

(* The RAM copy of the spare block, once a data block has been rewritten. *)
Rewritten ==
    IF upd.lblock = 0
      THEN ctx.scratch = mblk[ctx.active].scratch
      ELSE /\ ctx.scratch = mblk[ctx.active].phy[upd.lblock]
           /\ upd.phy = mblk[ctx.active].scratch
           /\ dat[upd.phy] = upd.data

Formatting ==
    /\ committed = 0
    /\ mblk[0] = ErasedMeta
    /\ ctx = [active |-> 0, swap |-> RolloverVal, scratch |-> InitScratch]

DedicatedErased == \A d \in DBlock : d # InitScratch => dat[d] = Erased

(* The metadata programmed into the scratch block, before its header. *)
ScratchMetadata ==
    LET new == mblk[Other(ctx.active)]
        old == mblk[ctx.active]
    IN  /\ new.fs_version = FALSE
        /\ new.swap = EraseVal
        /\ new.ver = issued
        /\ issued > committed
        /\ \A l \in LBlock :
             /\ new.phy[l] = IF l = upd.lblock THEN upd.phy ELSE old.phy[l]
             /\ new.data[l] = IF l = upd.lblock THEN upd.data ELSE old.data[l]

(* What holds at each point of the protocol. *)
Protocol ==
    /\ missed => pc \in {"boot_erase_meta", "wipe_first"}
    /\ pc \in {"prepare", "wipe_start"} => Safe
    /\ pc = "boot_erase_meta" =>
         /\ ValidHeader(mblk[ctx.active])
         /\ Current(IF missed THEN Other(ctx.active) ELSE ctx.active)
         /\ ctx.swap = mblk[ctx.active].swap
         /\ ctx.scratch = mblk[ctx.active].scratch
    /\ pc \in {"erase_meta", "boot_erase_data", "erase_data", "ready"} =>
         Loaded /\ ctx.scratch = mblk[ctx.active].scratch
    /\ pc \in {"boot_erase_data", "erase_data", "ready", "metadata"} =>
         mblk[Other(ctx.active)] = ErasedMeta
    /\ pc = "ready" => dat[ctx.scratch] = Erased
    /\ pc \in {"metadata", "header"} => Loaded /\ Rewritten /\ issued > committed
    /\ pc = "header" => ScratchMetadata
    /\ pc = "wipe_first" => ErasedLast
    /\ pc = "wipe_second" =>
         /\ mblk[Other(ctx.active)] = ErasedMeta
         /\ NothingValid \/ Current(ctx.active)
    /\ pc \in {"wipe_data", "wipe_metadata", "wipe_header"} => Formatting
    /\ pc \in {"wipe_data", "wipe_metadata"} => mblk[1] = ErasedMeta
    /\ pc \in {"wipe_metadata", "wipe_header"} => DedicatedErased
    /\ pc = "wipe_header" =>
         /\ mblk[1].fs_version = FALSE
         /\ mblk[1].swap = EraseVal
         /\ mblk[1].phy = InitPhy
         /\ mblk[1].data = [l \in LBlock |-> Erased]
         /\ mblk[1].ver = issued
         /\ issued > 0

(* The inductive strengthening of the properties above. *)
IndInv ==
    /\ TypeOK
    /\ committed <= issued
    /\ Protocol
===============================================================================
