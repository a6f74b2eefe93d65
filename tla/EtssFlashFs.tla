------------------------------ MODULE EtssFlashFs ------------------------------
(***************************************************************************)
(* The ETSS flash file system at the level of files (etss_flash_fs.c,      *)
(* etss_flash_fs_dblock.c, etss_flash_fs_mblock.c), with the set, get and  *)
(* remove calls that etss_set, etss_get and etss_remove make on it.        *)
(*                                                                         *)
(* Flash is a set of blocks of BlockSize cells.  Blocks 0 and 1 also carry *)
(* metadata, which takes the place of their first DataStart cells: a       *)
(* header, a block table and a file table.  Logical block 0 is the rest of *)
(* the active metadata block; the other logical blocks are dedicated.      *)
(* Power may fail between and inside all flash operations.  The order of   *)
(* the erases and programs of a format is the subject of EtssMetaCommit,   *)
(* and one step here.                                                      *)
(***************************************************************************)
EXTENDS EtssMblock, Sequences, FiniteSetsExt

CONSTANTS
    Fid, NoFid,     \* file ids; the all-zero id of a free entry
    Value,          \* what an asset can contain
    Sizes,          \* the asset sizes that clients use
    OnceFlags,      \* which values of WRITE_ONCE clients use
    NumBlocks,      \* cfg->num_blocks
    BlockSize,      \* cfg->block_size, in cells
    DataStart,      \* cells of a metadata block taken by metadata
    MaxNumFiles,    \* cfg->max_num_files, the spare one included
    MaxFileSize,    \* cfg->max_file_size
    LegacyImage,    \* TRUE: the flash was written by the previous version
    LegacyPad,      \* the padding byte after the header of that version
    None

(* etss_flash_fs_validate_config *)
ASSUME ConfigAssumption ==
    /\ NumBlocks \in Nat /\ NumBlocks >= 2 /\ NumBlocks # 3
    /\ BlockSize \in Nat /\ MaxFileSize \in Nat /\ MaxNumFiles \in Nat \ {0}
    /\ DataStart \in 0 .. BlockSize
    /\ NumBlocks = 2 => MaxFileSize <= BlockSize - DataStart
    /\ MaxFileSize <= BlockSize

MetaBlock == {0, 1}
Block == 0 .. NumBlocks - 1
LBlock == 0 .. (IF NumBlocks = 2 THEN 0 ELSE NumBlocks - 3)
Pos == 0 .. BlockSize - 1
FileIdx == 0 .. MaxNumFiles - 1
NoIdx == MaxNumFiles
NoBlock == NumBlocks

VARIABLES
    mblk,       \* flash: the metadata of blocks 0 and 1
    cell,       \* flash: the data cells of every block
    ctx,        \* RAM: active block, swap count, version, spare data block
    call,       \* RAM: the running call and what it has worked out
    pc,         \* RAM: where the running call stands
    reply       \* the outcome of the last call

vars == <<mblk, cell, ctx, call, pc, reply>>

-------------------------------------------------------------------------------
(* Flash *)

BlankCell == << >>
MixedCell == <<"mixed">>
Blank == [j \in Pos |-> BlankCell]
Mixed == [j \in Pos |-> MixedCell]

EmptyFile == [id |-> NoFid, lblock |-> 0, idx |-> 0, cur |-> 0, max |-> 0,
              flags |-> {}]
BlankFile == [id |-> NoFid, lblock |-> NoBlock, idx |-> 0, cur |-> 0, max |-> 0,
              flags |-> {"blank"}]
BlankBlock == [phy |-> NoBlock, free |-> 0]
BlankHeader == [version |-> "none", swap |-> EraseVal, scratch |-> NoBlock]

BlankMeta == [hdr |-> BlankHeader,
              bmeta |-> [l \in LBlock |-> BlankBlock],
              fmeta |-> [i \in FileIdx |-> BlankFile]]
(* Half programmed or half erased: the XOR does not match. *)
TornMeta == [BlankMeta EXCEPT !.hdr.version = "torn"]

(* Programming clears bits, so that a cell that is not erased keeps the    *)
(* bits that are set in both contents.                                     *)
ProgramCells(b, to, from, src, n) ==
    [cell EXCEPT ![b] = [j \in Pos |->
       IF j \notin to .. to + n - 1 THEN cell[b][j]
       ELSE LET new == src[from + j - to]
            IN  IF new = BlankCell THEN cell[b][j]
                ELSE IF cell[b][j] \in {BlankCell, new} THEN new ELSE MixedCell]]

(* The bits that are set in a number, and the number with those of both. *)
BitsOf(a) == {k \in 0 .. a : (a \div 2^k) % 2 = 1}
CommonBits(a, b) == CHOOSE c \in 0 .. a : BitsOf(c) = BitsOf(a) \cap BitsOf(b)

ProgramFile(old, new) ==
    IF old = BlankFile THEN new
    ELSE [id |-> IF old.id = new.id THEN new.id ELSE NoFid,
          lblock |-> CommonBits(old.lblock, new.lblock),
          idx |-> CommonBits(old.idx, new.idx),
          cur |-> CommonBits(old.cur, new.cur),
          max |-> CommonBits(old.max, new.max),
          flags |-> old.flags \cap new.flags]

-------------------------------------------------------------------------------
(* Reading the active metadata *)

Active == ctx.active
Scratch == Other(ctx.active)
File(i) == mblk[Active].fmeta[i]
BlockMeta(l) == mblk[Active].bmeta[l]

(* etss_init_dblock_start and the data_start field of the block metadata. *)
Start(l) == IF l = 0 THEN DataStart ELSE 0
Used(l, b) == BlockSize - b.free

(* etss_mblock_validate_file_meta *)
ValidFile(m) ==
    /\ m.lblock \in LBlock
    /\ m.id # NoFid =>
         /\ m.max <= MaxFileSize
         /\ m.cur <= m.max
         /\ m.idx >= Start(m.lblock)
         /\ m.idx + m.max <= BlockSize

(* etss_flash_fs_mblock_get_file_idx, _get_file_idx_flag and               *)
(* etss_get_free_file_index all scan the table from the start, and give up *)
(* at an entry that does not validate.                                     *)
First(S) == IF S = {} THEN NoIdx ELSE Min(S)
Unreadable(i) == i # NoIdx /\ ~ValidFile(File(i))
Scan(S) == First(S \cup {i \in FileIdx : ~ValidFile(File(i))})

IdxOf(f) == Scan({i \in FileIdx : File(i).id = f})
IdxFlagged == Scan({i \in FileIdx : "DELETE" \in File(i).flags})
FreeIdx(useSpare) ==
    LET free == {i \in FileIdx : File(i).id = NoFid}
    IN  Scan(IF useSpare THEN free ELSE free \ {First(free)})

(* etss_flash_fs_dblock_read_file *)
ReadFile(mb, m) ==
    [j \in 1 .. m.cur |-> cell[mb.bmeta[m.lblock].phy][m.idx + j - 1]]

(* etss_mblock_validate_header_meta *)
ValidHeader(h) == h.version \in {"legacy", "supported"} /\ ValidSwapCount(h.swap)

(* The byte that etss_mblock_latest_meta_block compares: in a header of    *)
(* the previous version it is padding.                                     *)
SwapByte(h) == IF h.version = "legacy" THEN LegacyPad ELSE h.swap

SomeValid == \E b \in MetaBlock : ValidHeader(mblk[b].hdr)

(* etss_init_get_active_metablock *)
ActiveMetaBlock ==
    IF \A b \in MetaBlock : ValidHeader(mblk[b].hdr)
      THEN LatestMetaBlock(SwapByte(mblk[0].hdr), SwapByte(mblk[1].hdr))
      ELSE CHOOSE b \in MetaBlock : ValidHeader(mblk[b].hdr)

-------------------------------------------------------------------------------
(* Initial flash *)

NoCall == [op |-> "none"]
NoCtx == [active |-> 0, swap |-> 0, version |-> "none", scratch |-> NoBlock]

(* etss_init_scratch_dblock *)
InitScratch == 2

InitMeta(b) ==
    [hdr |-> BlankHeader,
     bmeta |-> [l \in LBlock |-> [phy |-> IF l = 0 THEN b ELSE l + 2,
                                  free |-> BlockSize - Start(l)]],
     fmeta |-> [i \in FileIdx |-> EmptyFile]]

(* A flash that the previous version left, with one asset in block 0. *)
LegacyMeta(f, d) ==
    [InitMeta(1) EXCEPT
       !.hdr = [version |-> "legacy", swap |-> RolloverVal, scratch |-> InitScratch],
       !.bmeta[0].free = BlockSize - DataStart - Len(d),
       !.fmeta[0] = [EmptyFile EXCEPT !.id = f, !.idx = DataStart,
                                      !.cur = Len(d), !.max = Len(d)]]

Contents == {[j \in 1 .. n |-> <<v, j>>] : n \in Sizes, v \in Value}

(* What clients pass *)
ASSUME ClientAssumption ==
    /\ NoFid \notin Fid /\ Sizes \subseteq Nat /\ OnceFlags \subseteq BOOLEAN
    /\ None \notin [data : Contents, once : BOOLEAN]
    /\ None \notin [op : {"set"}, fid : Fid, data : Contents, once : BOOLEAN]
    /\ None \notin [op : {"remove"}, fid : Fid]

Init ==
    /\ IF LegacyImage
         THEN \E f \in Fid, d \in Contents :
                /\ Len(d) <= BlockSize - DataStart
                /\ mblk = [b \in MetaBlock |-> IF b = 1 THEN LegacyMeta(f, d)
                                                        ELSE BlankMeta]
                /\ cell = [b \in Block |-> [j \in Pos |->
                             IF b = 1 /\ j - DataStart + 1 \in DOMAIN d
                               THEN d[j - DataStart + 1] ELSE BlankCell]]
         ELSE /\ mblk = [b \in MetaBlock |-> BlankMeta]
              /\ cell = [b \in Block |-> Blank]
    /\ ctx = NoCtx
    /\ call = NoCall
    /\ pc = "boot"
    /\ reply = << >>

-------------------------------------------------------------------------------
(* etss_flash_fs_prepare *)

(* etss_flash_fs_mblock_init.  Without a valid block etss_init wipes the   *)
(* flash and prepares again, but only once.                                *)
Boot ==
    /\ pc = "boot"
    /\ IF SomeValid
         THEN LET h == mblk[ActiveMetaBlock].hdr
              IN  /\ ctx' = [active |-> ActiveMetaBlock, swap |-> h.swap,
                             version |-> h.version, scratch |-> h.scratch]
                  /\ call' = [op |-> "boot"]
                  /\ pc' = "erase_meta"
         ELSE /\ pc' = IF call.op = "format" THEN "failed" ELSE "format"
              /\ call' = [op |-> "format"]
              /\ UNCHANGED ctx
    /\ UNCHANGED <<mblk, cell, reply>>

FormatWithoutHeader ==
    /\ pc = "format"
    /\ mblk' = [b \in MetaBlock |-> IF b = 1 THEN InitMeta(1) ELSE BlankMeta]
    /\ cell' = [b \in Block |-> IF b = InitScratch THEN cell[b] ELSE Blank]
    /\ pc' = "boot"
    /\ UNCHANGED <<ctx, call, reply>>

(* etss_flash_fs_mblock_reset_metablock, then prepare again. *)
Format ==
    /\ pc = "format"
    /\ mblk' = [b \in MetaBlock |->
                  IF b = 1
                    THEN [InitMeta(1) EXCEPT
                            !.hdr = [version |-> "supported",
                                     swap |-> NextSwap(RolloverVal),
                                     scratch |-> InitScratch]]
                    ELSE BlankMeta]
    /\ cell' = [b \in Block |-> IF b = InitScratch THEN cell[b] ELSE Blank]
    /\ pc' = "boot"
    /\ UNCHANGED <<ctx, call, reply>>

(* etss_mblock_upgrade_meta_header: everything after the header is copied. *)
Upgrade ==
    /\ pc = "boot_upgrade"
    /\ mblk' = [mblk EXCEPT ![Scratch] = [mblk[Active] EXCEPT !.hdr = BlankHeader]]
    /\ cell' = ProgramCells(Scratch, DataStart, DataStart, cell[Active],
                            Used(0, BlockMeta(0)) - DataStart)
    /\ ctx' = [ctx EXCEPT !.version = "supported"]
    /\ pc' = "header"
    /\ UNCHANGED <<call, reply>>

(* The tail of etss_flash_fs_prepare: delete a file left behind. *)
BootCleanup ==
    /\ pc = "boot_cleanup"
    /\ IF Unreadable(IdxFlagged) THEN pc' = "format" /\ call' = [op |-> "format"]
       ELSE IF IdxFlagged = NoIdx THEN pc' = "ready" /\ call' = NoCall
       ELSE pc' = "delete" /\ call' = [op |-> "cleanup", old |-> IdxFlagged]
    /\ UNCHANGED <<mblk, cell, ctx, reply>>

-------------------------------------------------------------------------------
(* Calls *)

Set(f, d, once) ==
    /\ pc = "ready"
    /\ call' = [op |-> "set", fid |-> f, data |-> d, once |-> once, old |-> NoIdx]
    /\ pc' = "set" /\ reply' = << >>
    /\ UNCHANGED <<mblk, cell, ctx>>

Remove(f) ==
    /\ pc = "ready"
    /\ call' = [op |-> "remove", fid |-> f, old |-> NoIdx]
    /\ pc' = "remove" /\ reply' = << >>
    /\ UNCHANGED <<mblk, cell, ctx>>

(* etss_get of a whole asset. *)
Get(f) ==
    /\ pc = "ready"
    /\ reply' = IF IdxOf(f) = NoIdx \/ Unreadable(IdxOf(f)) THEN <<"does_not_exist">>
                ELSE <<"asset", [data |-> ReadFile(mblk[Active], File(IdxOf(f))),
                                 once |-> "WRITE_ONCE" \in File(IdxOf(f)).flags]>>
    /\ UNCHANGED <<mblk, cell, ctx, call, pc>>

Fail(e) == pc' = "ready" /\ call' = NoCall /\ reply' = <<e>>

NeverOnce(i) == FALSE
Once(i) == i # NoIdx /\ "WRITE_ONCE" \in File(i).flags

(* etss_remove up to etss_flash_fs_delete_idx. *)
StartRemove ==
    /\ pc = "remove"
    /\ LET i == IdxOf(call.fid)
       IN  \/ /\ i = NoIdx \/ Unreadable(i)
              /\ Fail("does_not_exist")
           \/ /\ ~Unreadable(i) /\ Once(i)
              /\ Fail("not_permitted")
           \/ /\ i # NoIdx /\ ~Unreadable(i) /\ ~Once(i)
              /\ pc' = "delete"
              /\ call' = [call EXCEPT !.old = i]
              /\ UNCHANGED reply
    /\ UNCHANGED <<mblk, cell, ctx>>

FlagsOf(c) == IF c.once THEN {"WRITE_ONCE"} ELSE {}

(* The block metadata that a call works on, as read or as reserved. *)
Working(c, i, m, b) ==
    [op |-> c.op, fid |-> c.fid, data |-> c.data, once |-> c.once, old |-> c.old,
     new |-> i, meta |-> m, bm |-> b]

(* etss_set and the lookup at the start of etss_flash_fs_file_write: an    *)
(* existing file of the same size is reused; one of another size is marked *)
(* for deletion in the scratch metadata, before space for the new one is   *)
(* looked for.                                                             *)
StartSet ==
    /\ pc = "set"
    /\ LET i == IdxOf(call.fid)
           n == Len(call.data)
       IN  \/ /\ Unreadable(i)
              /\ Fail("failed")
              /\ UNCHANGED mblk
           \/ /\ ~Unreadable(i) /\ Once(i)
              /\ Fail("not_permitted")
              /\ UNCHANGED mblk
           \/ /\ i = NoIdx
              /\ pc' = "reserve"
              /\ UNCHANGED <<mblk, call, reply>>
           \/ /\ i # NoIdx /\ ~Unreadable(i) /\ ~Once(i)
              /\ File(i).max = n
              /\ call' = Working([call EXCEPT !.old = i], i,
                                 [File(i) EXCEPT !.cur = 0, !.flags = FlagsOf(call)],
                                 BlockMeta(File(i).lblock))
              /\ pc' = "data"
              /\ UNCHANGED <<mblk, reply>>
           \/ /\ i # NoIdx /\ ~Unreadable(i) /\ ~Once(i)
              /\ File(i).max # n
              /\ mblk' = [mblk EXCEPT ![Scratch].fmeta[i] =
                            ProgramFile(@, [File(i) EXCEPT !.flags = @ \cup {"DELETE"}])]
              /\ call' = [call EXCEPT !.old = i]
              /\ pc' = "reserve"
              /\ UNCHANGED reply
    /\ UNCHANGED <<cell, ctx>>

(* etss_flash_fs_mblock_reserve_file: the first block with room, and a     *)
(* free entry of the table, the last one only to replace a file.           *)
Reserve ==
    /\ pc = "reserve"
    /\ LET n == Len(call.data)
           fits == {l \in LBlock : BlockMeta(l).free >= n}
           l == Min(fits)
           i == FreeIdx(call.old # NoIdx)
       IN  IF n > MaxFileSize \/ fits = {} \/ i = NoIdx \/ Unreadable(i)
             THEN Fail("failed")
             ELSE /\ call' = Working(call, i,
                               [id |-> call.fid, lblock |-> l,
                                idx |-> Used(l, BlockMeta(l)), cur |-> 0, max |-> n,
                                flags |-> FlagsOf(call)],
                               [BlockMeta(l) EXCEPT !.free = @ - n])
                  /\ pc' = "data"
                  /\ UNCHANGED reply
    /\ UNCHANGED <<mblk, cell, ctx>>

(* etss_flash_fs_mblock_cur_data_scratch_id *)
SpareOf(l) == IF l = 0 THEN Scratch ELSE ctx.scratch

(* etss_flash_fs_dblock_write_file: the block is rewritten around the new  *)
(* contents, and changes places with the spare one.                        *)
WriteData ==
    LET m == call.meta
        b == call.bm
        n == Len(call.data)
        to == SpareOf(m.lblock)
        end == Used(m.lblock, b)
        new == [j \in Pos |-> IF j \in m.idx .. m.idx + n - 1
                                THEN call.data[j - m.idx + 1] ELSE cell[b.phy][j]]
    IN  /\ pc = "data"
        /\ IF n = 0 THEN UNCHANGED <<cell, ctx, call>>
           ELSE /\ cell' = ProgramCells(to, Start(m.lblock), Start(m.lblock), new,
                                        end - Start(m.lblock))
                /\ call' = [call EXCEPT !.meta.cur = n, !.bm.phy = to]
                /\ ctx' = [ctx EXCEPT !.scratch = IF m.lblock = 0 THEN @ ELSE b.phy]
        /\ pc' = "meta"
        /\ UNCHANGED <<mblk, reply>>

CopiedBlockMeta(l, b) == [k \in LBlock |-> IF k = l THEN b ELSE BlockMeta(k)]

(* etss_flash_fs_mblock_update_scratch_block_meta with                     *)
(* etss_mblock_copy_remaining_block_meta: logical block 0 moves with the   *)
(* metadata.                                                               *)
ScratchBlockMeta(l, b) ==
    [k \in LBlock |-> LET e == IF k = l THEN b ELSE BlockMeta(k)
                      IN  IF k = 0 THEN [e EXCEPT !.phy = Scratch] ELSE e]

(* etss_flash_fs_mblock_migrate_lb0_data_to_scratch *)
MigrateLb0 ==
    ProgramCells(Scratch, DataStart, DataStart, cell[Active],
                 Used(0, BlockMeta(0)) - DataStart)

(* The rest of etss_flash_fs_file_write up to the header. *)
WriteMeta ==
    /\ pc = "meta"
    /\ mblk' = [mblk EXCEPT ![Scratch] =
         [mblk[Scratch] EXCEPT
            !.bmeta = ScratchBlockMeta(call.meta.lblock, call.bm),
            !.fmeta = [i \in FileIdx |->
              IF i = call.new THEN ProgramFile(mblk[Scratch].fmeta[i], call.meta)
              ELSE IF i = call.old THEN mblk[Scratch].fmeta[i]
              ELSE ProgramFile(mblk[Scratch].fmeta[i], File(i))]]]
    /\ cell' = IF call.meta.lblock # 0 \/ Len(call.data) = 0 THEN MigrateLb0 ELSE cell
    /\ pc' = "header"
    /\ UNCHANGED <<ctx, call, reply>>

(* etss_flash_fs_mblock_meta_update_finalize: the commit. *)
WriteHeader ==
    /\ pc = "header"
    /\ mblk' = [mblk EXCEPT ![Scratch].hdr =
                  [version |-> ctx.version, swap |-> NextSwap(ctx.swap),
                   scratch |-> ctx.scratch]]
    /\ ctx' = [ctx EXCEPT !.active = Scratch, !.swap = NextSwap(@)]
    /\ pc' = "erase_meta"
    /\ call' = [call EXCEPT !.op = IF @ = "boot" THEN "upgraded" ELSE @]
    /\ UNCHANGED <<cell, reply>>

RetriedErase ==
    /\ pc = "erase_meta"
    /\ mblk' = [mblk EXCEPT ![Scratch] = BlankMeta]
    /\ cell' = [cell EXCEPT ![Scratch] = Blank]
    /\ UNCHANGED <<pc, ctx, call, reply>>

(* etss_mblock_erase_scratch_blocks *)
EraseMeta ==
    /\ pc = "erase_meta"
    /\ mblk' = [mblk EXCEPT ![Scratch] = BlankMeta]
    /\ cell' = [cell EXCEPT ![Scratch] = Blank]
    /\ pc' = "erase_data"
    /\ UNCHANGED <<ctx, call, reply>>

(* ... and what the caller does next: a replaced file is deleted in a      *)
(* second update.                                                          *)
EraseData ==
    /\ pc = "erase_data"
    /\ cell' = IF NumBlocks > 2 THEN [cell EXCEPT ![ctx.scratch] = Blank] ELSE cell
    /\ \/ /\ call.op \in {"boot", "upgraded"}
          /\ pc' = IF call.op = "boot" /\ ctx.version = "legacy"
                     THEN "boot_upgrade" ELSE "boot_cleanup"
          /\ UNCHANGED <<call, reply>>
       \/ /\ call.op = "set" /\ call.old \notin {NoIdx, call.new}
          /\ pc' = "delete"
          /\ call' = [call EXCEPT !.op = "set_cleanup"]
          /\ UNCHANGED reply
       \/ /\ call.op = "cleanup"
          /\ pc' = "ready" /\ call' = NoCall
          /\ UNCHANGED reply
       \/ /\ \/ call.op \in {"remove", "set_cleanup"}
             \/ call.op = "set" /\ call.old \in {NoIdx, call.new}
          /\ pc' = "ready" /\ call' = NoCall
          /\ reply' = <<"ok">>
    /\ UNCHANGED <<mblk, ctx>>

-------------------------------------------------------------------------------
(* etss_flash_fs_delete_idx of entry call.old *)

BehindInAnyBlock(i, del) ==
    i # call.old /\ File(i).id # NoFid /\ File(i).idx > del.idx

Behind(i, del) ==
    /\ i # call.old
    /\ File(i).id # NoFid
    /\ File(i).lblock = del.lblock
    /\ File(i).idx > del.idx

(* The entry is cleared and the files behind it move up. *)
DeleteMeta ==
    LET del == File(call.old)
    IN  /\ pc = "delete"
        /\ mblk' = [mblk EXCEPT ![Scratch].fmeta = [i \in FileIdx |->
             ProgramFile(mblk[Scratch].fmeta[i],
                         IF i = call.old THEN EmptyFile
                         ELSE IF Behind(i, del)
                           THEN [File(i) EXCEPT !.idx = @ - del.max]
                           ELSE File(i))]]
        /\ pc' = "compact"
        /\ UNCHANGED <<cell, ctx, call, reply>>

(* etss_flash_fs_dblock_compact_block: the data behind the file moves up,  *)
(* that before it is copied, and the block changes places with the spare.  *)
Compact ==
    LET del == File(call.old)
        l == del.lblock
        b == BlockMeta(l)
        to == SpareOf(l)
        moved == {i \in FileIdx : Behind(i, del)}
        size == Cardinality(UNION {{i} \X (1 .. File(i).max) : i \in moved})
        src == IF moved = {} THEN BlockSize ELSE Min({File(i).idx : i \in moved})
        new == [j \in Pos |-> IF j < del.idx THEN cell[b.phy][j]
                              ELSE IF j < del.idx + size /\ src + j - del.idx \in Pos
                                THEN cell[b.phy][src + j - del.idx]
                              ELSE BlankCell]
        data == ProgramCells(to, Start(l), Start(l), new,
                             del.idx + size - Start(l))
    IN  /\ pc = "compact"
        /\ cell' = IF l = 0 THEN data
                   ELSE [data EXCEPT ![Scratch] = MigrateLb0[Scratch]]
        /\ mblk' = [mblk EXCEPT ![Scratch].bmeta =
             ScratchBlockMeta(l, [phy |-> to, free |-> b.free + del.max])]
        /\ ctx' = [ctx EXCEPT !.scratch = IF l = 0 THEN @ ELSE b.phy]
        /\ pc' = "header"
        /\ UNCHANGED <<call, reply>>

-------------------------------------------------------------------------------
(* Power failures *)

PowerLost == ctx' = NoCtx /\ call' = NoCall /\ pc' = "boot" /\ reply' = << >>

Crash == pc # "boot" /\ PowerLost /\ UNCHANGED <<mblk, cell>>

(* An operation on the scratch metadata block stops half way; the swap     *)
(* count, which makes a header valid, is the last byte of it.              *)
CrashInMeta ==
    /\ \/ pc \in {"set", "meta", "header", "erase_meta", "boot_upgrade", "delete",
                  "compact"}
       \/ pc = "data" /\ call.meta.lblock = 0
    /\ mblk' = [mblk EXCEPT ![Scratch] = TornMeta]
    /\ cell' = [cell EXCEPT ![Scratch] = Mixed]
    /\ PowerLost

(* An operation on the spare data block stops half way. *)
CrashInData ==
    /\ NumBlocks > 2
    /\ \/ pc = "data" /\ call.meta.lblock # 0
       \/ pc = "compact" /\ File(call.old).lblock # 0
       \/ pc = "erase_data"
    /\ cell' = [cell EXCEPT ![ctx.scratch] = Mixed]
    /\ PowerLost
    /\ UNCHANGED mblk

CrashInFormat ==
    /\ pc = "format"
    /\ mblk' = [b \in MetaBlock |-> TornMeta]
    /\ cell' = [b \in Block |-> IF b = InitScratch THEN cell[b] ELSE Mixed]
    /\ PowerLost

PowerFail == Crash \/ CrashInMeta \/ CrashInData \/ CrashInFormat

System ==
    \/ Boot \/ Format \/ Upgrade \/ BootCleanup
    \/ StartRemove \/ StartSet \/ Reserve \/ WriteData \/ WriteMeta
    \/ WriteHeader \/ EraseMeta \/ EraseData
    \/ DeleteMeta \/ Compact

Next ==
    \/ System
    \/ \E f \in Fid, d \in Contents, once \in OnceFlags : Set(f, d, once)
    \/ \E f \in Fid : Remove(f) \/ Get(f)
    \/ PowerFail

(* The partition runs its call to the end, if power stays on. *)
Spec == Init /\ [][Next]_vars /\ WF_vars(System)

-------------------------------------------------------------------------------
(* Properties *)

FileMeta == [id : Fid \cup {NoFid}, lblock : 0 .. NoBlock, idx : 0 .. BlockSize,
             cur : 0 .. BlockSize, max : 0 .. BlockSize,
             flags : (SUBSET {"WRITE_ONCE", "DELETE"}) \cup {{"blank"}}]
BlockMetaType == [phy : 0 .. NoBlock, free : 0 .. BlockSize]
Cell == (Value \X (1 .. BlockSize)) \cup {BlankCell, MixedCell}

(* Every variable has its type. *)
TypeOK ==
    /\ mblk \in [MetaBlock ->
         [hdr : [version : {"none", "torn", "legacy", "supported"},
                 swap : SwapCount, scratch : Block \cup {NoBlock}],
          bmeta : [LBlock -> BlockMetaType], fmeta : [FileIdx -> FileMeta]]]
    /\ cell \in [Block -> [Pos -> Cell]]
    /\ ctx \in [active : MetaBlock, swap : SwapCount, scratch : Block \cup {NoBlock},
                version : {"none", "legacy", "supported"}]
    /\ call.op \in {"none", "format", "boot", "upgraded", "cleanup", "set", "set_cleanup",
                    "remove"}
    /\ pc \in {"boot", "format", "failed", "boot_upgrade", "boot_cleanup", "ready", "set",
               "remove", "reserve", "data", "meta", "header", "erase_meta",
               "erase_data", "delete", "compact"}

(* The metadata that a restart at this moment would load. *)
Selected == mblk[ActiveMetaBlock]
Files == {i \in FileIdx : Selected.fmeta[i].id # NoFid}
Flagged(i) == "DELETE" \in Selected.fmeta[i].flags

(* The assets in a metadata block: the contents of its files, except those *)
(* that wait for their deletion.                                           *)
AssetsAt ==
    [b \in MetaBlock |-> [f \in Fid |->
       LET live == {i \in FileIdx : /\ mblk[b].fmeta[i].id = f
                                    /\ "DELETE" \notin mblk[b].fmeta[i].flags}
       IN  IF live = {} THEN None
           ELSE LET m == mblk[b].fmeta[CHOOSE i \in live : TRUE]
                IN  [data |-> ReadFile(mblk[b], m),
                     once |-> "WRITE_ONCE" \in m.flags]]]

(* The assets that a restart at this moment would serve. *)
Stored == IF SomeValid THEN AssetsAt[ActiveMetaBlock] ELSE [f \in Fid |-> None]

(* Whatever set, remove, restart and power failure came before, an asset   *)
(* reads back as some complete contents that a client gave it.             *)
AssetsIntact ==
    \A f \in Fid : Stored[f] # None => Stored[f].data \in Contents

Extent(i) == Selected.fmeta[i].idx ..
               Selected.fmeta[i].idx + Selected.fmeta[i].max - 1

(* The files of a logical block fill it from its start without gap or      *)
(* overlap, up to the free space that the block metadata records: the next *)
(* file is allocated, and a deletion compacts, on this assumption.         *)
FilesTileBlocks ==
    SomeValid =>
      \A l \in LBlock :
        LET here == {i \in Files : Selected.fmeta[i].lblock = l}
        IN  /\ UNION {Extent(i) : i \in here}
                 = Start(l) .. Used(l, Selected.bmeta[l]) - 1
            /\ \A i, j \in here : i # j => Extent(i) \cap Extent(j) = {}

(* A file marked for deletion is always the one left over from a replace   *)
(* whose new file is in place, and no id is used by two other files: the   *)
(* cleanup at start removes a duplicate, never the last copy.              *)
ReplaceKeepsOne ==
    SomeValid =>
      /\ \A i \in Files : Flagged(i) =>
           \E j \in Files : Selected.fmeta[j].id = Selected.fmeta[i].id /\ ~Flagged(j)
      /\ \A i, j \in Files :
           i # j /\ Flagged(i) = Flagged(j) =>
             Selected.fmeta[i].id # Selected.fmeta[j].id /\ ~Flagged(i)

(* Between calls one entry of the file table is free, so that the space    *)
(* check is all that a replace can fail on.                                *)
SpareEntryFree ==
    pc = "ready" => \E i \in FileIdx : File(i).id = NoFid

(* Logical block 0 is in the block of the metadata that describes it, and  *)
(* the dedicated blocks and the spare one are all different.               *)
BlocksMapped ==
    SomeValid =>
      /\ Selected.bmeta[0].phy = ActiveMetaBlock
      /\ NumBlocks > 2 =>
           {Selected.hdr.scratch} \cup {Selected.bmeta[l].phy : l \in LBlock \ {0}}
             = 2 .. NumBlocks - 1

(* The file table that a restart would load is sound: its fields have     *)
(* their types, the files tile the blocks, a file marked for deletion has  *)
(* its successor, and an entry is left for the next replace.               *)
TableSound == TypeOK /\ FilesTileBlocks /\ ReplaceKeepsOne /\ SpareEntryFree

(* Unless power keeps failing, every call, and the work left over from an  *)
(* interrupted one, comes to an end, and the file system serves again.     *)
ServesAgain == []<><<PowerFail>>_vars \/ []<>(pc = "ready")

(* The promise of the file system: see EtssStore. *)
ClientCall ==
    CASE call.op \in {"set", "set_cleanup"} ->
           [op |-> "set", fid |-> call.fid, data |-> call.data, once |-> call.once]
      [] call.op = "remove" -> [op |-> "remove", fid |-> call.fid]
      [] OTHER -> None
TookEffect ==
    \/ call.op = "set_cleanup"
    \/ call.op \in {"set", "remove"} /\ pc \in {"erase_meta", "erase_data"}

Abstract == INSTANCE EtssStore WITH
    Data <- Contents, store <- Stored,
    call <- ClientCall, done <- TookEffect, reply <- reply

(* The file system implements the store: every step of it is one of the    *)
(* store's or changes nothing there, so that each call takes effect when   *)
(* its metadata header is programmed and not otherwise.                    *)
ImplementsStore == Abstract!Spec
===============================================================================
