-------------------------- MODULE EtssFlashFsProofs --------------------------
(***************************************************************************)
(* Proofs about EtssFlashFs: the layout of the file system stays sound and *)
(* the file system implements the store that EtssStore promises, for any   *)
(* configuration, any files and any power failures, as long as clients     *)
(* store no empty assets and no replace fails for want of room.            *)
(***************************************************************************)
EXTENDS EtssFlashFs, FiniteSetTheorems, FunctionTheorems, NaturalsInduction, TLAPS

-----------------------------------------------------------------------------
(* What a metadata block describes: bm is its block table, fm its file     *)
(* table, c the data cells, b the block it is in, sp the spare data block. *)

Live(fm) == {i \in FileIdx : fm[i].id # NoFid}
Marked(m) == "DELETE" \in m.flags
Read(bm, m, c) == [j \in 1 .. m.cur |-> c[bm[m.lblock].phy][m.idx + j - 1]]

GoodFile == [id : Fid, lblock : LBlock, idx : 0 .. BlockSize, cur : 1 .. MaxFileSize,
             max : 1 .. MaxFileSize, flags : SUBSET {"WRITE_ONCE", "DELETE"}]
GoodFiles(fm) ==
    /\ fm \in [FileIdx -> GoodFile \cup {EmptyFile}]
    /\ \A i \in Live(fm) : fm[i].cur = fm[i].max
GoodBlocks(bm) ==
    /\ bm \in [LBlock -> [phy : Block, free : 0 .. BlockSize]]
    /\ \A l \in LBlock : Start(l) + bm[l].free <= BlockSize

Covers(m, l, p) == m.lblock = l /\ m.idx <= p /\ p < m.idx + m.max
Apart(m, n) == m.lblock = n.lblock => m.idx + m.max <= n.idx \/ n.idx + n.max <= m.idx

(* The files of a block lie one behind the other up to its free space. *)
Tiled(bm, fm) ==
    /\ \A i \in Live(fm) : /\ Start(fm[i].lblock) <= fm[i].idx
                           /\ fm[i].idx + fm[i].max + bm[fm[i].lblock].free <= BlockSize
    /\ \A l \in LBlock : \A p \in Start(l) .. BlockSize - bm[l].free - 1 :
         \E i \in Live(fm) : Covers(fm[i], l, p)
    /\ \A i, j \in Live(fm) : i # j => Apart(fm[i], fm[j])

(* An id has one file, or two of which one is marked; only one file is. *)
OneEach(fm) ==
    /\ \A i, j \in Live(fm) :
         i # j /\ fm[i].id = fm[j].id => Marked(fm[i]) \/ Marked(fm[j])
    /\ \A i, j \in Live(fm) : Marked(fm[i]) /\ Marked(fm[j]) => i = j
    /\ \A i \in Live(fm) : Marked(fm[i]) =>
         \E j \in Live(fm) : fm[j].id = fm[i].id /\ ~Marked(fm[j])
NoneMarked(fm) == \A i \in Live(fm) : ~Marked(fm[i])
Spared(fm) == \E i \in FileIdx : fm[i].id = NoFid \/ Marked(fm[i])

Mapped(b, bm, sp) ==
    /\ bm[0].phy = b
    /\ \A l \in LBlock \ {0} : bm[l].phy \in 2 .. NumBlocks - 1 /\ bm[l].phy # sp
    /\ \A l, k \in LBlock \ {0} : bm[l].phy = bm[k].phy => l = k
    /\ NumBlocks > 2 =>
         /\ sp \in 2 .. NumBlocks - 1
         /\ \A p \in 2 .. NumBlocks - 1 : p = sp \/ \E l \in LBlock \ {0} : bm[l].phy = p

Whole(bm, fm, c) == \A i \in Live(fm) : Read(bm, fm[i], c) \in Contents

Sound(b, bm, fm, c, sp) ==
    /\ GoodFiles(fm) /\ GoodBlocks(bm) /\ Tiled(bm, fm) /\ OneEach(fm) /\ Spared(fm)
    /\ Mapped(b, bm, sp) /\ Whole(bm, fm, c)

LiveAs(fm, f) == {i \in FileIdx : fm[i].id = f /\ "DELETE" \notin fm[i].flags}
Assets(bm, fm, c) ==
    [f \in Fid |->
       IF LiveAs(fm, f) = {} THEN None
       ELSE LET m == fm[CHOOSE i \in LiveAs(fm, f) : TRUE]
            IN  [data |-> Read(bm, m, c), once |-> "WRITE_ONCE" \in m.flags]]

-----------------------------------------------------------------------------
(* The tables that an update writes *)

(* The block table: logical block 0 is in the other metadata block, block  *)
(* l is in the spare one and has fr cells left.                            *)
NewBlocks(bm, a, sp, l, fr) ==
    [k \in LBlock |-> [phy |-> IF k = 0 THEN Other(a) ELSE IF k = l THEN sp ELSE bm[k].phy,
                       free |-> IF k = l THEN fr ELSE bm[k].free]]
NewSpare(bm, sp, l) == IF l = 0 THEN sp ELSE bm[l].phy

PlacedFile(f, l, x, d, o) ==
    [id |-> f, lblock |-> l, idx |-> x, cur |-> Len(d), max |-> Len(d),
     flags |-> IF o THEN {"WRITE_ONCE"} ELSE {}]
MarkFile(m) == [m EXCEPT !.flags = @ \cup {"DELETE"}]
AfterSet(fm, i, old, m) ==
    [k \in FileIdx |-> IF k = i THEN m ELSE IF k = old THEN MarkFile(fm[k]) ELSE fm[k]]

(* Entry i at cell x of block l is the place for the n cells of f, and     *)
(* leaves fr cells free; old is the file that it replaces.                 *)
Place(bm, fm, f, n, i, old, l, x, fr) ==
    \/ /\ i = old /\ fm[i].id = f /\ fm[i].max = n
       /\ l = fm[i].lblock /\ x = fm[i].idx /\ fr = bm[l].free
    \/ /\ i # old /\ fm[i].id = NoFid /\ n <= MaxFileSize /\ n <= bm[l].free
       /\ x = BlockSize - bm[l].free /\ fr = bm[l].free - n
       /\ \/ /\ old = NoIdx /\ \A k \in FileIdx : fm[k].id # f
             /\ \E k \in FileIdx : k # i /\ fm[k].id = NoFid
          \/ old \in FileIdx /\ fm[old].id = f

BehindFile(m, del) == m.id # NoFid /\ m.lblock = del.lblock /\ m.idx > del.idx
AfterDelete(fm, o) ==
    [k \in FileIdx |-> IF k = o THEN EmptyFile
                       ELSE IF BehindFile(fm[k], fm[o])
                         THEN [fm[k] EXCEPT !.idx = @ - fm[o].max]
                       ELSE fm[k]]

-----------------------------------------------------------------------------
(* The invariant *)

(* From the metadata m and the data c a restart loads block a: the other   *)
(* is not valid or one swap count behind.                                  *)
Loads(m, c, a) ==
    LET h == m[a].hdr
        o == m[Other(a)].hdr
    IN  /\ ValidHeader(h) /\ h.version = "supported"
        /\ ValidHeader(o) => o.version = "supported" /\ NextSwap(o.swap) = h.swap
        /\ Sound(a, m[a].bmeta, m[a].fmeta, c, h.scratch)

NoneValid(m) == \A b \in MetaBlock : ~ValidHeader(m[b].hdr)

Running == pc \notin {"boot", "format", "failed"}
Written == pc \in {"meta", "header"}

RamInv ==
    /\ ~Running => NoneValid(mblk) \/ (pc = "boot" /\ \E a \in MetaBlock : Loads(mblk, cell, a))
    /\ Running =>
         /\ Loads(mblk, cell, Active) /\ ctx.swap = mblk[Active].hdr.swap
         /\ ctx.version = "supported"
         /\ ~Written => ctx.scratch = mblk[Active].hdr.scratch

FM == mblk[Active].fmeta
BM == mblk[Active].bmeta
NFM == mblk[Scratch].fmeta
NBM == mblk[Scratch].bmeta

(* What is left in the scratch blocks *)
Fresh == pc \in {"boot_cleanup", "ready", "set", "remove", "reserve", "data", "delete", "compact"}
ScratchInv ==
    /\ Running /\ pc # "erase_meta" => mblk[Scratch].hdr = BlankHeader
    /\ pc = "erase_data" \/ Fresh => cell[Scratch] = Blank
    /\ Fresh /\ NumBlocks > 2 => cell[ctx.scratch] = Blank
    /\ pc \in {"erase_data", "boot_cleanup", "ready", "set", "remove", "delete"} =>
         mblk[Scratch] = BlankMeta
    /\ pc = "reserve" =>
         /\ NFM = [i \in FileIdx |-> IF i = call.old THEN MarkFile(FM[i]) ELSE BlankFile]
         /\ call.old = NoIdx => mblk[Scratch] = BlankMeta
    /\ pc \in {"data", "meta"} =>
         NFM = [i \in FileIdx |-> IF i = call.old /\ i # call.new THEN MarkFile(FM[i])
                                  ELSE BlankFile]

(* The calls, before and after a set has found a place *)
SetCall == [op : {"set"}, fid : Fid, data : Contents, once : BOOLEAN,
            old : FileIdx \cup {NoIdx}]
PlacedCall == [op : {"set", "set_cleanup"}, fid : Fid, data : Contents, once : BOOLEAN,
               old : FileIdx \cup {NoIdx}, new : FileIdx,
               meta : [id : Fid, lblock : LBlock, idx : 0 .. BlockSize,
                       cur : 0 .. MaxFileSize, max : 1 .. MaxFileSize,
                       flags : SUBSET {"WRITE_ONCE"}],
               bm : [phy : Block, free : 0 .. BlockSize]]
RemoveCall == [op : {"remove"}, fid : Fid, old : FileIdx \cup {NoIdx}]
CleanupCall == [op : {"cleanup"}, old : FileIdx]

CallInv ==
    /\ ~Running => call = [op |-> "none"] \/ call = [op |-> "format"]
    /\ pc = "ready" => call = [op |-> "none"]
    /\ pc = "boot_cleanup" => call = [op |-> "boot"]
    /\ pc \in {"set", "reserve"} => call \in SetCall
    /\ pc = "remove" => call \in RemoveCall
    /\ pc \in {"data", "meta"} => call \in PlacedCall /\ call.op = "set"
    /\ pc \in {"delete", "compact"} =>
         \/ call \in RemoveCall \cup CleanupCall
         \/ call \in PlacedCall /\ call.op = "set_cleanup"
    /\ pc = "header" => call \in PlacedCall \cup RemoveCall \cup CleanupCall
    /\ pc \in {"erase_meta", "erase_data"} =>
         call \in PlacedCall \cup RemoveCall \cup CleanupCall \cup {[op |-> "boot"]}
    /\ pc # "boot_upgrade"

Rewritable(f) == \A i \in FileIdx : FM[i].id = f => "WRITE_ONCE" \notin FM[i].flags

(* Block to has what block from has up to cell end, but d from idx on. *)
Rewritten(c, from, to, l, end, idx, d) ==
    \A j \in Start(l) .. end - 1 :
      c[to][j] = IF j \in idx .. idx + Len(d) - 1 THEN d[j - idx + 1] ELSE c[from][j]

SetInv ==
    /\ pc = "set" => call.old = NoIdx
    /\ pc = "reserve" =>
         /\ Rewritable(call.fid)
         /\ \/ call.old = NoIdx /\ \A i \in FileIdx : FM[i].id # call.fid
            \/ call.old \in FileIdx /\ FM[call.old].id = call.fid
    /\ pc \in {"data", "meta"} =>
         /\ Rewritable(call.fid)
         /\ Place(BM, FM, call.fid, Len(call.data), call.new, call.old,
                  call.meta.lblock, call.meta.idx, call.bm.free)
         /\ call.meta.id = call.fid /\ call.meta.max = Len(call.data)
         /\ call.meta.cur = IF pc = "data" THEN 0 ELSE Len(call.data)
         /\ call.meta.flags = FlagsOf(call)
    /\ pc = "data" => call.bm.phy = BM[call.meta.lblock].phy
    /\ pc = "meta" =>
         LET l == call.meta.lblock
             sp == mblk[Active].hdr.scratch
         IN  /\ call.bm.phy = IF l = 0 THEN Scratch ELSE sp
             /\ ctx.scratch = NewSpare(BM, sp, l)
             /\ Rewritten(cell, BM[l].phy, call.bm.phy, l, BlockSize - call.bm.free,
                          call.meta.idx, call.data)
             /\ l # 0 => cell[Scratch] = Blank

Deleting ==
    /\ call.old \in Live(FM)
    /\ \/ /\ call.op = "remove" /\ FM[call.old].id = call.fid
          /\ "WRITE_ONCE" \notin FM[call.old].flags /\ NoneMarked(FM)
       \/ call.op \in {"cleanup", "set_cleanup"} /\ Marked(FM[call.old])

DeleteInv ==
    /\ pc \in {"delete", "compact"} => Deleting
    /\ pc = "compact" => NFM = AfterDelete(FM, call.old)

(* The file that a set leaves to be deleted *)
Replaced(fm) ==
    IF call.old \in {NoIdx, call.new} THEN NoneMarked(fm)
    ELSE call.old \in FileIdx /\ fm[call.old].id # NoFid /\ Marked(fm[call.old])

(* What the call is about to change, and has changed *)
Commits(before, after, fm) ==
    \/ /\ call.op = "set" /\ Replaced(fm)
       /\ before[call.fid] # None => ~before[call.fid].once
       /\ after = [before EXCEPT ![call.fid] = [data |-> call.data, once |-> call.once]]
    \/ /\ call.op = "remove" /\ NoneMarked(fm)
       /\ before[call.fid] # None /\ ~before[call.fid].once
       /\ after = [before EXCEPT ![call.fid] = None]
    \/ /\ call.op \in {"cleanup", "set_cleanup"} /\ NoneMarked(fm)
       /\ after = before
Committed(fm) ==
    \/ call.op = "boot"
    \/ call.op = "set" /\ Replaced(fm)
    \/ call.op \in {"remove", "cleanup", "set_cleanup"} /\ NoneMarked(fm)

CommitInv ==
    /\ pc = "header" =>
         /\ Sound(Scratch, NBM, NFM, cell, ctx.scratch)
         /\ Commits(Assets(BM, FM, cell), Assets(NBM, NFM, cell), NFM)
    /\ pc \in {"erase_meta", "erase_data"} => Committed(FM)
    /\ pc \in {"ready", "set", "remove", "reserve", "data", "meta"} => NoneMarked(FM)

FsInv == TypeOK /\ CallInv /\ RamInv /\ ScratchInv /\ SetInv /\ DeleteInv /\ CommitInv

(* A replace finds room for the new file beside the old one. *)
ReplaceHasRoom ==
    pc = "reserve" /\ call.old # NoIdx =>
      Len(call.data) <= MaxFileSize /\ \E l \in LBlock : BlockMeta(l).free >= Len(call.data)
-----------------------------------------------------------------------------
(* The numbers *)

(* The next swap count is a legal count, never the erased one. *)
LEMMA NextSwapType ==
    ASSUME NEW s \in SwapCount
    PROVE  NextSwap(s) \in SwapCount /\ ValidSwapCount(NextSwap(s))
BY SwapAssumption DEF SwapCount, NextSwap, ValidSwapCount, Inc

(* Of two successive counts the choice at start takes the later one. *)
LEMMA LatestIsNext ==
    ASSUME NEW s \in SwapCount, ValidSwapCount(s)
    PROVE  /\ LatestMetaBlock(s, NextSwap(s)) = 1
           /\ LatestMetaBlock(NextSwap(s), s) = 0
BY SwapAssumption
   DEF SwapCount, NextSwap, ValidSwapCount, Inc, LatestMetaBlock, RolloverVal

(* The swap counts that the code names are counts. *)
LEMMA RolloverType == RolloverVal \in SwapCount /\ EraseVal \in SwapCount /\ 0 \in SwapCount
BY SwapAssumption DEF RolloverVal, SwapCount

(* The metadata blocks, the other one of the two, and the ranges. *)
LEMMA Blocks ==
    /\ MetaBlock \subseteq Block /\ Block \subseteq Nat
    /\ \A a \in MetaBlock : /\ Other(a) \in MetaBlock /\ Other(a) # a /\ Other(Other(a)) = a
                            /\ a \notin 2 .. NumBlocks - 1
                            /\ \A b \in MetaBlock : b = a \/ b = Other(a)
    /\ 2 .. NumBlocks - 1 \subseteq Block
    /\ 0 \in LBlock /\ LBlock \subseteq Nat
    /\ \A l \in LBlock : l # 0 => NumBlocks > 2
    /\ \A l \in LBlock : Start(l) \in 0 .. BlockSize
    /\ Start(0) = DataStart
    /\ NoIdx \notin FileIdx /\ FileIdx \subseteq Nat /\ 0 \in FileIdx
    /\ NoBlock \notin Block
BY ConfigAssumption DEF MetaBlock, Block, Other, LBlock, Start, FileIdx, NoIdx, NoBlock

(* A nonempty set of numbers has a least element, and Min is it. *)
LEMMA LeastNat ==
    ASSUME NEW T, T \subseteq Nat, T # {}
    PROVE  \E x \in T : \A y \in T : x <= y
<1> DEFINE R == {ss \in Nat \X Nat : ss[1] < ss[2]}
<1>1. IsWellFoundedOn(R, Nat)
  BY NatLessThanWellFounded DEF OpToRel
<1>2. PICK x \in T : \A y \in T : ~(<<y, x>> \in R)
  <2> HIDE DEF R
  <2> QED BY <1>1, WFMin
<1>3. ASSUME NEW y \in T PROVE x <= y
  <2>1. ~(<<y, x>> \in R) BY <1>2
  <2>2. <<y, x>> \in Nat \X Nat OBVIOUS
  <2>3. ~(<<y, x>>[1] < <<y, x>>[2])
    BY <2>1, <2>2, Zenon
  <2> QED BY <2>3
<1> QED
  BY <1>3

(* The least element of a set of naturals. *)
LEMMA MinNat ==
    ASSUME NEW T, T \subseteq Nat, T # {}
    PROVE  Min(T) \in T /\ \A y \in T : Min(T) <= y
BY LeastNat DEF Min

(* The contents that clients store are not empty sequences. *)
LEMMA ContentsType ==
    ASSUME NEW d \in Contents, 0 \notin Sizes
    PROVE  /\ Len(d) \in Nat /\ Len(d) >= 1
           /\ DOMAIN d = 1 .. Len(d) /\ d = [j \in 1 .. Len(d) |-> d[j]]
           /\ \A j \in 1 .. Len(d) : d[j] \in Value \X {j}
<1>1. PICK n \in Sizes, v \in Value : d = [j \in 1 .. n |-> <<v, j>>]
  BY DEF Contents
<1>2. n \in Nat /\ n # 0
  BY ClientAssumption
<1>3. d \in Seq(Value \X (1 .. n))
  BY <1>1, <1>2
<1>4. DOMAIN d = 1 .. n /\ Len(d) = n
  BY <1>1, <1>2, <1>3
<1> QED
  BY <1>1, <1>2, <1>4
-----------------------------------------------------------------------------
(* What a metadata block describes *)

(* An entry in no use is no file, and differs from an erased one. *)
LEMMA EmptyFileType ==
    /\ NoFid \notin Fid
    /\ EmptyFile.id = NoFid /\ EmptyFile.lblock = 0 /\ EmptyFile.flags = {}
    /\ EmptyFile \notin GoodFile
    /\ BlankFile # EmptyFile /\ BlankFile.flags = {"blank"}
BY ClientAssumption DEF EmptyFile, GoodFile, BlankFile

(* A file of a good table. *)
LEMMA LiveFile ==
    ASSUME NEW fm, GoodFiles(fm), NEW i \in FileIdx
    PROVE  /\ fm[i].id # NoFid => /\ i \in Live(fm) /\ fm[i] \in GoodFile
                                  /\ fm[i].id \in Fid /\ fm[i].lblock \in LBlock
                                  /\ fm[i].idx \in Nat /\ fm[i].max \in Nat /\ fm[i].max >= 1
                                  /\ fm[i].max <= MaxFileSize /\ fm[i].cur = fm[i].max
                                  /\ fm[i].flags \subseteq {"WRITE_ONCE", "DELETE"}
           /\ fm[i].id = NoFid => i \notin Live(fm) /\ fm[i] = EmptyFile
<1>1. fm[i] \in GoodFile \/ fm[i] = EmptyFile
  BY DEF GoodFiles
<1>2. ASSUME fm[i] \in GoodFile
      PROVE  /\ fm[i].id \in Fid /\ fm[i].lblock \in LBlock
             /\ fm[i].idx \in Nat /\ fm[i].max \in Nat /\ fm[i].max >= 1
             /\ fm[i].max <= MaxFileSize
             /\ fm[i].flags \subseteq {"WRITE_ONCE", "DELETE"}
  BY <1>2, ConfigAssumption DEF GoodFile
<1> QED
  BY <1>1, <1>2, EmptyFileType DEF Live, GoodFiles

(* Reading depends on the cells of the blocks that the table names. *)
LEMMA ReadSame ==
    ASSUME NEW bm, NEW bm2, NEW m, NEW m2, NEW c, NEW c2, m2.cur = m.cur, m.cur \in Nat,
           \A j \in 1 .. m.cur : c2[bm2[m2.lblock].phy][m2.idx + j - 1]
                                   = c[bm[m.lblock].phy][m.idx + j - 1]
    PROVE  Read(bm2, m2, c2) = Read(bm, m, c)
BY DEF Read

(* Tables with the same live files, read to the same contents, hold the    *)
(* same asset.                                                             *)
LEMMA AssetsSame ==
    ASSUME NEW bm, NEW bm2, NEW fm, NEW fm2, NEW c, NEW c2, NEW f \in Fid,
           LiveAs(fm2, f) = LiveAs(fm, f),
           \A i \in LiveAs(fm, f) :
             /\ Read(bm2, fm2[i], c2) = Read(bm, fm[i], c)
             /\ "WRITE_ONCE" \in fm2[i].flags <=> "WRITE_ONCE" \in fm[i].flags
    PROVE  Assets(bm2, fm2, c2)[f] = Assets(bm, fm, c)[f]
<1> DEFINE k == CHOOSE i \in LiveAs(fm, f) : TRUE
<1>1. CASE LiveAs(fm, f) = {}
  BY <1>1 DEF Assets
<1>2. CASE LiveAs(fm, f) # {}
  <2>1. k \in LiveAs(fm, f)
    BY <1>2
  <2>2. Assets(bm, fm, c)[f] = [data |-> Read(bm, fm[k], c), once |-> "WRITE_ONCE" \in fm[k].flags]
    BY <1>2 DEF Assets
  <2>3. Assets(bm2, fm2, c2)[f]
          = [data |-> Read(bm2, fm2[k], c2), once |-> "WRITE_ONCE" \in fm2[k].flags]
    BY <1>2 DEF Assets
  <2> HIDE DEF k
  <2>4. ("WRITE_ONCE" \in fm2[k].flags) = ("WRITE_ONCE" \in fm[k].flags)
    <3>1. "WRITE_ONCE" \in fm2[k].flags <=> "WRITE_ONCE" \in fm[k].flags
      BY <2>1
    <3> QED
      BY <3>1
  <2> QED
    BY <2>1, <2>2, <2>3, <2>4
<1> QED
  BY <1>1, <1>2

(* The asset of an id is its one file that is not marked. *)
LEMMA AssetOf ==
    ASSUME NEW bm, NEW fm, NEW c, NEW f \in Fid, GoodFiles(fm), OneEach(fm)
    PROVE  /\ \A i \in FileIdx : fm[i].id = f /\ ~Marked(fm[i]) =>
                /\ LiveAs(fm, f) = {i}
                /\ Assets(bm, fm, c)[f] = [data |-> Read(bm, fm[i], c),
                                           once |-> "WRITE_ONCE" \in fm[i].flags]
           /\ (\A i \in FileIdx : fm[i].id # f \/ Marked(fm[i])) =>
                LiveAs(fm, f) = {} /\ Assets(bm, fm, c)[f] = None
<1>1. ASSUME NEW i \in FileIdx, fm[i].id = f, ~Marked(fm[i])
      PROVE  /\ LiveAs(fm, f) = {i}
             /\ Assets(bm, fm, c)[f] = [data |-> Read(bm, fm[i], c),
                                        once |-> "WRITE_ONCE" \in fm[i].flags]
  <2>1. i \in LiveAs(fm, f)
    BY <1>1 DEF LiveAs, Marked
  <2>2. ASSUME NEW j \in LiveAs(fm, f) PROVE j = i
    BY <2>2, <1>1, EmptyFileType DEF OneEach, Live, LiveAs, Marked
  <2>3. LiveAs(fm, f) = {i}
    BY <2>1, <2>2
  <2>4. (CHOOSE k \in LiveAs(fm, f) : TRUE) = i
    BY <2>3
  <2> QED
    BY <2>3, <2>4 DEF Assets
<1>2. ASSUME \A i \in FileIdx : fm[i].id # f \/ Marked(fm[i])
      PROVE  LiveAs(fm, f) = {} /\ Assets(bm, fm, c)[f] = None
  <2>1. LiveAs(fm, f) = {}
    BY <1>2 DEF LiveAs, Marked
  <2> QED
    BY <2>1 DEF Assets
<1> QED
  BY <1>1, <1>2

(* The assets are a function of the file id. *)
LEMMA AssetsDomain ==
    ASSUME NEW bm, NEW fm, NEW c
    PROVE  Assets(bm, fm, c) = [f \in Fid |-> Assets(bm, fm, c)[f]]
BY DEF Assets

(* Cells outside the blocks that a table names do not matter to it. *)
LEMMA SoundFrame ==
    ASSUME NEW b, NEW bm, NEW fm, NEW c, NEW c2, NEW sp, Sound(b, bm, fm, c, sp),
           \A l \in LBlock : c2[bm[l].phy] = c[bm[l].phy]
    PROVE  Sound(b, bm, fm, c2, sp) /\ Assets(bm, fm, c2) = Assets(bm, fm, c)
<1>1. \A i \in Live(fm) : Read(bm, fm[i], c2) = Read(bm, fm[i], c)
  <2> TAKE i \in Live(fm)
  <2>1. fm[i].lblock \in LBlock
    BY LiveFile DEF Sound, Live
  <2> QED
    BY <2>1 DEF Read
<1>2. Whole(bm, fm, c2)
  BY <1>1 DEF Sound, Whole
<1>3. \A f \in Fid : Assets(bm, fm, c2)[f] = Assets(bm, fm, c)[f]
  <2> TAKE f \in Fid
  <2>1. LiveAs(fm, f) \subseteq Live(fm)
    BY EmptyFileType DEF LiveAs, Live
  <2> QED
    BY <2>1, <1>1, AssetsSame
<1>4. Assets(bm, fm, c2) = Assets(bm, fm, c)
  <2>1. PICK x : x = Assets(bm, fm, c)
    OBVIOUS
  <2>2. PICK y : y = Assets(bm, fm, c2)
    OBVIOUS
  <2>3. x = [f \in Fid |-> x[f]] /\ y = [f \in Fid |-> y[f]] /\ \A f \in Fid : x[f] = y[f]
    BY <2>1, <2>2, <1>3, AssetsDomain
  <2>4. x = y
    BY ONLY <2>3
  <2> QED
    BY <2>1, <2>2, <2>4
<1> QED
  BY <1>2, <1>4 DEF Sound

(* Programming an erased block gives it the new contents. *)
LEMMA ProgramBlank ==
    ASSUME NEW b \in Block, NEW to \in Nat, NEW n \in Int, NEW src,
           cell \in [Block -> [Pos -> Cell]], cell[b] = Blank
    PROVE  /\ \A j \in Pos : j \in to .. to + n - 1 =>
                ProgramCells(b, to, to, src, n)[b][j] = src[j]
           /\ \A j \in Pos : j \notin to .. to + n - 1 =>
                ProgramCells(b, to, to, src, n)[b][j] = BlankCell
           /\ \A k \in Block : k # b => ProgramCells(b, to, to, src, n)[k] = cell[k]
<1>1. \A j \in Pos : to + j - to = j /\ j \in Int
  BY ConfigAssumption DEF Pos
<1>2. \A j \in Pos : cell[b][j] = BlankCell
  BY DEF Blank
<1>3. \A j \in Pos : ProgramCells(b, to, to, src, n)[b][j] =
        IF j \notin to .. to + n - 1 THEN cell[b][j]
        ELSE LET new == src[to + j - to]
             IN  IF new = BlankCell THEN cell[b][j]
                 ELSE IF cell[b][j] \in {BlankCell, new} THEN new ELSE MixedCell
  BY DEF ProgramCells
<1> QED
  BY <1>1, <1>2, <1>3 DEF ProgramCells
-----------------------------------------------------------------------------
(* The block table that an update writes is sound. *)

(* A block that moves to the spare one keeps the mapping one to one. *)
LEMMA BlocksMoved ==
    ASSUME NEW a \in MetaBlock, NEW bm, NEW sp, NEW l \in LBlock, NEW fr \in 0 .. BlockSize,
           Mapped(a, bm, sp), GoodBlocks(bm), Start(l) + fr <= BlockSize
    PROVE  /\ Mapped(Other(a), NewBlocks(bm, a, sp, l, fr), NewSpare(bm, sp, l))
           /\ GoodBlocks(NewBlocks(bm, a, sp, l, fr))
<1> DEFINE bm2 == NewBlocks(bm, a, sp, l, fr)
<1>1. \A k \in LBlock : bm[k].phy \in Block /\ bm[k].free \in 0 .. BlockSize
                        /\ Start(k) + bm[k].free <= BlockSize
  BY DEF GoodBlocks
<1>2. /\ bm2[0].phy = Other(a)
      /\ l # 0 => bm2[l].phy = sp
      /\ \A k \in LBlock \ {0, l} : bm2[k].phy = bm[k].phy
      /\ bm2[l].free = fr
      /\ \A k \in LBlock \ {l} : bm2[k].free = bm[k].free
  BY Blocks DEF NewBlocks
<1>3. l # 0 => sp \in 2 .. NumBlocks - 1 /\ sp \in Block
  BY Blocks DEF Mapped
<1>4. GoodBlocks(bm2)
  <2>1. \A k \in LBlock : bm2[k] = [phy |-> bm2[k].phy, free |-> bm2[k].free]
    BY DEF NewBlocks
  <2>2. \A k \in LBlock : bm2[k].phy \in Block /\ bm2[k].free \in 0 .. BlockSize
    BY <1>1, <1>2, <1>3, Blocks, ZenonT(40)
  <2>3. bm2 = [k \in LBlock |-> bm2[k]]
    BY DEF NewBlocks
  <2>4. \A k \in LBlock : Start(k) + bm2[k].free <= BlockSize
    BY <1>1, <1>2
  <2> HIDE DEF bm2
  <2>5. \A k \in LBlock : bm2[k] \in [phy : Block, free : 0 .. BlockSize]
    <3> TAKE k \in LBlock
    <3>1. PICK p \in Block, n \in 0 .. BlockSize : p = bm2[k].phy /\ n = bm2[k].free
      BY <2>2
    <3>2. bm2[k] = [phy |-> p, free |-> n]
      BY <2>1, <3>1
    <3> QED
      BY <3>2
  <2> QED
    BY <2>3, <2>4, <2>5 DEF GoodBlocks
<1> HIDE DEF bm2
<1> SUFFICES Mapped(Other(a), bm2, NewSpare(bm, sp, l))
  BY <1>4 DEF bm2
<1>5. CASE l = 0
  BY <1>5, <1>2, Blocks DEF Mapped, NewSpare
<1>6. CASE l # 0
  <2>1. \A k \in LBlock \ {0} : bm2[k].phy \in 2 .. NumBlocks - 1 /\ bm2[k].phy # bm[l].phy
    BY <1>6, <1>2, <1>3 DEF Mapped
  <2>2. \A k, j \in LBlock \ {0} : bm2[k].phy = bm2[j].phy => k = j
    BY <1>6, <1>2, <1>3 DEF Mapped
  <2>3. bm[l].phy \in 2 .. NumBlocks - 1
    BY <1>6 DEF Mapped
  <2>4. \A p \in 2 .. NumBlocks - 1 :
          p = bm[l].phy \/ \E k \in LBlock \ {0} : bm2[k].phy = p
    <3> TAKE p \in 2 .. NumBlocks - 1
    <3>1. CASE p = sp
      BY <3>1, <1>6, <1>2
    <3>2. CASE p # sp
      <4>1. PICK k \in LBlock \ {0} : bm[k].phy = p
        BY <3>2, <1>6, Blocks DEF Mapped
      <4> QED
        BY <4>1, <1>2
    <3> QED
      BY <3>1, <3>2
  <2> QED
    BY <2>1, <2>2, <2>3, <2>4, <1>6, <1>2 DEF Mapped, NewSpare
<1> QED
  BY <1>5, <1>6

(* The blocks of a sound table are all different from the spare ones. *)
LEMMA SparesUnused ==
    ASSUME NEW a \in MetaBlock, NEW bm, NEW sp, Mapped(a, bm, sp), NEW l \in LBlock
    PROVE  /\ bm[l].phy # Other(a)
           /\ NumBlocks > 2 => bm[l].phy # sp
           /\ l # 0 => bm[l].phy # a /\ bm[l].phy \in 2 .. NumBlocks - 1
           /\ NumBlocks > 2 => sp # a /\ sp # Other(a) /\ sp \in Block
<1>1. l # 0 => bm[l].phy \in 2 .. NumBlocks - 1
  BY DEF Mapped
<1>2. NumBlocks > 2 => sp \in 2 .. NumBlocks - 1
  BY DEF Mapped
<1> QED
  BY <1>1, <1>2, Blocks DEF Mapped

-----------------------------------------------------------------------------
(* How the files lie in the blocks *)

(* The same places and the same free space. *)
LEMMA TiledSame ==
    ASSUME NEW bm, NEW bm2, NEW fm, NEW fm2, Tiled(bm, fm), Live(fm2) = Live(fm),
           \A i \in Live(fm) : /\ fm2[i].lblock = fm[i].lblock /\ fm2[i].idx = fm[i].idx
                               /\ fm2[i].max = fm[i].max /\ fm[i].lblock \in LBlock,
           \A l \in LBlock : bm2[l].free = bm[l].free
    PROVE  Tiled(bm2, fm2)
BY DEF Tiled, Covers, Apart

(* A new file at the start of the free space. *)
LEMMA TiledAppend ==
    ASSUME NEW bm, NEW bm2, NEW fm, NEW fm2, GoodFiles(fm), GoodBlocks(bm), Tiled(bm, fm),
           NEW i, i \notin Live(fm), Live(fm2) = Live(fm) \cup {i},
           \A j \in Live(fm) : /\ fm2[j].lblock = fm[j].lblock /\ fm2[j].idx = fm[j].idx
                               /\ fm2[j].max = fm[j].max,
           NEW l \in LBlock, NEW n \in Nat, n <= bm[l].free,
           fm2[i].lblock = l, fm2[i].idx = BlockSize - bm[l].free, fm2[i].max = n,
           bm2[l].free = bm[l].free - n,
           \A k \in LBlock \ {l} : bm2[k].free = bm[k].free
    PROVE  Tiled(bm2, fm2)
<1>1. \A k \in LBlock : /\ bm[k].free \in Nat /\ bm[k].free <= BlockSize /\ Start(k) \in Nat
                        /\ Start(k) + bm[k].free <= BlockSize
  BY Blocks, ConfigAssumption DEF GoodBlocks
<1>2. \A j \in Live(fm) : /\ fm[j].lblock \in LBlock /\ fm[j].idx \in Nat /\ fm[j].max \in Nat
                          /\ Start(fm[j].lblock) <= fm[j].idx
                          /\ fm[j].idx + fm[j].max + bm[fm[j].lblock].free <= BlockSize
  BY LiveFile DEF Tiled, Live
<1>3. BlockSize \in Nat
  BY ConfigAssumption
<1>4. ASSUME NEW j \in Live(fm2)
      PROVE  /\ Start(fm2[j].lblock) <= fm2[j].idx
             /\ fm2[j].idx + fm2[j].max + bm2[fm2[j].lblock].free <= BlockSize
  <2>1. CASE j = i
    BY <2>1, <1>1, <1>3
  <2>2. CASE j \in Live(fm) /\ fm[j].lblock = l
    BY <2>2, <1>1, <1>2, <1>3
  <2>3. CASE j \in Live(fm) /\ fm[j].lblock # l
    BY <2>3, <1>2
  <2> QED
    BY <2>1, <2>2, <2>3
<1>5. ASSUME NEW k \in LBlock, NEW p \in Start(k) .. BlockSize - bm2[k].free - 1
      PROVE  \E j \in Live(fm2) : Covers(fm2[j], k, p)
  <2>1. CASE p <= BlockSize - bm[k].free - 1
    <3>1. p \in Start(k) .. BlockSize - bm[k].free - 1
      BY <2>1, <1>1, <1>3
    <3>2. PICK j \in Live(fm) : Covers(fm[j], k, p)
      BY <3>1 DEF Tiled
    <3>3. Covers(fm2[j], k, p)
      BY <3>2 DEF Covers
    <3> QED
      BY <3>3
  <2>2. CASE ~(p <= BlockSize - bm[k].free - 1)
    <3>1. k = l
      BY <2>2, <1>1, <1>3
    <3>2. Covers(fm2[i], k, p)
      BY <3>1, <2>2, <1>1, <1>3 DEF Covers
    <3> QED
      BY <3>2
  <2> QED
    BY <2>1, <2>2
<1>6. ASSUME NEW j \in Live(fm2), NEW k \in Live(fm2), j # k
      PROVE  Apart(fm2[j], fm2[k])
  <2>1. CASE j \in Live(fm) /\ k \in Live(fm)
    BY <2>1, <1>6 DEF Tiled, Apart
  <2>2. CASE j = i /\ k \in Live(fm)
    BY <2>2, <1>1, <1>2, <1>3 DEF Apart
  <2>3. CASE k = i /\ j \in Live(fm)
    BY <2>3, <1>1, <1>2, <1>3 DEF Apart
  <2> QED
    BY <2>1, <2>2, <2>3, <1>6
<1> QED
  BY <1>4, <1>5, <1>6 DEF Tiled

(* File o is gone and what lay behind it has moved up. *)
LEMMA TiledDelete ==
    ASSUME NEW bm, NEW bm2, NEW fm, NEW fm2, GoodFiles(fm), GoodBlocks(bm), Tiled(bm, fm),
           NEW o \in Live(fm), Live(fm2) = Live(fm) \ {o},
           \A j \in Live(fm) \ {o} :
             /\ fm2[j].lblock = fm[j].lblock /\ fm2[j].max = fm[j].max
             /\ fm2[j].idx = IF fm[j].lblock = fm[o].lblock /\ fm[j].idx > fm[o].idx
                               THEN fm[j].idx - fm[o].max ELSE fm[j].idx,
           bm2[fm[o].lblock].free = bm[fm[o].lblock].free + fm[o].max,
           \A k \in LBlock \ {fm[o].lblock} : bm2[k].free = bm[k].free
    PROVE  Tiled(bm2, fm2)
<1>1. \A k \in LBlock : /\ bm[k].free \in Nat /\ bm[k].free <= BlockSize /\ Start(k) \in Nat
                        /\ Start(k) + bm[k].free <= BlockSize
  BY Blocks, ConfigAssumption DEF GoodBlocks
<1>2. \A j \in Live(fm) : /\ fm[j].lblock \in LBlock /\ fm[j].idx \in Nat
                          /\ fm[j].max \in Nat /\ fm[j].max >= 1
                          /\ Start(fm[j].lblock) <= fm[j].idx
                          /\ fm[j].idx + fm[j].max + bm[fm[j].lblock].free <= BlockSize
  BY LiveFile DEF Tiled, Live
<1>3. BlockSize \in Nat
  BY ConfigAssumption
<1>4. ASSUME NEW j \in Live(fm), j # o, fm[j].lblock = fm[o].lblock
      PROVE  fm[j].idx + fm[j].max <= fm[o].idx \/ fm[o].idx + fm[o].max <= fm[j].idx
  BY <1>4 DEF Tiled, Apart
<1>5. ASSUME NEW j \in Live(fm2)
      PROVE  /\ Start(fm2[j].lblock) <= fm2[j].idx
             /\ fm2[j].idx + fm2[j].max + bm2[fm2[j].lblock].free <= BlockSize
  <2>1. j \in Live(fm) /\ j # o
    OBVIOUS
  <2>2. CASE fm[j].lblock = fm[o].lblock
    BY <2>1, <2>2, <1>1, <1>2, <1>3, <1>4
  <2>3. CASE fm[j].lblock # fm[o].lblock
    BY <2>1, <2>3, <1>2
  <2> QED
    BY <2>2, <2>3
<1>6. ASSUME NEW k \in LBlock, NEW p \in Start(k) .. BlockSize - bm2[k].free - 1
      PROVE  \E j \in Live(fm2) : Covers(fm2[j], k, p)
  <2>1. CASE k # fm[o].lblock
    <3>1. PICK j \in Live(fm) : Covers(fm[j], k, p)
      BY <2>1, <1>1 DEF Tiled
    <3>2. j # o /\ fm[j].lblock # fm[o].lblock
      BY <3>1, <2>1 DEF Covers
    <3> QED
      BY <3>1, <3>2 DEF Covers
  <2>2. CASE k = fm[o].lblock /\ p < fm[o].idx
    <3>1. p \in Start(k) .. BlockSize - bm[k].free - 1
      BY <2>2, <1>1, <1>2, <1>3
    <3>2. PICK j \in Live(fm) : Covers(fm[j], k, p)
      BY <3>1 DEF Tiled
    <3>3. j # o /\ ~(fm[j].idx > fm[o].idx)
      BY <3>2, <2>2, <1>1, <1>2 DEF Covers
    <3> QED
      BY <3>2, <3>3 DEF Covers
  <2>3. CASE k = fm[o].lblock /\ ~(p < fm[o].idx)
    <3>1. p + fm[o].max \in Start(k) .. BlockSize - bm[k].free - 1
      BY <2>3, <1>1, <1>2, <1>3
    <3>2. PICK j \in Live(fm) : Covers(fm[j], k, p + fm[o].max)
      BY <3>1 DEF Tiled
    <3>3. j # o /\ fm[j].lblock = k
      BY <3>2, <2>3, <1>1, <1>2 DEF Covers
    <3>4. fm[o].idx + fm[o].max <= fm[j].idx
      BY <3>2, <3>3, <2>3, <1>1, <1>2, <1>4 DEF Covers
    <3>5. fm2[j].idx = fm[j].idx - fm[o].max
      BY <3>3, <3>4, <2>3, <1>2
    <3>6. Covers(fm2[j], k, p)
      BY <3>2, <3>3, <3>5, <1>1, <1>2 DEF Covers
    <3> QED
      BY <3>3, <3>6
  <2> QED
    BY <2>1, <2>2, <2>3
<1>7. ASSUME NEW j \in Live(fm2), NEW k \in Live(fm2), j # k
      PROVE  Apart(fm2[j], fm2[k])
  <2>1. j \in Live(fm) /\ k \in Live(fm) /\ j # o /\ k # o
    OBVIOUS
  <2>2. fm[j].lblock = fm[k].lblock =>
          fm[j].idx + fm[j].max <= fm[k].idx \/ fm[k].idx + fm[k].max <= fm[j].idx
    BY <2>1, <1>7 DEF Tiled, Apart
  <2>3. CASE fm[j].lblock # fm[k].lblock \/ fm[j].lblock # fm[o].lblock
    BY <2>1, <2>2, <2>3 DEF Apart
  <2>4. CASE fm[j].lblock = fm[k].lblock /\ fm[j].lblock = fm[o].lblock
    BY <2>1, <2>2, <2>4, <1>2, <1>4 DEF Apart
  <2> QED
    BY <2>3, <2>4
<1> QED
  BY <1>5, <1>6, <1>7 DEF Tiled
-----------------------------------------------------------------------------
(* What a set commits *)

(* From the sound tables bm and fm a set of f to d gives bm2 and fm2. *)
SetStep(a, bm, fm, c, sp, f, d, o, i, old, l, x, fr, bm2, fm2) ==
    /\ a \in MetaBlock /\ Sound(a, bm, fm, c, sp) /\ NoneMarked(fm) /\ 0 \notin Sizes
    /\ f \in Fid /\ d \in Contents /\ o \in BOOLEAN /\ i \in FileIdx /\ l \in LBlock
    /\ Place(bm, fm, f, Len(d), i, old, l, x, fr)
    /\ bm2 = NewBlocks(bm, a, sp, l, fr)
    /\ fm2 = AfterSet(fm, i, old, PlacedFile(f, l, x, d, o))

(* Marking a file for deletion changes its flags only. *)
LEMMA MarkedFileType ==
    ASSUME NEW m \in GoodFile
    PROVE  /\ MarkFile(m) \in GoodFile /\ Marked(MarkFile(m))
           /\ MarkFile(m).id = m.id /\ MarkFile(m).lblock = m.lblock /\ MarkFile(m).idx = m.idx
           /\ MarkFile(m).max = m.max /\ MarkFile(m).cur = m.cur
BY DEF GoodFile, MarkFile, Marked

(* The entry of a new file is a good one. *)
LEMMA PlacedFileType ==
    ASSUME NEW f \in Fid, NEW l \in LBlock, NEW x \in 0 .. BlockSize, NEW d, NEW o \in BOOLEAN,
           Len(d) \in 1 .. MaxFileSize
    PROVE  /\ PlacedFile(f, l, x, d, o) \in GoodFile
           /\ ~Marked(PlacedFile(f, l, x, d, o))
           /\ PlacedFile(f, l, x, d, o).cur = PlacedFile(f, l, x, d, o).max
<1>1. (IF o THEN {"WRITE_ONCE"} ELSE {}) \in SUBSET {"WRITE_ONCE", "DELETE"}
  OBVIOUS
<1>2. "DELETE" \notin (IF o THEN {"WRITE_ONCE"} ELSE {})
  OBVIOUS
<1> QED
  BY <1>1, <1>2 DEF PlacedFile, GoodFile, Marked

(* Everything a set needs to know of the place *)
LEMMA PlaceType ==
    ASSUME NEW a, NEW bm, NEW fm, NEW c, NEW sp, NEW f, NEW d, NEW o, NEW i, NEW old,
           NEW l, NEW x, NEW fr, NEW bm2, NEW fm2,
           SetStep(a, bm, fm, c, sp, f, d, o, i, old, l, x, fr, bm2, fm2)
    PROVE  /\ Len(d) \in 1 .. MaxFileSize /\ x \in 0 .. BlockSize /\ fr \in 0 .. BlockSize
           /\ Start(l) <= x /\ x + Len(d) + fr <= BlockSize
           /\ bm[l].free \in Nat
           /\ old \in FileIdx => fm[old].id = f /\ old \in Live(fm)
           /\ i # old => i \notin Live(fm)
           /\ \A k \in Live(fm) : k # old => fm[k].id # f \/ old \in FileIdx
<1>0. /\ a \in MetaBlock /\ Sound(a, bm, fm, c, sp) /\ NoneMarked(fm) /\ 0 \notin Sizes
      /\ f \in Fid /\ d \in Contents /\ o \in BOOLEAN /\ i \in FileIdx /\ l \in LBlock
      /\ Place(bm, fm, f, Len(d), i, old, l, x, fr)
      /\ bm2 = NewBlocks(bm, a, sp, l, fr)
      /\ fm2 = AfterSet(fm, i, old, PlacedFile(f, l, x, d, o))
  BY DEF SetStep
<1> USE <1>0
<1>1. bm[l].free \in 0 .. BlockSize /\ Start(l) + bm[l].free <= BlockSize
  BY DEF Sound, GoodBlocks
<1>2. Len(d) \in Nat /\ Len(d) >= 1
  BY ContentsType
<1>3. Start(l) \in 0 .. BlockSize /\ BlockSize \in Nat /\ MaxFileSize \in Nat
  BY Blocks, ConfigAssumption
<1>4. NoFid \notin Fid /\ NoIdx \notin FileIdx
  BY EmptyFileType, Blocks
<1>5. CASE i = old
  <2>1. /\ i = old /\ fm[i].id = f /\ fm[i].max = Len(d)
        /\ l = fm[i].lblock /\ x = fm[i].idx /\ fr = bm[l].free
    BY <1>5 DEF Place
  <2>2. i \in Live(fm) /\ fm[i].max <= MaxFileSize /\ fm[i].idx \in Nat
    BY <2>1, <1>4, LiveFile DEF Sound
  <2>3. Start(l) <= x /\ x + Len(d) + fr <= BlockSize
    BY <2>1, <2>2 DEF Sound, Tiled
  <2>4. x \in 0 .. BlockSize /\ fr \in 0 .. BlockSize /\ Len(d) \in 1 .. MaxFileSize
    BY <2>1, <2>2, <2>3, <1>1, <1>2, <1>3, SMTT(30)
  <2> QED
    BY <2>1, <2>2, <2>3, <2>4, <1>1
<1>6. CASE i # old
  <2>1. /\ fm[i].id = NoFid /\ Len(d) <= MaxFileSize /\ Len(d) <= bm[l].free
        /\ x = BlockSize - bm[l].free /\ fr = bm[l].free - Len(d)
        /\ \/ old = NoIdx /\ \A k \in FileIdx : fm[k].id # f
           \/ old \in FileIdx /\ fm[old].id = f
    BY <1>6 DEF Place
  <2>2. /\ Len(d) \in 1 .. MaxFileSize /\ x \in 0 .. BlockSize /\ fr \in 0 .. BlockSize
        /\ Start(l) <= x /\ x + Len(d) + fr <= BlockSize
    <3>1. PICK n \in Nat, w \in Nat, s \in Nat : n = Len(d) /\ w = bm[l].free /\ s = Start(l)
      BY <1>1, <1>2, <1>3
    <3>2. /\ n >= 1 /\ n <= MaxFileSize /\ n <= w /\ w <= BlockSize /\ s + w <= BlockSize
          /\ x = BlockSize - w /\ fr = w - n
      BY <3>1, <2>1, <1>1, <1>2
    <3>3. /\ n \in 1 .. MaxFileSize /\ x \in 0 .. BlockSize /\ fr \in 0 .. BlockSize
          /\ s <= x /\ x + n + fr <= BlockSize
      BY <3>2, <1>3
    <3> QED
      BY <3>1, <3>3
  <2>3. i \notin Live(fm)
    BY <2>1 DEF Live
  <2>4. old \in FileIdx => fm[old].id = f /\ old \in Live(fm)
    BY <2>1, <1>4 DEF Live
  <2> QED
    BY <2>1, <2>2, <2>3, <2>4, <1>1, <1>4 DEF Live
<1> QED
  BY <1>5, <1>6

(* The file table that a set writes. *)
LEMMA SetFiles ==
    ASSUME NEW a, NEW bm, NEW fm, NEW c, NEW sp, NEW f, NEW d, NEW o, NEW i, NEW old,
           NEW l, NEW x, NEW fr, NEW bm2, NEW fm2,
           SetStep(a, bm, fm, c, sp, f, d, o, i, old, l, x, fr, bm2, fm2)
    PROVE  /\ GoodFiles(fm2) /\ OneEach(fm2) /\ Spared(fm2)
           /\ Live(fm2) = Live(fm) \cup {i}
           /\ fm2[i] = PlacedFile(f, l, x, d, o) /\ ~Marked(fm2[i])
           /\ \A k \in Live(fm) \ {i} : k # old => fm2[k] = fm[k] /\ fm[k].id # f
           /\ \A k \in Live(fm) \ {i} : k = old => fm2[k] = MarkFile(fm[k]) /\ Marked(fm2[k])
           /\ \A k \in Live(fm) \ {i} :
                /\ fm2[k].id = fm[k].id /\ fm2[k].lblock = fm[k].lblock
                /\ fm2[k].idx = fm[k].idx /\ fm2[k].max = fm[k].max /\ fm2[k].cur = fm[k].cur
<1>0. /\ a \in MetaBlock /\ Sound(a, bm, fm, c, sp) /\ NoneMarked(fm) /\ 0 \notin Sizes
      /\ f \in Fid /\ d \in Contents /\ o \in BOOLEAN /\ i \in FileIdx /\ l \in LBlock
      /\ Place(bm, fm, f, Len(d), i, old, l, x, fr)
      /\ bm2 = NewBlocks(bm, a, sp, l, fr)
      /\ fm2 = AfterSet(fm, i, old, PlacedFile(f, l, x, d, o))
  BY DEF SetStep
<1> USE <1>0
<1> DEFINE m == PlacedFile(f, l, x, d, o)
<1>1. /\ Len(d) \in 1 .. MaxFileSize /\ x \in 0 .. BlockSize
      /\ old \in FileIdx => fm[old].id = f /\ old \in Live(fm)
      /\ i # old => i \notin Live(fm)
  BY PlaceType
<1>2. m \in GoodFile /\ ~Marked(m) /\ m.cur = m.max /\ m.id = f
  BY <1>1, PlacedFileType DEF PlacedFile
<1> HIDE DEF m
<1>3. /\ DOMAIN fm2 = FileIdx /\ fm2[i] = m
      /\ \A k \in FileIdx \ {i, old} : fm2[k] = fm[k]
      /\ old \in FileIdx /\ i # old => fm2[old] = MarkFile(fm[old])
      /\ fm2 = [k \in FileIdx |-> fm2[k]]
  BY DEF AfterSet, m
<1>4. \A k \in FileIdx : (k \in Live(fm) => fm[k] \in GoodFile /\ fm[k].cur = fm[k].max)
                         /\ (k \notin Live(fm) => fm[k] = EmptyFile)
  BY LiveFile DEF Sound, Live
<1>5. \A k \in FileIdx : fm2[k] \in GoodFile \cup {EmptyFile}
  <2> TAKE k \in FileIdx
  <2>1. CASE k = i
    BY <2>1, <1>2, <1>3
  <2>2. CASE k # i /\ k = old
    BY <2>2, <1>1, <1>3, <1>4, MarkedFileType
  <2>3. CASE k # i /\ k # old
    BY <2>3, <1>3, <1>4
  <2> QED
    BY <2>1, <2>2, <2>3
<1>6. Live(fm2) = Live(fm) \cup {i}
  <2>1. ASSUME NEW k \in FileIdx PROVE fm2[k].id # NoFid <=> fm[k].id # NoFid \/ k = i
    <3>1. CASE k = i
      BY <3>1, <1>2, <1>3, EmptyFileType
    <3>2. CASE k # i /\ k = old
      BY <3>2, <1>1, <1>3, <1>4, MarkedFileType
    <3>3. CASE k # i /\ k # old
      BY <3>3, <1>3
    <3> QED
      BY <3>1, <3>2, <3>3
  <2> QED
    BY <2>1 DEF Live
<1>7. \A k \in Live(fm) \ {i} : k = old => fm2[k] = MarkFile(fm[k]) /\ Marked(fm2[k])
  BY <1>3, <1>4, MarkedFileType DEF Live
<1>8. \A k \in Live(fm) \ {i} : k # old => fm2[k] = fm[k]
  BY <1>3 DEF Live
<1>9. ASSUME NEW k \in Live(fm), k # i, k # old PROVE fm[k].id # f
  <2>1. CASE old \in FileIdx
    <3>1. old \in Live(fm) /\ fm[old].id = f
      BY <2>1, <1>1
    <3> QED
      BY <3>1, <1>9 DEF Sound, OneEach, NoneMarked
  <2>2. CASE old \notin FileIdx
    BY <2>2, <1>9 DEF Place, Live
  <2> QED
    BY <2>1, <2>2
<1>10. \A k \in Live(fm) \ {i} :
         /\ fm2[k].id = fm[k].id /\ fm2[k].lblock = fm[k].lblock
         /\ fm2[k].idx = fm[k].idx /\ fm2[k].max = fm[k].max /\ fm2[k].cur = fm[k].cur
  <2> TAKE k \in Live(fm) \ {i}
  <2>1. k \in FileIdx /\ fm[k] \in GoodFile
    BY <1>4 DEF Live
  <2> QED
    BY <2>1, <1>7, <1>8, MarkedFileType
<1>11. GoodFiles(fm2)
  <2>1. \A k \in Live(fm2) : fm2[k].cur = fm2[k].max
    BY <1>2, <1>3, <1>4, <1>6, <1>10 DEF Live
  <2> QED
    BY <2>1, <1>3, <1>5 DEF GoodFiles
<1>12. OneEach(fm2)
  <2>1. ASSUME NEW j \in Live(fm2), NEW k \in Live(fm2), j # k, fm2[j].id = fm2[k].id
        PROVE  Marked(fm2[j]) \/ Marked(fm2[k])
    <3>1. CASE j # i /\ k # i
      BY <3>1, <2>1, <1>6, <1>10, <1>7, <1>8 DEF Sound, OneEach
    <3>2. CASE j = i \/ k = i
      BY <3>2, <2>1, <1>2, <1>3, <1>6, <1>7, <1>8, <1>9
    <3> QED
      BY <3>1, <3>2
  <2>2. \A k \in Live(fm2) : Marked(fm2[k]) => k = old /\ k # i /\ k \in Live(fm)
    BY <1>2, <1>3, <1>6, <1>8 DEF NoneMarked
  <2>3. \A k \in Live(fm2) : Marked(fm2[k]) =>
          fm2[k].id = fm2[i].id /\ ~Marked(fm2[i]) /\ i \in Live(fm2)
    BY <2>2, <1>1, <1>2, <1>3, <1>6, <1>10 DEF Live
  <2> QED
    BY <2>1, <2>2, <2>3 DEF OneEach
<1>13. Spared(fm2)
  <2>1. CASE i = old
    <3>1. PICK k \in FileIdx : fm[k].id = NoFid \/ Marked(fm[k])
      BY DEF Sound, Spared
    <3>2. fm[k].id = NoFid
      BY <3>1, EmptyFileType DEF NoneMarked, Live, Marked
    <3>3. k # i
      BY <3>2, <2>1, <1>1, EmptyFileType
    <3> QED
      BY <3>2, <3>3, <2>1, <1>3 DEF Spared
  <2>2. CASE i # old /\ old \in FileIdx
    BY <2>2, <1>1, <1>7 DEF Spared
  <2>3. CASE i # old /\ old \notin FileIdx
    <3>1. PICK k \in FileIdx : k # i /\ fm[k].id = NoFid
      BY <2>3 DEF Place
    <3> QED
      BY <3>1, <2>3, <1>3 DEF Spared
  <2> QED
    BY <2>1, <2>2, <2>3
<1> QED
  BY <1>2, <1>3, <1>6, <1>7, <1>8, <1>9, <1>10, <1>11, <1>12, <1>13 DEF m

(* The data block l rewritten around the new contents, the others moved. *)
SetCells(c, bm, bm2, l, x, d) ==
    \A k \in LBlock : \A p \in Start(k) .. BlockSize - bm2[k].free - 1 :
      c[bm2[k].phy][p] = IF k = l /\ p \in x .. x + Len(d) - 1 THEN d[p - x + 1]
                         ELSE c[bm[k].phy][p]

(* The free cells of the blocks that an update writes. *)
LEMMA NewFree ==
    ASSUME NEW bm, NEW a, NEW sp, NEW l \in LBlock, NEW fr
    PROVE  /\ NewBlocks(bm, a, sp, l, fr)[l].free = fr
           /\ \A k \in LBlock \ {l} : NewBlocks(bm, a, sp, l, fr)[k].free = bm[k].free
BY DEF NewBlocks

(* With the new file in place the files still tile their blocks. *)
LEMMA SetTiled ==
    ASSUME NEW a, NEW bm, NEW fm, NEW c, NEW sp, NEW f, NEW d, NEW o, NEW i, NEW old,
           NEW l, NEW x, NEW fr, NEW bm2, NEW fm2,
           SetStep(a, bm, fm, c, sp, f, d, o, i, old, l, x, fr, bm2, fm2)
    PROVE  Tiled(bm2, fm2)
<1>0. /\ a \in MetaBlock /\ Sound(a, bm, fm, c, sp) /\ NoneMarked(fm) /\ 0 \notin Sizes
      /\ f \in Fid /\ d \in Contents /\ o \in BOOLEAN /\ i \in FileIdx /\ l \in LBlock
      /\ Place(bm, fm, f, Len(d), i, old, l, x, fr)
      /\ bm2 = NewBlocks(bm, a, sp, l, fr)
      /\ fm2 = AfterSet(fm, i, old, PlacedFile(f, l, x, d, o))
  BY DEF SetStep
<1> USE <1>0
<1>1. /\ Live(fm2) = Live(fm) \cup {i} /\ fm2[i] = PlacedFile(f, l, x, d, o)
      /\ \A k \in Live(fm) \ {i} : /\ fm2[k].lblock = fm[k].lblock
                                   /\ fm2[k].idx = fm[k].idx /\ fm2[k].max = fm[k].max
  BY SetFiles
<1>2. fm2[i].lblock = l /\ fm2[i].idx = x /\ fm2[i].max = Len(d)
  BY <1>1 DEF PlacedFile
<1>3. bm2[l].free = fr /\ \A k \in LBlock \ {l} : bm2[k].free = bm[k].free
  BY NewFree
<1>4. GoodFiles(fm) /\ GoodBlocks(bm) /\ Tiled(bm, fm)
  BY DEF Sound
<1>5. CASE i = old
  <2>1. /\ fm[i].id = f /\ fm[i].max = Len(d)
        /\ l = fm[i].lblock /\ x = fm[i].idx /\ fr = bm[l].free
    BY <1>5 DEF Place
  <2>2. i \in Live(fm)
    BY <2>1, EmptyFileType, SMTT(30) DEF Live
  <2>3. \A k \in Live(fm) : /\ fm2[k].lblock = fm[k].lblock /\ fm2[k].idx = fm[k].idx
                            /\ fm2[k].max = fm[k].max /\ fm[k].lblock \in LBlock
    BY <2>1, <1>1, <1>2, <1>4, LiveFile, SMTT(30) DEF Live
  <2>4. \A k \in LBlock : bm2[k].free = bm[k].free
    BY <2>1, <1>3
  <2> QED
    <3>1. Live(fm2) = Live(fm) /\ Tiled(bm, fm)
      BY <2>2, <1>1, <1>4
    <3> QED
      BY ONLY <3>1, <2>3, <2>4, TiledSame
<1>6. CASE i # old
  <2>1. /\ Len(d) <= bm[l].free /\ x = BlockSize - bm[l].free /\ fr = bm[l].free - Len(d)
    BY <1>6 DEF Place
  <2>2. i \notin Live(fm) /\ Len(d) \in Nat
    BY <1>6, PlaceType, ContentsType
  <2> QED
    BY <2>1, <2>2, <1>1, <1>2, <1>3, <1>4, TiledAppend
<1> QED
  BY <1>5, <1>6

(* The new file reads as its contents and the others as before. *)
LEMMA SetReads ==
    ASSUME NEW a, NEW bm, NEW fm, NEW c, NEW sp, NEW f, NEW d, NEW o, NEW i, NEW old,
           NEW l, NEW x, NEW fr, NEW bm2, NEW fm2,
           SetStep(a, bm, fm, c, sp, f, d, o, i, old, l, x, fr, bm2, fm2),
           GoodBlocks(bm2), SetCells(c, bm, bm2, l, x, d)
    PROVE  /\ Read(bm2, fm2[i], c) = d
           /\ \A k \in Live(fm) \ {i} : Read(bm2, fm2[k], c) = Read(bm, fm[k], c)
<1>0. /\ a \in MetaBlock /\ Sound(a, bm, fm, c, sp) /\ NoneMarked(fm) /\ 0 \notin Sizes
      /\ f \in Fid /\ d \in Contents /\ o \in BOOLEAN /\ i \in FileIdx /\ l \in LBlock
      /\ Place(bm, fm, f, Len(d), i, old, l, x, fr)
      /\ bm2 = NewBlocks(bm, a, sp, l, fr)
      /\ fm2 = AfterSet(fm, i, old, PlacedFile(f, l, x, d, o))
  BY DEF SetStep
<1> USE <1>0
<1>1. /\ Live(fm2) = Live(fm) \cup {i} /\ fm2[i] = PlacedFile(f, l, x, d, o)
      /\ \A k \in Live(fm) \ {i} : /\ fm2[k].lblock = fm[k].lblock /\ fm2[k].idx = fm[k].idx
                                   /\ fm2[k].max = fm[k].max /\ fm2[k].cur = fm[k].cur
  BY SetFiles
<1>2. fm2[i].lblock = l /\ fm2[i].idx = x /\ fm2[i].max = Len(d) /\ fm2[i].cur = Len(d)
  BY <1>1 DEF PlacedFile
<1>3. bm2[l].free = fr
  BY NewFree
<1>4. Tiled(bm2, fm2)
  BY SetTiled
<1>5. /\ Len(d) \in Nat /\ x \in Nat /\ fr \in Nat /\ Start(l) <= x
      /\ x + Len(d) + fr <= BlockSize
      /\ BlockSize \in Nat /\ \A k \in LBlock : Start(k) \in Nat
  BY PlaceType, Blocks, ConfigAssumption, ContentsType
<1>6. Read(bm2, fm2[i], c) = d
  <2>1. ASSUME NEW j \in 1 .. Len(d) PROVE c[bm2[l].phy][x + j - 1] = d[j]
    <3>1. PICK n \in Nat, s \in Nat : n = Len(d) /\ s = Start(l)
      BY <1>5
    <3>2. /\ x + j - 1 \in s .. BlockSize - fr - 1 /\ x + j - 1 \in x .. x + n - 1
          /\ (x + j - 1) - x + 1 = j
      BY <3>1, <1>5
    <3> QED
      BY <3>1, <3>2, <1>3 DEF SetCells
  <2>2. Read(bm2, fm2[i], c) = [j \in 1 .. Len(d) |-> c[bm2[l].phy][x + j - 1]]
    BY <1>2 DEF Read
  <2>3. d = [j \in 1 .. Len(d) |-> d[j]]
    BY ContentsType
  <2> QED
    BY <2>1, <2>2, <2>3
<1>7. ASSUME NEW k \in Live(fm), k # i PROVE Read(bm2, fm2[k], c) = Read(bm, fm[k], c)
  <2>1. PICK lk \in LBlock, y \in Nat, w \in Nat :
          lk = fm[k].lblock /\ y = fm[k].idx /\ w = fm[k].max /\ fm[k].cur = w
    BY LiveFile DEF Sound, Live
  <2>2. fm2[k].lblock = lk /\ fm2[k].idx = y /\ fm2[k].max = w /\ fm2[k].cur = w
    BY <2>1, <1>1, <1>7
  <2>3. Start(lk) <= y /\ y + w + bm2[lk].free <= BlockSize
    BY <2>2, <1>1, <1>4 DEF Tiled
  <2>4. lk = l => y + w <= x \/ x + Len(d) <= y
    <3>1. Apart(fm2[k], fm2[i])
      BY <1>1, <1>4, <1>7 DEF Tiled
    <3> QED
      BY <3>1, <2>2, <1>2 DEF Apart
  <2>5. bm2[lk].free \in Nat
    BY ConfigAssumption DEF GoodBlocks
  <2>6. ASSUME NEW j \in 1 .. w
        PROVE  c[bm2[lk].phy][y + j - 1] = c[bm[lk].phy][y + j - 1]
    <3>1. PICK n \in Nat, s \in Nat, q \in Nat : n = Len(d) /\ s = Start(lk) /\ q = bm2[lk].free
      BY <1>5, <2>5
    <3>2. y + j - 1 \in s .. BlockSize - q - 1
      BY <3>1, <2>3, <1>5, SMTT(30)
    <3>3. ~(lk = l /\ y + j - 1 \in x .. x + n - 1)
      BY <3>1, <2>4, <1>5
    <3> QED
      BY <3>1, <3>2, <3>3 DEF SetCells
  <2> QED
    BY <2>1, <2>2, <2>6 DEF Read
<1> QED
  BY <1>6, <1>7

(* A set leaves a sound table behind, in which f has the new contents and  *)
(* every other asset is as before.                                         *)
LEMMA SetSound ==
    ASSUME NEW a, NEW bm, NEW fm, NEW c, NEW sp, NEW f, NEW d, NEW o, NEW i, NEW old,
           NEW l, NEW x, NEW fr, NEW bm2, NEW fm2,
           SetStep(a, bm, fm, c, sp, f, d, o, i, old, l, x, fr, bm2, fm2),
           SetCells(c, bm, bm2, l, x, d)
    PROVE  /\ Sound(Other(a), bm2, fm2, c, NewSpare(bm, sp, l))
           /\ Assets(bm2, fm2, c) = [Assets(bm, fm, c) EXCEPT ![f] = [data |-> d, once |-> o]]
           /\ IF old \in {NoIdx, i} THEN NoneMarked(fm2)
              ELSE old \in FileIdx /\ fm2[old].id # NoFid /\ Marked(fm2[old])
<1>0. /\ a \in MetaBlock /\ Sound(a, bm, fm, c, sp) /\ NoneMarked(fm) /\ 0 \notin Sizes
      /\ f \in Fid /\ d \in Contents /\ o \in BOOLEAN /\ i \in FileIdx /\ l \in LBlock
      /\ Place(bm, fm, f, Len(d), i, old, l, x, fr)
      /\ bm2 = NewBlocks(bm, a, sp, l, fr)
      /\ fm2 = AfterSet(fm, i, old, PlacedFile(f, l, x, d, o))
  BY DEF SetStep
<1> USE <1>0
<1>1. Mapped(Other(a), bm2, NewSpare(bm, sp, l)) /\ GoodBlocks(bm2)
  <2>1. fr \in 0 .. BlockSize /\ Start(l) + fr <= BlockSize
    <3>1. /\ Len(d) \in Nat /\ x \in Nat /\ fr \in 0 .. BlockSize /\ Start(l) <= x
          /\ x + Len(d) + fr <= BlockSize
          /\ BlockSize \in Nat /\ Start(l) \in Nat
      BY PlaceType, Blocks, ConfigAssumption, ContentsType
    <3> QED
      BY <3>1
  <2> QED
    BY <2>1, BlocksMoved DEF Sound
<1>2. /\ GoodFiles(fm2) /\ OneEach(fm2) /\ Spared(fm2)
      /\ Live(fm2) = Live(fm) \cup {i}
      /\ fm2[i] = PlacedFile(f, l, x, d, o) /\ ~Marked(fm2[i])
      /\ \A k \in Live(fm) \ {i} : k # old => fm2[k] = fm[k] /\ fm[k].id # f
      /\ \A k \in Live(fm) \ {i} : k = old => Marked(fm2[k])
      /\ \A k \in Live(fm) \ {i} : fm2[k].id = fm[k].id
  BY SetFiles
<1>3. Tiled(bm2, fm2)
  BY SetTiled
<1>4. /\ Read(bm2, fm2[i], c) = d
      /\ \A k \in Live(fm) \ {i} : Read(bm2, fm2[k], c) = Read(bm, fm[k], c)
  BY <1>1, SetReads
<1>5. Whole(bm2, fm2, c)
  BY <1>2, <1>4 DEF Sound, Whole
<1>6. Sound(Other(a), bm2, fm2, c, NewSpare(bm, sp, l))
  BY <1>1, <1>2, <1>3, <1>5 DEF Sound
<1>7. fm2[i].id = f /\ ("WRITE_ONCE" \in fm2[i].flags <=> o)
  BY <1>2 DEF PlacedFile
<1>8. old \in FileIdx => fm[old].id = f /\ old \in Live(fm)
  BY PlaceType
<1>9. Assets(bm2, fm2, c)[f] = [data |-> d, once |-> o]
  <2>1. Assets(bm2, fm2, c)[f] = [data |-> Read(bm2, fm2[i], c),
                                  once |-> "WRITE_ONCE" \in fm2[i].flags]
    BY <1>2, <1>7, AssetOf
  <2>2. ("WRITE_ONCE" \in fm2[i].flags) = o
    BY <1>7
  <2> QED
    BY <2>1, <2>2, <1>4
<1>10. ASSUME NEW g \in Fid, g # f PROVE Assets(bm2, fm2, c)[g] = Assets(bm, fm, c)[g]
  <2>1. \A k \in Live(fm) : fm[k].id = g => k # i /\ k # old /\ fm2[k] = fm[k]
    <3> TAKE k \in Live(fm)
    <3> HAVE fm[k].id = g
    <3>1. k # old
      BY <1>8, <1>10 DEF Live
    <3>2. k # i
      <4>1. i = old \/ i \notin Live(fm)
        BY PlaceType
      <4> QED
        BY <4>1, <3>1
    <3> QED
      BY <3>1, <3>2, <1>2
  <2>2. \A k \in Live(fm2) : fm2[k].id = g => k \in Live(fm) /\ fm[k].id = g
    BY <1>2, <1>7, <1>10
  <2>3. LiveAs(fm2, g) = LiveAs(fm, g) /\ LiveAs(fm, g) \subseteq Live(fm)
    BY <2>1, <2>2, EmptyFileType DEF LiveAs, Live
  <2>4. \A k \in LiveAs(fm, g) : k \in Live(fm) \ {i} /\ fm2[k] = fm[k]
    BY <2>1, <2>3 DEF LiveAs
  <2>5. /\ LiveAs(fm2, g) = LiveAs(fm, g)
        /\ \A k \in LiveAs(fm, g) :
             /\ Read(bm2, fm2[k], c) = Read(bm, fm[k], c)
             /\ "WRITE_ONCE" \in fm2[k].flags <=> "WRITE_ONCE" \in fm[k].flags
    BY <2>3, <2>4, <1>4
  <2> QED
    BY ONLY <2>5, g \in Fid, AssetsSame
<1>11. Assets(bm2, fm2, c) = [Assets(bm, fm, c) EXCEPT ![f] = [data |-> d, once |-> o]]
  <2>1. PICK u, v, w : /\ u = Assets(bm, fm, c) /\ v = Assets(bm2, fm2, c)
                       /\ w = [data |-> d, once |-> o]
    OBVIOUS
  <2>2. u = [g \in Fid |-> u[g]] /\ v = [g \in Fid |-> v[g]]
    BY <2>1, AssetsDomain
  <2>3. v[f] = w /\ \A g \in Fid : g # f => v[g] = u[g]
    BY <2>1, <1>9, <1>10
  <2>4. v = [u EXCEPT ![f] = w]
    BY ONLY <2>2, <2>3, f \in Fid
  <2> QED
    BY <2>1, <2>4
<1>12. IF old \in {NoIdx, i} THEN NoneMarked(fm2)
       ELSE old \in FileIdx /\ fm2[old].id # NoFid /\ Marked(fm2[old])
  <2>1. CASE old \in {NoIdx, i}
    <3>1. \A k \in Live(fm) : k # i => k # old
      BY <2>1, Blocks DEF Live
    <3> QED
      BY <2>1, <3>1, <1>2 DEF NoneMarked
  <2>2. CASE old \notin {NoIdx, i}
    <3>1. old \in FileIdx
      BY <2>2 DEF Place
    <3> QED
      BY <3>1, <2>2, <1>8, <1>2 DEF Live
  <2> QED
    BY <2>1, <2>2
<1> QED
  BY <1>6, <1>11, <1>12
-----------------------------------------------------------------------------
(* What a deletion commits *)

(* From the sound tables bm and fm the deletion of o gives bm2 and fm2. *)
DeleteStep(a, bm, fm, c, sp, o, bm2, fm2) ==
    /\ a \in MetaBlock /\ Sound(a, bm, fm, c, sp) /\ o \in Live(fm)
    /\ NoneMarked(fm) \/ Marked(fm[o])
    /\ bm2 = NewBlocks(bm, a, sp, fm[o].lblock, bm[fm[o].lblock].free + fm[o].max)
    /\ fm2 = AfterDelete(fm, o)

(* The data behind the file moved up, the rest copied. *)
DeleteCells(c, bm, bm2, del) ==
    \A k \in LBlock : \A p \in Start(k) .. BlockSize - bm2[k].free - 1 :
      c[bm2[k].phy][p] = IF k = del.lblock /\ p >= del.idx THEN c[bm[k].phy][p + del.max]
                         ELSE c[bm[k].phy][p]

(* The file table that a deletion writes. *)
LEMMA DeleteFiles ==
    ASSUME NEW a, NEW bm, NEW fm, NEW c, NEW sp, NEW o, NEW bm2, NEW fm2,
           DeleteStep(a, bm, fm, c, sp, o, bm2, fm2)
    PROVE  /\ GoodFiles(fm2) /\ OneEach(fm2) /\ Spared(fm2) /\ NoneMarked(fm2)
           /\ Live(fm2) = Live(fm) \ {o} /\ fm2[o] = EmptyFile
           /\ \A k \in Live(fm) \ {o} :
                /\ fm2[k].id = fm[k].id /\ fm2[k].lblock = fm[k].lblock
                /\ fm2[k].max = fm[k].max /\ fm2[k].cur = fm[k].cur /\ fm2[k].flags = fm[k].flags
                /\ fm2[k].idx = IF fm[k].lblock = fm[o].lblock /\ fm[k].idx > fm[o].idx
                                  THEN fm[k].idx - fm[o].max ELSE fm[k].idx
<1>0. /\ a \in MetaBlock /\ Sound(a, bm, fm, c, sp) /\ o \in Live(fm) /\ o \in FileIdx
      /\ NoneMarked(fm) \/ Marked(fm[o])
      /\ fm2 = AfterDelete(fm, o)
  BY DEF DeleteStep, Live
<1> USE <1>0
<1>1. /\ fm2[o] = EmptyFile /\ fm2 = [k \in FileIdx |-> fm2[k]]
      /\ \A k \in FileIdx \ {o} :
           fm2[k] = IF BehindFile(fm[k], fm[o]) THEN [fm[k] EXCEPT !.idx = @ - fm[o].max]
                    ELSE fm[k]
  BY DEF AfterDelete
<1>2. \A k \in FileIdx : (k \in Live(fm) => fm[k] \in GoodFile /\ fm[k].cur = fm[k].max)
                         /\ (k \notin Live(fm) => fm[k] = EmptyFile)
  BY LiveFile DEF Sound, Live
<1>3. ASSUME NEW k \in Live(fm), k # o
      PROVE  /\ fm2[k] \in GoodFile
             /\ fm2[k].id = fm[k].id /\ fm2[k].lblock = fm[k].lblock
             /\ fm2[k].max = fm[k].max /\ fm2[k].cur = fm[k].cur /\ fm2[k].flags = fm[k].flags
             /\ fm2[k].idx = IF fm[k].lblock = fm[o].lblock /\ fm[k].idx > fm[o].idx
                               THEN fm[k].idx - fm[o].max ELSE fm[k].idx
  <2>1. k \in FileIdx /\ fm[k] \in GoodFile /\ fm[o] \in GoodFile /\ fm[k].id # NoFid
    BY <1>2 DEF Live
  <2>2. CASE ~BehindFile(fm[k], fm[o])
    BY <2>1, <2>2, <1>1, <1>3 DEF BehindFile
  <2>3. CASE BehindFile(fm[k], fm[o])
    <3>1. PICK y \in Nat, w \in Nat, x \in Nat :
            /\ y = fm[k].idx /\ w = fm[o].max /\ x = fm[o].idx
            /\ y <= BlockSize
      BY <2>1, ConfigAssumption DEF GoodFile
    <3>2. y > x /\ fm[k].lblock = fm[o].lblock
      BY <2>3, <3>1 DEF BehindFile
    <3>3. x + w <= y
      <4>1. Apart(fm[k], fm[o])
        BY <1>3 DEF Sound, Tiled
      <4>2. fm[k].max \in Nat
        BY <2>1, ConfigAssumption DEF GoodFile
      <4> QED
        BY <4>1, <4>2, <3>1, <3>2 DEF Apart
    <3>4. y - w \in 0 .. BlockSize
      BY ONLY <3>1, <3>3, y \in Nat, w \in Nat, x \in Nat, ConfigAssumption
    <3>5. fm2[k] = [fm[k] EXCEPT !.idx = y - w]
      BY <2>1, <2>3, <1>1, <1>3, <3>1
    <3>6. PICK z \in 0 .. BlockSize : z = y - w
      BY <3>4
    <3>7. fm2[k] \in GoodFile /\ fm2[k].idx = z
          /\ fm2[k].id = fm[k].id /\ fm2[k].lblock = fm[k].lblock
          /\ fm2[k].max = fm[k].max /\ fm2[k].cur = fm[k].cur /\ fm2[k].flags = fm[k].flags
      BY <2>1, <3>5, <3>6 DEF GoodFile
    <3> QED
      BY <3>1, <3>2, <3>6, <3>7
  <2> QED
    BY <2>2, <2>3
<1>4. \A k \in FileIdx : k \notin Live(fm) => fm2[k] = EmptyFile
  BY <1>1, <1>2, EmptyFileType DEF BehindFile
<1>5. Live(fm2) = Live(fm) \ {o}
  BY <1>1, <1>3, <1>4, EmptyFileType DEF Live
<1>6. GoodFiles(fm2)
  <2>1. \A k \in FileIdx : fm2[k] \in GoodFile \cup {EmptyFile}
    BY <1>1, <1>3, <1>4
  <2>2. \A k \in Live(fm2) : fm2[k].cur = fm2[k].max
    BY <1>2, <1>3, <1>5 DEF Live
  <2> QED
    BY <2>1, <2>2, <1>1 DEF GoodFiles
<1>7. \A k \in Live(fm) : k # o => ~Marked(fm[k])
  BY DEF Sound, OneEach, NoneMarked
<1>8. NoneMarked(fm2)
  BY <1>3, <1>5, <1>7 DEF NoneMarked, Marked
<1>9. OneEach(fm2)
  <2>1. \A j, k \in Live(fm2) : j # k => fm2[j].id # fm2[k].id
    BY <1>3, <1>5, <1>7 DEF Sound, OneEach
  <2> QED
    BY <2>1, <1>8 DEF OneEach, NoneMarked
<1>10. Spared(fm2)
  BY <1>1, EmptyFileType DEF Spared
<1> QED
  BY <1>1, <1>3, <1>5, <1>6, <1>8, <1>9, <1>10

(* A delete leaves sound tables: the files behind the deleted one have     *)
(* moved down, and the other assets are kept.                              *)
LEMMA DeleteSound ==
    ASSUME NEW a, NEW bm, NEW fm, NEW c, NEW sp, NEW o, NEW bm2, NEW fm2,
           DeleteStep(a, bm, fm, c, sp, o, bm2, fm2), DeleteCells(c, bm, bm2, fm[o])
    PROVE  /\ Sound(Other(a), bm2, fm2, c, NewSpare(bm, sp, fm[o].lblock))
           /\ NoneMarked(fm2)
           /\ Marked(fm[o]) => Assets(bm2, fm2, c) = Assets(bm, fm, c)
           /\ NoneMarked(fm) =>
                /\ Assets(bm2, fm2, c) = [Assets(bm, fm, c) EXCEPT ![fm[o].id] = None]
                /\ Assets(bm, fm, c)[fm[o].id]
                     = [data |-> Read(bm, fm[o], c), once |-> "WRITE_ONCE" \in fm[o].flags]
<1>0. /\ a \in MetaBlock /\ Sound(a, bm, fm, c, sp) /\ o \in Live(fm) /\ o \in FileIdx
      /\ NoneMarked(fm) \/ Marked(fm[o])
      /\ bm2 = NewBlocks(bm, a, sp, fm[o].lblock, bm[fm[o].lblock].free + fm[o].max)
  BY DEF DeleteStep, Live
<1>1. /\ GoodFiles(fm2) /\ OneEach(fm2) /\ Spared(fm2) /\ NoneMarked(fm2)
      /\ Live(fm2) = Live(fm) \ {o}
      /\ \A k \in Live(fm) \ {o} :
           /\ fm2[k].id = fm[k].id /\ fm2[k].lblock = fm[k].lblock
           /\ fm2[k].max = fm[k].max /\ fm2[k].cur = fm[k].cur /\ fm2[k].flags = fm[k].flags
           /\ fm2[k].idx = IF fm[k].lblock = fm[o].lblock /\ fm[k].idx > fm[o].idx
                             THEN fm[k].idx - fm[o].max ELSE fm[k].idx
  BY DeleteFiles
<1>2. PICK l \in LBlock, x \in Nat, w \in Nat, g \in Fid :
        l = fm[o].lblock /\ x = fm[o].idx /\ w = fm[o].max /\ g = fm[o].id
  BY <1>0, LiveFile DEF Sound, Live
<1>3. PICK fr \in Nat, s \in Nat :
        /\ fr = bm[l].free /\ s = Start(l) /\ s <= x /\ x + w + fr <= BlockSize
        /\ bm2 = NewBlocks(bm, a, sp, l, fr + w)
  <2>1. bm[l].free \in Nat /\ Start(l) \in Nat
    BY <1>0, Blocks, ConfigAssumption DEF Sound, GoodBlocks
  <2> QED
    BY <2>1, <1>0, <1>2 DEF Sound, Tiled
<1>4. Mapped(Other(a), bm2, NewSpare(bm, sp, l)) /\ GoodBlocks(bm2)
  <2>1. fr + w \in 0 .. BlockSize /\ Start(l) + (fr + w) <= BlockSize
    BY <1>2, <1>3, ConfigAssumption
  <2> QED
    BY <2>1, <1>0, <1>2, <1>3, BlocksMoved DEF Sound
<1>5. bm2[l].free = fr + w /\ \A k \in LBlock \ {l} : bm2[k].free = bm[k].free
  BY <1>3, NewFree
<1>6. Tiled(bm2, fm2)
  <2>1. GoodFiles(fm) /\ GoodBlocks(bm) /\ Tiled(bm, fm)
    BY <1>0 DEF Sound
  <2>2. /\ bm2[fm[o].lblock].free = bm[fm[o].lblock].free + fm[o].max
        /\ \A k \in LBlock \ {fm[o].lblock} : bm2[k].free = bm[k].free
    BY <1>2, <1>3, <1>5
  <2>3. o \in Live(fm)
    BY <1>0
  <2> QED
    BY ONLY <1>1, <2>1, <2>2, <2>3, TiledDelete
<1>7. ASSUME NEW k \in Live(fm), k # o PROVE Read(bm2, fm2[k], c) = Read(bm, fm[k], c)
  <2>1. PICK lk \in LBlock, y \in Nat, z \in Nat :
          lk = fm[k].lblock /\ y = fm[k].idx /\ z = fm[k].max /\ fm[k].cur = z /\ z >= 1
    BY <1>0, LiveFile DEF Sound, Live
  <2>2. PICK y2 \in Int : y2 = IF lk = l /\ y > x THEN y - w ELSE y
    OBVIOUS
  <2>3. fm2[k].lblock = lk /\ fm2[k].idx = y2 /\ fm2[k].max = z /\ fm2[k].cur = z
    BY <2>1, <2>2, <1>1, <1>2, <1>7
  <2>4. Start(lk) <= y2 /\ y2 + z + bm2[lk].free <= BlockSize
    BY <2>3, <1>1, <1>6, <1>7 DEF Tiled
  <2>5. lk = l => y + z <= x \/ x + w <= y
    BY <2>1, <1>0, <1>2, <1>7 DEF Sound, Tiled, Apart
  <2>6. PICK q \in Nat, sk \in Nat : q = bm2[lk].free /\ sk = Start(lk)
    BY <1>4, Blocks, ConfigAssumption DEF GoodBlocks
  <2>7. ASSUME NEW j \in 1 .. z
        PROVE  c[bm2[lk].phy][y2 + j - 1] = c[bm[lk].phy][y + j - 1]
    <3>1. y2 + j - 1 \in sk .. BlockSize - q - 1
      BY <2>4, <2>6, ConfigAssumption
    <3>2. c[bm2[lk].phy][y2 + j - 1] =
            IF lk = l /\ y2 + j - 1 >= x THEN c[bm[lk].phy][(y2 + j - 1) + w]
            ELSE c[bm[lk].phy][y2 + j - 1]
      BY <3>1, <2>6, <1>2 DEF DeleteCells
    <3>3. CASE lk = l /\ y > x
      <4>1. y2 = y - w /\ x + w <= y
        BY <3>3, <2>2, <2>5
      <4>2. y2 + j - 1 >= x /\ (y2 + j - 1) + w = y + j - 1
        BY <4>1
      <4> QED
        BY <4>2, <3>2, <3>3
    <3>4. CASE lk = l /\ ~(y > x)
      <4>1. (y2 = y /\ y + z <= x) \/ w = 0
        BY <3>4, <2>2, <2>5
      <4>2. w >= 1
        BY <1>0, <1>2, LiveFile DEF Sound, Live
      <4>3. ~(y2 + j - 1 >= x) /\ y2 = y
        BY <4>1, <4>2
      <4> QED
        BY <4>3, <3>2
    <3>5. CASE lk # l
      BY <3>5, <3>2, <2>2
    <3> QED
      BY <3>3, <3>4, <3>5
  <2> QED
    BY <2>1, <2>3, <2>7 DEF Read
<1>8. Whole(bm2, fm2, c)
  BY <1>0, <1>1, <1>7 DEF Sound, Whole
<1>9. Sound(Other(a), bm2, fm2, c, NewSpare(bm, sp, fm[o].lblock))
  BY <1>1, <1>2, <1>4, <1>6, <1>8 DEF Sound
<1>10. ASSUME NEW h \in Fid, h # g \/ Marked(fm[o])
       PROVE  Assets(bm2, fm2, c)[h] = Assets(bm, fm, c)[h]
  <2>1. \A k \in LiveAs(fm, h) : k \in Live(fm) /\ k # o
    BY <1>10, <1>2, EmptyFileType DEF LiveAs, Live, Marked
  <2>2. \A k \in LiveAs(fm2, h) : k \in Live(fm) /\ k # o
    BY <1>1, EmptyFileType DEF LiveAs, Live
  <2>3. LiveAs(fm2, h) = LiveAs(fm, h)
    BY <2>1, <2>2, <1>1 DEF LiveAs, Live
  <2>4. /\ LiveAs(fm2, h) = LiveAs(fm, h)
        /\ \A k \in LiveAs(fm, h) :
             /\ Read(bm2, fm2[k], c) = Read(bm, fm[k], c)
             /\ "WRITE_ONCE" \in fm2[k].flags <=> "WRITE_ONCE" \in fm[k].flags
    BY <2>1, <2>3, <1>1, <1>7
  <2> QED
    BY ONLY <2>4, h \in Fid, AssetsSame
<1>11. PICK u, v : u = Assets(bm, fm, c) /\ v = Assets(bm2, fm2, c)
  OBVIOUS
<1>12. u = [h \in Fid |-> u[h]] /\ v = [h \in Fid |-> v[h]]
  BY <1>11, AssetsDomain
<1>13. ASSUME Marked(fm[o]) PROVE v = u
  <2>1. \A h \in Fid : v[h] = u[h]
    BY <1>10, <1>11, <1>13
  <2> QED
    BY ONLY <2>1, <1>12
<1>14. ASSUME NoneMarked(fm)
       PROVE  v = [u EXCEPT ![g] = None]
  <2>1. \A h \in Fid : h # g => v[h] = u[h]
    BY <1>10, <1>11
  <2>2. v[g] = None
    <3>1. \A k \in FileIdx : fm2[k].id # g \/ Marked(fm2[k])
      <4>1. \A k \in Live(fm) \ {o} : fm[k].id # g
        BY <1>0, <1>2, <1>14 DEF Sound, OneEach, NoneMarked
      <4> QED
        BY <4>1, <1>1, EmptyFileType DEF Live
    <3> QED
      BY <3>1, <1>1, <1>11, AssetOf
  <2> QED
    BY ONLY <2>1, <2>2, <1>12, g \in Fid
<1>15. ASSUME NoneMarked(fm)
       PROVE  u[g] = [data |-> Read(bm, fm[o], c), once |-> "WRITE_ONCE" \in fm[o].flags]
  <2>1. ~Marked(fm[o]) /\ fm[o].id = g /\ GoodFiles(fm) /\ OneEach(fm)
    BY <1>0, <1>2, <1>15 DEF NoneMarked, Sound
  <2> QED
    BY <2>1, <1>0, <1>11, AssetOf
<1> QED
  BY <1>1, <1>2, <1>9, <1>11, <1>13, <1>14, <1>15
-----------------------------------------------------------------------------
(* What a restart would load *)

MetaType == [hdr : [version : {"none", "torn", "legacy", "supported"},
                    swap : SwapCount, scratch : Block \cup {NoBlock}],
             bmeta : [LBlock -> BlockMetaType], fmeta : [FileIdx -> FileMeta]]
MetaOK(m) == m \in [MetaBlock -> MetaType]
CellOK(c) == c \in [Block -> [Pos -> Cell]]
CtxOK(x) == x \in [active : MetaBlock, swap : SwapCount, scratch : Block \cup {NoBlock},
                   version : {"none", "legacy", "supported"}]

Chosen(m) ==
    IF \A b \in MetaBlock : ValidHeader(m[b].hdr)
      THEN LatestMetaBlock(SwapByte(m[0].hdr), SwapByte(m[1].hdr))
      ELSE CHOOSE b \in MetaBlock : ValidHeader(m[b].hdr)
Served(m, c) ==
    IF \E b \in MetaBlock : ValidHeader(m[b].hdr)
      THEN [b \in MetaBlock |-> Assets(m[b].bmeta, m[b].fmeta, c)][Chosen(m)]
      ELSE [f \in Fid |-> None]

(* The block that the invariant says is loaded is the one the start        *)
(* chooses.                                                                *)
LEMMA LoadsChosen ==
    ASSUME NEW m, NEW c, NEW a \in MetaBlock, MetaOK(m), Loads(m, c, a)
    PROVE  /\ ~NoneValid(m) /\ Chosen(m) = a
           /\ Served(m, c) = Assets(m[a].bmeta, m[a].fmeta, c)
<1>1. ValidHeader(m[a].hdr) /\ m[a].hdr.version = "supported" /\ m[a].hdr.swap \in SwapCount
  BY DEF Loads, MetaOK, MetaType
<1>2. ~NoneValid(m) /\ \E b \in MetaBlock : ValidHeader(m[b].hdr)
  BY <1>1 DEF NoneValid
<1>3. Other(a) \in MetaBlock /\ Other(a) # a /\ \A b \in MetaBlock : b = a \/ b = Other(a)
  BY Blocks
<1>4. Chosen(m) = a
  <2>1. CASE ~ValidHeader(m[Other(a)].hdr)
    <3>1. \A b \in MetaBlock : ValidHeader(m[b].hdr) <=> b = a
      BY <2>1, <1>1, <1>3
    <3> QED
      BY <3>1, <1>3 DEF Chosen
  <2>2. CASE ValidHeader(m[Other(a)].hdr)
    <3>1. PICK s \in SwapCount : s = m[Other(a)].hdr.swap
      BY <1>3 DEF MetaOK, MetaType
    <3>2. /\ ValidSwapCount(s) /\ m[Other(a)].hdr.version = "supported"
          /\ m[a].hdr.swap = NextSwap(s)
      BY <2>2, <3>1 DEF Loads, ValidHeader
    <3>3. SwapByte(m[Other(a)].hdr) = s /\ SwapByte(m[a].hdr) = NextSwap(s)
      BY <3>1, <3>2, <1>1 DEF SwapByte
    <3>4. \A b \in MetaBlock : ValidHeader(m[b].hdr)
      BY <2>2, <1>1, <1>3
    <3>5. CASE a = 1
      <4>1. Other(a) = 0
        BY <3>5 DEF Other
      <4> QED
        BY <4>1, <3>2, <3>3, <3>4, <3>5, LatestIsNext DEF Chosen
    <3>6. CASE a = 0
      <4>1. Other(a) = 1
        BY <3>6 DEF Other
      <4> QED
        BY <4>1, <3>2, <3>3, <3>4, <3>6, LatestIsNext DEF Chosen
    <3> QED
      BY <3>5, <3>6 DEF MetaBlock
  <2> QED
    BY <2>1, <2>2
<1> QED
  BY <1>2, <1>4 DEF Served

(* Without valid metadata there are no assets. *)
LEMMA NoneServed ==
    ASSUME NEW m, NEW c, NoneValid(m)
    PROVE  Served(m, c) = [f \in Fid |-> None]
BY DEF NoneValid, Served

(* Stored and the choice at start in these terms, in any state. *)
LEMMA StoredServed == Stored = Served(mblk, cell)
BY DEF Stored, Served, SomeValid, ActiveMetaBlock, Chosen, AssetsAt, Assets, LiveAs, ReadFile,
     Read

(* The choice at start, as the model defines it. *)
LEMMA ChosenActive ==
    /\ ActiveMetaBlock = Chosen(mblk)
    /\ SomeValid <=> ~NoneValid(mblk)
BY DEF ActiveMetaBlock, Chosen, SomeValid, NoneValid

(* Work on the blocks that the table does not name leaves it as it is. *)
LEMMA LoadsKept ==
    ASSUME NEW m, NEW c, NEW m2, NEW c2, NEW a \in MetaBlock,
           MetaOK(m), MetaOK(m2), Loads(m, c, a), m2[a] = m[a],
           \/ m2[Other(a)].hdr = m[Other(a)].hdr
           \/ ~ValidHeader(m2[Other(a)].hdr),
           \A b \in Block : b # Other(a) /\ (NumBlocks > 2 => b # m[a].hdr.scratch) =>
                            c2[b] = c[b]
    PROVE  /\ Loads(m2, c2, a) /\ Served(m2, c2) = Served(m, c)
           /\ Assets(m2[a].bmeta, m2[a].fmeta, c2) = Assets(m[a].bmeta, m[a].fmeta, c)
<1> DEFINE bm == m[a].bmeta
           fm == m[a].fmeta
           sp == m[a].hdr.scratch
<1>1. Sound(a, bm, fm, c, sp)
  BY DEF Loads
<1>2. \A l \in LBlock : c2[bm[l].phy] = c[bm[l].phy]
  <2> TAKE l \in LBlock
  <2>1. bm[l].phy \in Block /\ bm[l].phy # Other(a)
    BY <1>1, SparesUnused DEF Sound, GoodBlocks
  <2>2. NumBlocks > 2 => bm[l].phy # sp
    BY <1>1, SparesUnused DEF Sound
  <2> QED
    BY <2>1, <2>2
<1>3. Sound(a, bm, fm, c2, sp) /\ Assets(bm, fm, c2) = Assets(bm, fm, c)
  <2> HIDE DEF bm, fm, sp
  <2> QED
    BY <1>1, <1>2, SoundFrame
<1>4. Loads(m2, c2, a)
  BY <1>3 DEF Loads
<1> QED
  BY <1>3, <1>4, LoadsChosen
-----------------------------------------------------------------------------
(* Types *)

(* Good entries are entries. *)
LEMMA FileTypes ==
    /\ EmptyFile \in FileMeta /\ BlankFile \in FileMeta
    /\ GoodFile \subseteq FileMeta
<1>1. 0 \in 0 .. NoBlock /\ NoBlock \in 0 .. NoBlock /\ 0 \in 0 .. BlockSize
  BY ConfigAssumption DEF NoBlock
<1>2. EmptyFile \in FileMeta
  BY <1>1 DEF EmptyFile, FileMeta
<1>3. BlankFile \in FileMeta
  BY <1>1 DEF BlankFile, FileMeta
<1>4. LBlock \subseteq 0 .. NoBlock /\ 1 .. MaxFileSize \subseteq 0 .. BlockSize
  BY ConfigAssumption DEF LBlock, NoBlock
<1>5. ASSUME NEW m \in GoodFile PROVE m \in FileMeta
  BY <1>4 DEF GoodFile, FileMeta
<1> QED
  BY <1>2, <1>3, <1>5

(* Good tables are tables. *)
LEMMA TableTypes ==
    /\ \A fm : GoodFiles(fm) => fm \in [FileIdx -> FileMeta]
    /\ \A bm : GoodBlocks(bm) => bm \in [LBlock -> BlockMetaType]
<1>1. GoodFile \cup {EmptyFile} \subseteq FileMeta
  BY FileTypes
<1>2. \A fm : GoodFiles(fm) => fm \in [FileIdx -> FileMeta]
  BY <1>1 DEF GoodFiles
<1>3. Block \subseteq 0 .. NoBlock
  BY ConfigAssumption DEF Block, NoBlock
<1>4. [phy : Block, free : 0 .. BlockSize] \subseteq BlockMetaType
  BY <1>3 DEF BlockMetaType
<1>5. \A bm : GoodBlocks(bm) => bm \in [LBlock -> BlockMetaType]
  BY <1>4 DEF GoodBlocks
<1> QED
  BY <1>2, <1>5

(* Erased and torn metadata is metadata, with no valid header. *)
LEMMA BlankMetaType ==
    /\ BlankMeta \in MetaType /\ TornMeta \in MetaType
    /\ ~ValidHeader(BlankMeta.hdr) /\ ~ValidHeader(TornMeta.hdr)
    /\ ~ValidHeader(BlankHeader) /\ BlankMeta.hdr = BlankHeader
    /\ BlankMeta.fmeta = [i \in FileIdx |-> BlankFile]
<1>1. BlankHeader \in [version : {"none", "torn", "legacy", "supported"},
                       swap : SwapCount, scratch : Block \cup {NoBlock}]
  BY RolloverType DEF BlankHeader
<1>2. BlankBlock \in BlockMetaType
  BY ConfigAssumption DEF BlankBlock, BlockMetaType, NoBlock
<1>3. [l \in LBlock |-> BlankBlock] \in [LBlock -> BlockMetaType]
  BY <1>2
<1>4. [i \in FileIdx |-> BlankFile] \in [FileIdx -> FileMeta]
  BY FileTypes
<1>5. BlankMeta \in MetaType
  BY <1>1, <1>3, <1>4 DEF BlankMeta, MetaType
<1>6. TornMeta \in MetaType
  BY <1>5 DEF TornMeta, MetaType
<1>7. BlankMeta.hdr = BlankHeader /\ BlankMeta.fmeta = [i \in FileIdx |-> BlankFile]
  BY DEF BlankMeta
<1>8. TornMeta.hdr.version = "torn"
  BY <1>5 DEF TornMeta, MetaType
<1> QED
  BY <1>5, <1>6, <1>7, <1>8 DEF ValidHeader, BlankHeader

(* Erased and torn data is data. *)
LEMMA CellTypes == Blank \in [Pos -> Cell] /\ Mixed \in [Pos -> Cell] /\ BlankCell \in Cell
BY DEF Blank, Mixed, Cell

(* The parts of TypeOK. *)
LEMMA TypeParts ==
    TypeOK => MetaOK(mblk) /\ CellOK(cell) /\ CtxOK(ctx)
BY DEF TypeOK, MetaOK, MetaType, CellOK, CtxOK

(* The type invariant of the next state, from its parts. *)
LEMMA TypePartsNext ==
    ASSUME MetaOK(mblk'), CellOK(cell'), CtxOK(ctx'),
           call'.op \in {"none", "format", "boot", "cleanup", "set", "set_cleanup", "remove"},
           pc' \in {"boot", "format", "failed", "boot_cleanup", "ready", "set", "remove",
                    "reserve", "data", "meta", "header", "erase_meta", "erase_data", "delete",
                    "compact"}
    PROVE  TypeOK'
<1>1. mblk' \in [MetaBlock ->
         [hdr : [version : {"none", "torn", "legacy", "supported"},
                 swap : SwapCount, scratch : Block \cup {NoBlock}],
          bmeta : [LBlock -> BlockMetaType], fmeta : [FileIdx -> FileMeta]]]
  BY DEF MetaOK, MetaType
<1>2. cell' \in [Block -> [Pos -> Cell]]
  BY DEF CellOK
<1>3. ctx' \in [active : MetaBlock, swap : SwapCount, scratch : Block \cup {NoBlock},
                version : {"none", "legacy", "supported"}]
  BY DEF CtxOK
<1> QED
  BY <1>1, <1>2, <1>3 DEF TypeOK

(* Writing one metadata block, and programming cells, keeps the types. *)
LEMMA MetaWritten ==
    ASSUME NEW m, MetaOK(m), NEW b \in MetaBlock, NEW x \in MetaType
    PROVE  MetaOK([m EXCEPT ![b] = x])
BY DEF MetaOK

(* Programming cells keeps the type of the data. *)
LEMMA ProgramType ==
    ASSUME CellOK(cell), NEW b \in Block, NEW to \in Nat, NEW n \in Int, NEW src,
           \A j \in Pos : j \in to .. to + n - 1 => src[j] \in Cell
    PROVE  CellOK(ProgramCells(b, to, to, src, n))
<1> DEFINE row == [j \in Pos |->
       IF j \notin to .. to + n - 1 THEN cell[b][j]
       ELSE LET new == src[to + j - to]
            IN  IF new = BlankCell THEN cell[b][j]
                ELSE IF cell[b][j] \in {BlankCell, new} THEN new ELSE MixedCell]
<1>1. \A j \in Pos : to + j - to = j
  BY ConfigAssumption DEF Pos
<1>2. MixedCell \in Cell /\ \A j \in Pos : cell[b][j] \in Cell
  BY DEF CellOK, Cell
<1>3. row \in [Pos -> Cell]
  BY <1>1, <1>2
<1>4. ProgramCells(b, to, to, src, n) = [cell EXCEPT ![b] = row]
  BY DEF ProgramCells
<1> HIDE DEF row
<1> QED
  BY <1>3, <1>4 DEF CellOK

-----------------------------------------------------------------------------
(* Scanning a sound file table finds what is there. *)

(* Every entry of a sound table passes the check of a read. *)
LEMMA AllValid ==
    ASSUME Sound(Active, BM, FM, cell, mblk[Active].hdr.scratch)
    PROVE  \A i \in FileIdx : ValidFile(File(i))
<1> TAKE i \in FileIdx
<1>1. GoodFiles(FM) /\ Tiled(BM, FM) /\ File(i) = FM[i] /\ GoodBlocks(BM)
  BY DEF Sound, File, FM
<1>2. CASE FM[i].id = NoFid
  <2>1. FM[i] = EmptyFile
    BY <1>1, <1>2, LiveFile
  <2> QED
    BY <2>1, <1>1, EmptyFileType, Blocks DEF ValidFile
<1>3. CASE FM[i].id # NoFid
  <2>1. PICK l \in LBlock, x \in Nat, w \in Nat :
          l = FM[i].lblock /\ x = FM[i].idx /\ w = FM[i].max
    BY <1>1, <1>3, LiveFile
  <2>2. i \in Live(FM) /\ w <= MaxFileSize /\ FM[i].cur = w
    BY <2>1, <1>1, <1>3, LiveFile
  <2>3. Start(l) <= x /\ x + w + BM[l].free <= BlockSize
    BY <2>1, <2>2, <1>1 DEF Tiled
  <2>4. BM[l].free \in Nat
    BY <1>1, ConfigAssumption DEF GoodBlocks
  <2>5. x >= Start(l) /\ x + w <= BlockSize
    BY <2>3, <2>4, Blocks, ConfigAssumption
  <2> QED
    BY <2>1, <2>2, <2>5, <1>1, ConfigAssumption DEF ValidFile
<1> QED
  BY <1>2, <1>3

(* A scan of valid entries ends at one that it looks for, or at none. *)
LEMMA ScanFinds ==
    ASSUME \A i \in FileIdx : ValidFile(File(i)), NEW S, S \subseteq FileIdx
    PROVE  /\ S = {} => Scan(S) = NoIdx
           /\ S # {} => Scan(S) \in S
           /\ ~Unreadable(Scan(S))
<1>1. {i \in FileIdx : ~ValidFile(File(i))} = {}
  OBVIOUS
<1>2. Scan(S) = First(S)
  <2>1. S \cup {i \in FileIdx : ~ValidFile(File(i))} = S
    BY <1>1
  <2> QED
    BY <2>1 DEF Scan
<1>3. S # {} => First(S) \in S
  BY MinNat, Blocks DEF First
<1>4. S = {} => First(S) = NoIdx
  BY DEF First
<1> QED
  BY <1>2, <1>3, <1>4 DEF Unreadable

(* The search for an id finds its file if there is one. *)
LEMMA IdxOfFinds ==
    ASSUME \A i \in FileIdx : ValidFile(File(i)), NEW f
    PROVE  /\ ~Unreadable(IdxOf(f))
           /\ \/ IdxOf(f) = NoIdx /\ \A i \in FileIdx : File(i).id # f
              \/ IdxOf(f) \in FileIdx /\ IdxOf(f) # NoIdx /\ File(IdxOf(f)).id = f
<1>1. PICK S : S = {i \in FileIdx : File(i).id = f}
  OBVIOUS
<1>2. IdxOf(f) = Scan(S) /\ S \subseteq FileIdx
  BY <1>1 DEF IdxOf
<1>3. ~Unreadable(Scan(S)) /\ (S = {} => Scan(S) = NoIdx) /\ (S # {} => Scan(S) \in S)
  BY <1>2, ScanFinds
<1> QED
  BY <1>1, <1>2, <1>3, Blocks

(* The search for a file to delete finds it if there is one. *)
LEMMA FlaggedFinds ==
    ASSUME \A i \in FileIdx : ValidFile(File(i))
    PROVE  /\ ~Unreadable(IdxFlagged)
           /\ \/ IdxFlagged = NoIdx /\ \A i \in FileIdx : ~Marked(File(i))
              \/ IdxFlagged \in FileIdx /\ IdxFlagged # NoIdx /\ Marked(File(IdxFlagged))
<1>1. PICK S : S = {i \in FileIdx : "DELETE" \in File(i).flags}
  OBVIOUS
<1>2. IdxFlagged = Scan(S) /\ S \subseteq FileIdx
  BY <1>1 DEF IdxFlagged
<1>3. ~Unreadable(Scan(S)) /\ (S = {} => Scan(S) = NoIdx) /\ (S # {} => Scan(S) \in S)
  BY <1>2, ScanFinds
<1> QED
  BY <1>1, <1>2, <1>3, Blocks DEF Marked

(* The search for a free entry spares the last one, unless it may be used. *)
LEMMA FreeFinds ==
    ASSUME \A i \in FileIdx : ValidFile(File(i)), NEW u \in BOOLEAN
    PROVE  /\ ~Unreadable(FreeIdx(u))
           /\ FreeIdx(u) # NoIdx =>
                /\ FreeIdx(u) \in FileIdx /\ File(FreeIdx(u)).id = NoFid
                /\ ~u => \E k \in FileIdx : k # FreeIdx(u) /\ File(k).id = NoFid
           /\ u /\ (\E k \in FileIdx : File(k).id = NoFid) => FreeIdx(u) # NoIdx
<1>1. PICK free : free = {i \in FileIdx : File(i).id = NoFid}
  OBVIOUS
<1>2. free \subseteq FileIdx /\ free \ {First(free)} \subseteq FileIdx
  BY <1>1
<1>3. free # {} => First(free) \in free
  BY <1>2, MinNat, Blocks DEF First
<1>4. CASE u
  <2>1. FreeIdx(u) = Scan(free)
    BY <1>1, <1>4 DEF FreeIdx
  <2>2. ~Unreadable(Scan(free)) /\ (free = {} => Scan(free) = NoIdx)
        /\ (free # {} => Scan(free) \in free)
    BY <1>2, ScanFinds
  <2> QED
    BY <2>1, <2>2, <1>1, <1>4, Blocks
<1>5. CASE ~u
  <2>1. PICK rest : rest = free \ {First(free)}
    OBVIOUS
  <2>2. FreeIdx(u) = Scan(rest) /\ rest \subseteq FileIdx
    BY <2>1, <1>1, <1>2, <1>5 DEF FreeIdx
  <2>3. ~Unreadable(Scan(rest)) /\ (rest = {} => Scan(rest) = NoIdx)
        /\ (rest # {} => Scan(rest) \in rest)
    BY <2>2, ScanFinds
  <2>4. ASSUME Scan(rest) # NoIdx
        PROVE  /\ Scan(rest) \in FileIdx /\ File(Scan(rest)).id = NoFid
               /\ \E k \in FileIdx : k # Scan(rest) /\ File(k).id = NoFid
    <3>1. Scan(rest) \in free /\ Scan(rest) # First(free)
      BY <2>1, <2>3, <2>4
    <3>2. First(free) \in free
      BY <3>1, <1>3
    <3> QED
      BY <3>1, <3>2, <1>1
  <2> QED
    BY <2>2, <2>3, <2>4, <1>5
<1> QED
  BY <1>4, <1>5
-----------------------------------------------------------------------------
(* States and steps of a running file system *)

(* In service the active metadata is sound and the other block is scratch. *)
LEMMA RunningState ==
    ASSUME FsInv, Running
    PROVE  /\ Active \in MetaBlock /\ Scratch \in MetaBlock /\ Scratch # Active
           /\ Scratch = Other(Active) /\ \A b \in MetaBlock : b = Active \/ b = Scratch
           /\ MetaOK(mblk) /\ CellOK(cell) /\ CtxOK(ctx)
           /\ Loads(mblk, cell, Active)
           /\ Sound(Active, BM, FM, cell, mblk[Active].hdr.scratch)
           /\ \A i \in FileIdx : ValidFile(File(i)) /\ File(i) = FM[i]
           /\ \A l \in LBlock : BlockMeta(l) = BM[l]
<1>1. MetaOK(mblk) /\ CellOK(cell) /\ CtxOK(ctx)
  BY TypeParts DEF FsInv
<1>2. Active \in MetaBlock /\ Scratch = Other(Active)
  BY <1>1 DEF CtxOK, Active, Scratch
<1>3. /\ Scratch \in MetaBlock /\ Scratch # Active
      /\ \A b \in MetaBlock : b = Active \/ b = Scratch
  BY <1>2, Blocks
<1>4. Loads(mblk, cell, Active)
  BY DEF FsInv, RamInv
<1>5. Sound(Active, BM, FM, cell, mblk[Active].hdr.scratch)
  BY <1>4 DEF Loads, BM, FM
<1>6. \A i \in FileIdx : ValidFile(File(i)) /\ File(i) = FM[i]
  BY <1>5, AllValid DEF File, FM
<1>7. \A l \in LBlock : BlockMeta(l) = BM[l]
  BY DEF BlockMeta, BM
<1> QED
  BY <1>1, <1>2, <1>3, <1>4, <1>5, <1>6, <1>7

(* Work on the scratch blocks. *)
LEMMA RunKept ==
    ASSUME FsInv, Running, MetaOK(mblk'), mblk'[Active] = mblk[Active],
           \/ mblk'[Scratch].hdr = mblk[Scratch].hdr
           \/ ~ValidHeader(mblk'[Scratch].hdr),
           \A b \in Block : b # Scratch /\ (NumBlocks > 2 => b # mblk[Active].hdr.scratch) =>
                            cell'[b] = cell[b]
    PROVE  /\ Loads(mblk', cell', Active) /\ Served(mblk', cell') = Served(mblk, cell)
           /\ Assets(mblk'[Active].bmeta, mblk'[Active].fmeta, cell') = Assets(BM, FM, cell)
<1>1. PICK a \in MetaBlock : a = Active /\ Scratch = Other(a)
  BY RunningState
<1>2. PICK m, c, m2, c2 : m = mblk /\ c = cell /\ m2 = mblk' /\ c2 = cell'
  OBVIOUS
<1>3. /\ MetaOK(m) /\ MetaOK(m2) /\ Loads(m, c, a) /\ m2[a] = m[a]
      /\ \/ m2[Other(a)].hdr = m[Other(a)].hdr
         \/ ~ValidHeader(m2[Other(a)].hdr)
      /\ \A b \in Block : b # Other(a) /\ (NumBlocks > 2 => b # m[a].hdr.scratch) => c2[b] = c[b]
  BY <1>1, <1>2, RunningState
<1>4. /\ Loads(m2, c2, a) /\ Served(m2, c2) = Served(m, c)
      /\ Assets(m2[a].bmeta, m2[a].fmeta, c2) = Assets(m[a].bmeta, m[a].fmeta, c)
  BY ONLY <1>3, a \in MetaBlock, LoadsKept
<1> QED
  BY <1>1, <1>2, <1>4 DEF BM, FM

(* A step that changes no asset and keeps the invariant. *)
Keeps == FsInv' /\ Served(mblk', cell') = Served(mblk, cell)

(* The tables of a formatted flash are sound and hold no asset. *)
LEMMA InitTables ==
    ASSUME NEW c
    PROVE  /\ Sound(1, InitMeta(1).bmeta, InitMeta(1).fmeta, c, InitScratch)
           /\ Assets(InitMeta(1).bmeta, InitMeta(1).fmeta, c) = [f \in Fid |-> None]
<1> DEFINE bm == InitMeta(1).bmeta
           fm == InitMeta(1).fmeta
<1>1. /\ bm = [l \in LBlock |-> [phy |-> IF l = 0 THEN 1 ELSE l + 2,
                                 free |-> BlockSize - Start(l)]]
      /\ fm = [i \in FileIdx |-> EmptyFile]
  BY DEF InitMeta
<1> HIDE DEF bm, fm
<1>2. Live(fm) = {} /\ \A f \in Fid : LiveAs(fm, f) = {}
  BY <1>1, EmptyFileType DEF Live, LiveAs
<1>3. GoodFiles(fm)
  BY <1>1, <1>2 DEF GoodFiles
<1>4. \A l \in LBlock : bm[l].phy \in Block /\ (l # 0 => bm[l].phy = l + 2)
            /\ bm[l].free = BlockSize - Start(l)
                        /\ bm[l].free \in 0 .. BlockSize
  BY <1>1, ConfigAssumption DEF Block, LBlock, Start
<1>5. GoodBlocks(bm)
  <2>1. \A l \in LBlock : bm[l] \in [phy : Block, free : 0 .. BlockSize]
    <3> TAKE l \in LBlock
    <3>1. PICK p \in Block, w \in 0 .. BlockSize : p = bm[l].phy /\ w = bm[l].free
      BY <1>4
    <3>2. bm[l] = [phy |-> p, free |-> w]
      BY <3>1, <1>1
    <3> QED
      BY <3>2
  <2>2. \A l \in LBlock : Start(l) + bm[l].free <= BlockSize
    BY <1>4, Blocks, ConfigAssumption
  <2> QED
    BY <2>1, <2>2, <1>1 DEF GoodBlocks
<1>6. Tiled(bm, fm)
  <2>1. \A l \in LBlock : BlockSize - bm[l].free - 1 < Start(l)
    BY <1>4, Blocks, ConfigAssumption
  <2>2. \A l \in LBlock : Start(l) .. BlockSize - bm[l].free - 1 = {}
    BY <2>1, <1>4, Blocks, ConfigAssumption
  <2> QED
    BY <2>2, <1>2 DEF Tiled
<1>7. OneEach(fm) /\ Spared(fm) /\ Whole(bm, fm, c)
  BY <1>1, <1>2, EmptyFileType, Blocks DEF OneEach, Spared, Whole
<1>8. Mapped(1, bm, InitScratch)
  <2>1. bm[0].phy = 1
    BY <1>1, Blocks
  <2>2. \A l \in LBlock \ {0} : bm[l].phy \in 2 .. NumBlocks - 1 /\ bm[l].phy # 2
    BY <1>4, ConfigAssumption DEF LBlock
  <2>3. \A l, k \in LBlock \ {0} : bm[l].phy = bm[k].phy => l = k
    <3>1. \A l \in LBlock \ {0} : bm[l].phy = l + 2 /\ l \in Nat
      BY <1>4, Blocks
    <3>2. \A l, k \in Nat : l + 2 = k + 2 => l = k
      OBVIOUS
    <3> QED
      BY <3>1, <3>2
  <2>4. NumBlocks > 2 =>
         /\ 2 \in 2 .. NumBlocks - 1
         /\ \A p \in 2 .. NumBlocks - 1 : p = 2 \/ \E l \in LBlock \ {0} : bm[l].phy = p
    <3> SUFFICES ASSUME NumBlocks > 2, NEW p \in 2 .. NumBlocks - 1, p # 2
                 PROVE  \E l \in LBlock \ {0} : bm[l].phy = p
      BY ConfigAssumption
    <3>1. p - 2 \in LBlock \ {0} /\ (p - 2) + 2 = p
      BY ConfigAssumption DEF LBlock
    <3> QED
      BY <3>1, <1>4
  <2> QED
    BY <2>1, <2>2, <2>3, <2>4 DEF Mapped, InitScratch
<1>9. Assets(bm, fm, c) = [f \in Fid |-> None]
  BY <1>2 DEF Assets
<1> QED
  BY <1>3, <1>5, <1>6, <1>7, <1>8, <1>9 DEF Sound, bm, fm

(* A flash that the service never used. *)
LEMMA FsInit ==
    ASSUME Init, ~LegacyImage
    PROVE  FsInv /\ Stored = [f \in Fid |-> None]
<1>1. /\ mblk = [b \in MetaBlock |-> BlankMeta] /\ cell = [b \in Block |-> Blank]
      /\ ctx = NoCtx /\ call = NoCall /\ pc = "boot" /\ reply = << >>
  BY DEF Init
<1>2. NoneValid(mblk)
  BY <1>1, BlankMetaType DEF NoneValid
<1>3. ctx \in [active : MetaBlock, swap : SwapCount, scratch : Block \cup {NoBlock},
                version : {"none", "legacy", "supported"}]
  BY <1>1, RolloverType DEF NoCtx, MetaBlock
<1>4. mblk \in [MetaBlock -> MetaType]
  BY <1>1, BlankMetaType
<1>5. cell \in [Block -> [Pos -> Cell]]
  BY <1>1, CellTypes
<1>6. call = [op |-> "none"]
  BY <1>1 DEF NoCall
<1>7. TypeOK
  BY <1>1, <1>3, <1>4, <1>5, <1>6 DEF TypeOK, MetaType
<1>8. FsInv
  BY <1>1, <1>2, <1>6, <1>7 DEF FsInv, CallInv, RamInv, ScratchInv, SetInv, DeleteInv, CommitInv,
                                Running, Written, Fresh
<1> QED
  BY <1>2, <1>8, StoredServed, NoneServed

-----------------------------------------------------------------------------
(* Start and power failures *)

(* Start: the latest valid metadata is loaded. *)
LEMMA BootStep ==
    ASSUME FsInv, Boot
    PROVE  Keeps
<1>1. pc = "boot" /\ UNCHANGED <<mblk, cell, reply>>
  BY DEF Boot
<1>2. MetaOK(mblk) /\ CellOK(cell) /\ CtxOK(ctx)
  BY TypeParts DEF FsInv
<1>3. MetaOK(mblk') /\ CellOK(cell') /\ Served(mblk', cell') = Served(mblk, cell)
  BY <1>1, <1>2
<1>4. CASE SomeValid
  <2>1. ~NoneValid(mblk)
    BY <1>4, ChosenActive
  <2>2. PICK a \in MetaBlock : Loads(mblk, cell, a)
    BY <2>1, <1>1 DEF FsInv, RamInv, Running
  <2>3. ActiveMetaBlock = a
    BY <2>2, <1>2, ChosenActive, LoadsChosen
  <2>4. PICK h : h = mblk[a].hdr
    OBVIOUS
  <2>5. /\ ctx' = [active |-> a, swap |-> h.swap, version |-> h.version, scratch |-> h.scratch]
        /\ call' = [op |-> "boot"] /\ pc' = "erase_meta"
    BY <1>4, <2>3, <2>4 DEF Boot
  <2>6. h.version = "supported" /\ h.swap \in SwapCount /\ h.scratch \in Block \cup {NoBlock}
    BY <2>2, <2>4, <1>2 DEF Loads, MetaOK, MetaType
  <2>7. CtxOK(ctx')
    BY <2>5, <2>6 DEF CtxOK
  <2>8. TypeOK'
    BY <2>5, <2>7, <1>3, TypePartsNext
  <2>9. Loads(mblk', cell', ctx'.active)
    BY <2>2, <2>5, <1>1
  <2>10. RamInv'
    BY <2>4, <2>5, <2>6, <2>9, <1>1 DEF RamInv, Running, Written, Active
  <2>11. CallInv'
    BY <2>5 DEF CallInv, Running
  <2>12. ScratchInv' /\ SetInv' /\ DeleteInv'
    BY <2>5 DEF ScratchInv, SetInv, DeleteInv, Running, Fresh
  <2>13. CommitInv'
    BY <2>5 DEF CommitInv, Committed
  <2> QED
    BY <2>8, <2>10, <2>11, <2>12, <2>13, <1>3 DEF Keeps, FsInv
<1>5. CASE ~SomeValid
  <2>1. NoneValid(mblk')
    BY <1>1, <1>5, ChosenActive
  <2>2. call' = [op |-> "format"] /\ pc' \in {"failed", "format"} /\ ctx' = ctx
    BY <1>5 DEF Boot
  <2>3. TypeOK'
    BY <2>2, <1>2, <1>3, TypePartsNext
  <2>4. CallInv' /\ RamInv'
    BY <2>1, <2>2 DEF CallInv, RamInv, Running
  <2>5. ScratchInv' /\ SetInv' /\ DeleteInv'
    BY <2>2 DEF ScratchInv, SetInv, DeleteInv, Running, Fresh
  <2>6. CommitInv'
    BY <2>2 DEF CommitInv
  <2> QED
    BY <2>3, <2>4, <2>5, <2>6, <1>3 DEF Keeps, FsInv
<1> QED
  BY <1>4, <1>5

(* Format: both metadata blocks are erased, then one is written. *)
LEMMA FormatStep ==
    ASSUME FsInv, Format
    PROVE  Keeps
<1> DEFINE hdr == [version |-> "supported", swap |-> NextSwap(RolloverVal), scratch |-> InitScratch]
<1>1. /\ pc = "format" /\ pc' = "boot" /\ UNCHANGED <<ctx, call, reply>>
      /\ mblk' = [b \in MetaBlock |-> IF b = 1 THEN [InitMeta(1) EXCEPT !.hdr = hdr]
                                      ELSE BlankMeta]
      /\ cell' = [b \in Block |-> IF b = InitScratch THEN cell[b] ELSE Blank]
  BY DEF Format
<1>2. MetaOK(mblk) /\ CellOK(cell) /\ CtxOK(ctx)
  BY TypeParts DEF FsInv
<1>3. NoneValid(mblk) /\ (call = [op |-> "none"] \/ call = [op |-> "format"])
  BY <1>1 DEF FsInv, RamInv, CallInv, Running
<1>4. /\ hdr \in [version : {"none", "torn", "legacy", "supported"},
                  swap : SwapCount, scratch : Block \cup {NoBlock}]
      /\ ValidHeader(hdr) /\ hdr.version = "supported" /\ hdr.scratch = InitScratch
  <2>1. NextSwap(RolloverVal) \in SwapCount /\ ValidSwapCount(NextSwap(RolloverVal))
    BY RolloverType, NextSwapType
  <2>2. InitScratch \in Block \cup {NoBlock}
    BY ConfigAssumption DEF InitScratch, Block, NoBlock
  <2> QED
    BY <2>1, <2>2 DEF ValidHeader
<1> HIDE DEF hdr
<1>5. PICK bm, fm : bm = InitMeta(1).bmeta /\ fm = InitMeta(1).fmeta
  OBVIOUS
<1>6. mblk'[1].hdr = hdr /\ mblk'[1].bmeta = bm /\ mblk'[1].fmeta = fm /\ mblk'[0] = BlankMeta
      /\ mblk'[1] = [hdr |-> hdr, bmeta |-> bm, fmeta |-> fm]
  <2>1. InitMeta(1) = [hdr |-> BlankHeader, bmeta |-> bm, fmeta |-> fm]
    BY <1>5 DEF InitMeta
  <2>2. mblk'[1] = [InitMeta(1) EXCEPT !.hdr = hdr] /\ mblk'[0] = BlankMeta
    BY <1>1 DEF MetaBlock
  <2>3. mblk'[1] = [hdr |-> hdr, bmeta |-> bm, fmeta |-> fm]
    BY <2>1, <2>2
  <2> QED
    BY <2>2, <2>3
<1>7. Sound(1, bm, fm, cell', InitScratch) /\ Assets(bm, fm, cell') = [f \in Fid |-> None]
  BY <1>5, InitTables
<1>8. mblk'[1] \in MetaType
  BY <1>4, <1>6, <1>7, TableTypes DEF MetaType, Sound
<1>9. MetaOK(mblk')
  <2>1. \A b \in MetaBlock : mblk'[b] \in MetaType
    BY <1>6, <1>8, BlankMetaType DEF MetaBlock
  <2>2. mblk' = [b \in MetaBlock |-> mblk'[b]]
    BY <1>1
  <2> QED
    BY <2>1, <2>2 DEF MetaOK
<1>10. CellOK(cell')
  BY <1>1, <1>2, CellTypes DEF CellOK
<1>11. Loads(mblk', cell', 1)
  <2>1. Other(1) = 0
    BY DEF Other
  <2> QED
    BY <2>1, <1>4, <1>6, <1>7, BlankMetaType DEF Loads
<1>12. 1 \in MetaBlock
  BY DEF MetaBlock
<1>13. Served(mblk', cell') = Served(mblk, cell)
  BY <1>3, <1>6, <1>7, <1>9, <1>11, <1>12, LoadsChosen, NoneServed
<1>14. TypeOK'
  BY <1>1, <1>2, <1>3, <1>9, <1>10, TypePartsNext
<1>15. CallInv' /\ RamInv'
  BY <1>1, <1>3, <1>11, <1>12 DEF CallInv, RamInv, Running
<1>16. ScratchInv' /\ SetInv' /\ DeleteInv'
  BY <1>1 DEF ScratchInv, SetInv, DeleteInv, Running, Fresh
<1>17. CommitInv'
  BY <1>1 DEF CommitInv
<1> QED
  BY <1>13, <1>14, <1>15, <1>16, <1>17 DEF Keeps, FsInv

(* Power fails, and a restart finds the same assets. *)
LEMMA LostPower ==
    ASSUME PowerLost, MetaOK(mblk'), CellOK(cell'), Served(mblk', cell') = Served(mblk, cell),
           \/ NoneValid(mblk')
           \/ \E a \in MetaBlock : Loads(mblk', cell', a)
    PROVE  Keeps
<1>1. ctx' = NoCtx /\ call' = [op |-> "none"] /\ pc' = "boot"
  BY DEF PowerLost, NoCall
<1>2. CtxOK(ctx')
  BY <1>1, RolloverType DEF CtxOK, NoCtx, MetaBlock
<1>3. TypeOK'
  BY <1>1, <1>2, TypePartsNext
<1>4. CallInv' /\ RamInv'
  BY <1>1 DEF CallInv, RamInv, Running
<1>5. ScratchInv' /\ SetInv' /\ DeleteInv'
  BY <1>1 DEF ScratchInv, SetInv, DeleteInv, Running, Fresh
<1>6. CommitInv'
  BY <1>1 DEF CommitInv
<1> QED
  BY <1>3, <1>4, <1>5, <1>6 DEF Keeps, FsInv

(* Power fails between two flash operations. *)
LEMMA CrashStep ==
    ASSUME FsInv, Crash
    PROVE  Keeps
<1>1. PowerLost /\ UNCHANGED <<mblk, cell>> /\ pc # "boot"
  BY DEF Crash
<1>2. MetaOK(mblk') /\ CellOK(cell') /\ Served(mblk', cell') = Served(mblk, cell)
  BY <1>1, TypeParts DEF FsInv
<1>3. NoneValid(mblk') \/ \E a \in MetaBlock : Loads(mblk', cell', a)
  <2>1. CASE Running
    BY <2>1, <1>1, RunningState
  <2>2. CASE ~Running
    BY <2>2, <1>1 DEF FsInv, RamInv
  <2> QED
    BY <2>1, <2>2
<1> QED
  BY <1>1, <1>2, <1>3, LostPower

(* Power fails while the scratch metadata block is programmed or erased. *)
LEMMA CrashInMetaStep ==
    ASSUME FsInv, CrashInMeta
    PROVE  Keeps
<1>1. /\ PowerLost /\ Running
      /\ mblk' = [mblk EXCEPT ![Scratch] = TornMeta]
      /\ cell' = [cell EXCEPT ![Scratch] = Mixed]
  BY DEF CrashInMeta, Running
<1>2. /\ Active \in MetaBlock /\ Scratch \in MetaBlock /\ Scratch # Active
      /\ MetaOK(mblk) /\ CellOK(cell)
  BY <1>1, RunningState
<1>3. MetaOK(mblk')
  BY <1>1, <1>2, BlankMetaType, MetaWritten
<1>4. CellOK(cell')
  BY <1>1, <1>2, CellTypes DEF CellOK
<1>5. mblk'[Active] = mblk[Active] /\ mblk'[Scratch] = TornMeta
  BY <1>1, <1>2 DEF MetaOK
<1>6. ~ValidHeader(mblk'[Scratch].hdr)
  BY <1>5, BlankMetaType
<1>7. \A b \in Block : b # Scratch => cell'[b] = cell[b]
  BY <1>1, <1>2 DEF CellOK
<1>8. Loads(mblk', cell', Active) /\ Served(mblk', cell') = Served(mblk, cell)
  BY <1>1, <1>3, <1>5, <1>6, <1>7, RunKept
<1> QED
  BY <1>1, <1>2, <1>3, <1>4, <1>8, LostPower

(* Power fails while the scratch data block is programmed or erased. *)
LEMMA CrashInDataStep ==
    ASSUME FsInv, CrashInData
    PROVE  Keeps
<1>1. /\ PowerLost /\ Running /\ ~Written /\ NumBlocks > 2
      /\ cell' = [cell EXCEPT ![ctx.scratch] = Mixed] /\ mblk' = mblk
  BY DEF CrashInData, Running, Written
<1>2. MetaOK(mblk) /\ CellOK(cell) /\ Active \in MetaBlock
  BY <1>1, RunningState
<1>3. ctx.scratch = mblk[Active].hdr.scratch
  BY <1>1 DEF FsInv, RamInv
<1>4. CellOK(cell')
  BY <1>1, <1>2, CellTypes DEF CellOK
<1>5. \A b \in Block : b # mblk[Active].hdr.scratch => cell'[b] = cell[b]
  BY <1>1, <1>2, <1>3 DEF CellOK
<1>6. MetaOK(mblk')
  BY <1>1, <1>2
<1>7. Loads(mblk', cell', Active) /\ Served(mblk', cell') = Served(mblk, cell)
  BY <1>1, <1>5, <1>6, RunKept
<1> QED
  BY <1>1, <1>2, <1>4, <1>6, <1>7, LostPower

(* Power fails during a format. *)
LEMMA CrashInFormatStep ==
    ASSUME FsInv, CrashInFormat
    PROVE  Keeps
<1>1. /\ PowerLost /\ pc = "format"
      /\ mblk' = [b \in MetaBlock |-> TornMeta]
      /\ cell' = [b \in Block |-> IF b = InitScratch THEN cell[b] ELSE Mixed]
  BY DEF CrashInFormat
<1>2. NoneValid(mblk) /\ NoneValid(mblk')
  BY <1>1, BlankMetaType DEF FsInv, RamInv, Running, NoneValid
<1>3. MetaOK(mblk')
  BY <1>1, BlankMetaType DEF MetaOK
<1>4. CellOK(cell')
  <2>1. CellOK(cell)
    BY TypeParts DEF FsInv
  <2> QED
    BY <2>1, <1>1, CellTypes DEF CellOK
<1> QED
  BY <1>1, <1>2, <1>3, <1>4, LostPower, NoneServed

-----------------------------------------------------------------------------
(* Calls up to their first write *)

(* Nothing but the call and its progress changes. *)
LEMMA QuietStep ==
    ASSUME FsInv, Running, ~Written, UNCHANGED <<mblk, cell, ctx>>, Running', ~Written'
    PROVE  /\ RamInv' /\ MetaOK(mblk') /\ CellOK(cell') /\ CtxOK(ctx')
           /\ Served(mblk', cell') = Served(mblk, cell)
           /\ FM' = FM /\ BM' = BM /\ NFM' = NFM /\ NBM' = NBM
           /\ Scratch' = Scratch /\ Active' = Active
<1>1. MetaOK(mblk') /\ CellOK(cell') /\ CtxOK(ctx')
  BY RunningState
<1>2. /\ FM' = FM /\ BM' = BM /\ NFM' = NFM /\ NBM' = NBM
      /\ Scratch' = Scratch /\ Active' = Active
  BY DEF FM, BM, NFM, NBM, Active, Scratch
<1>3. Loads(mblk', cell', Active')
  BY <1>2, RunningState
<1>4. /\ ctx.swap = mblk[Active].hdr.swap /\ ctx.version = "supported"
      /\ ctx.scratch = mblk[Active].hdr.scratch
  BY DEF FsInv, RamInv
<1>5. RamInv'
  BY <1>2, <1>3, <1>4 DEF RamInv
<1> QED
  BY <1>1, <1>2, <1>5

(* Start: a file that a replace left marked is deleted. *)
LEMMA BootCleanupStep ==
    ASSUME FsInv, BootCleanup
    PROVE  Keeps
<1>1. pc = "boot_cleanup" /\ UNCHANGED <<mblk, cell, ctx, reply>>
  BY DEF BootCleanup
<1>2. Running /\ ~Written
  BY <1>1 DEF Running, Written
<1>3. /\ ~Unreadable(IdxFlagged)
      /\ \/ IdxFlagged = NoIdx /\ \A i \in FileIdx : ~Marked(FM[i])
         \/ IdxFlagged \in FileIdx /\ IdxFlagged # NoIdx /\ Marked(FM[IdxFlagged])
  BY <1>2, RunningState, FlaggedFinds
<1>4. GoodFiles(FM)
  BY <1>2, RunningState DEF Sound
<1>5. mblk[Scratch] = BlankMeta /\ cell[Scratch] = Blank /\ mblk[Scratch].hdr = BlankHeader
      /\ (NumBlocks > 2 => cell[ctx.scratch] = Blank)
  BY <1>1, <1>2 DEF FsInv, ScratchInv, Fresh
<1>6. CASE IdxFlagged = NoIdx
  <2>1. pc' = "ready" /\ call' = [op |-> "none"]
    BY <1>3, <1>6 DEF BootCleanup, NoCall
  <2>2. Running' /\ ~Written'
    BY <2>1 DEF Running, Written
  <2>3. /\ RamInv' /\ MetaOK(mblk') /\ CellOK(cell') /\ CtxOK(ctx')
        /\ Served(mblk', cell') = Served(mblk, cell) /\ FM' = FM /\ Scratch' = Scratch
    BY <2>2, <1>1, <1>2, QuietStep
  <2>4. TypeOK'
    BY <2>1, <2>3, TypePartsNext
  <2>5. CallInv'
    BY <2>1 DEF CallInv, Running
  <2>6. ScratchInv'
    BY <2>1, <2>3, <1>1, <1>5 DEF ScratchInv, Fresh
  <2>7. SetInv' /\ DeleteInv'
    BY <2>1 DEF SetInv, DeleteInv
  <2>8. NoneMarked(FM')
    BY <2>3, <1>3, <1>6, Blocks DEF NoneMarked, Live
  <2>9. CommitInv'
    BY <2>1, <2>8 DEF CommitInv
  <2> QED
    BY <2>3, <2>4, <2>5, <2>6, <2>7, <2>9 DEF Keeps, FsInv
<1>7. CASE IdxFlagged # NoIdx
  <2>0. PICK i \in FileIdx : i = IdxFlagged /\ Marked(FM[i])
    BY <1>3, <1>7
  <2>1. pc' = "delete" /\ call' = [op |-> "cleanup", old |-> i]
    BY <2>0, <1>3, <1>7 DEF BootCleanup
  <2>2. Running' /\ ~Written'
    BY <2>1 DEF Running, Written
  <2>3. /\ RamInv' /\ MetaOK(mblk') /\ CellOK(cell') /\ CtxOK(ctx')
        /\ Served(mblk', cell') = Served(mblk, cell) /\ FM' = FM /\ Scratch' = Scratch
    BY <2>2, <1>1, <1>2, QuietStep
  <2>4. TypeOK'
    BY <2>1, <2>3, TypePartsNext
  <2>5. CallInv'
    BY <2>1 DEF CallInv, Running, CleanupCall
  <2>6. ScratchInv'
    BY <2>1, <2>3, <1>1, <1>5 DEF ScratchInv, Fresh
  <2>7. i \in Live(FM)
    BY <2>0, <1>4, LiveFile, EmptyFileType DEF Marked
  <2>8. Deleting'
    BY <2>0, <2>1, <2>3, <2>7 DEF Deleting
  <2>9. SetInv' /\ DeleteInv' /\ CommitInv'
    BY <2>1, <2>8 DEF SetInv, DeleteInv, CommitInv
  <2> QED
    BY <2>3, <2>4, <2>5, <2>6, <2>9 DEF Keeps, FsInv
<1> QED
  BY <1>6, <1>7

(* The scratch blocks are erased whenever no call works on them. *)
ScratchClean ==
    /\ mblk[Scratch] = BlankMeta /\ cell[Scratch] = Blank
    /\ NumBlocks > 2 => cell[ctx.scratch] = Blank

(* Between calls the scratch blocks are erased and no file is marked. *)
LEMMA CleanState ==
    ASSUME FsInv, pc \in {"ready", "set", "remove"}
    PROVE  /\ Running /\ ~Written /\ ScratchClean /\ NoneMarked(FM)
           /\ mblk[Scratch].hdr = BlankHeader
BY DEF FsInv, ScratchInv, CommitInv, Running, Written, Fresh, ScratchClean

(* A call ends, or begins, and nothing was written. *)
LEMMA ReadyStep ==
    ASSUME FsInv, Running, ~Written, UNCHANGED <<mblk, cell, ctx>>, pc' = "ready", call' = NoCall,
           ScratchClean, NoneMarked(FM)
    PROVE  Keeps
<1>1. call' = [op |-> "none"]
  BY DEF NoCall
<1>2. Running' /\ ~Written'
  BY DEF Running, Written
<1>3. /\ RamInv' /\ MetaOK(mblk') /\ CellOK(cell') /\ CtxOK(ctx')
      /\ Served(mblk', cell') = Served(mblk, cell) /\ FM' = FM /\ Scratch' = Scratch
  BY <1>2, QuietStep
<1>4. TypeOK'
  BY <1>1, <1>3, TypePartsNext
<1>5. CallInv'
  BY <1>1 DEF CallInv, Running
<1>6. ScratchInv'
  BY <1>3, BlankMetaType DEF ScratchInv, Fresh, ScratchClean
<1>7. SetInv' /\ DeleteInv'
  BY DEF SetInv, DeleteInv
<1>8. CommitInv'
  BY <1>3 DEF CommitInv
<1> QED
  BY <1>3, <1>4, <1>5, <1>6, <1>7, <1>8 DEF Keeps, FsInv

(* A client calls set. *)
LEMMA SetStarts ==
    ASSUME FsInv, NEW f \in Fid, NEW d \in Contents, NEW once \in OnceFlags, Set(f, d, once)
    PROVE  Keeps
<1>1. /\ pc = "ready" /\ pc' = "set" /\ UNCHANGED <<mblk, cell, ctx>>
      /\ call' = [op |-> "set", fid |-> f, data |-> d, once |-> once, old |-> NoIdx]
  BY DEF Set
<1>2. Running /\ ~Written /\ ScratchClean /\ NoneMarked(FM)
  BY <1>1, CleanState
<1>3. Running' /\ ~Written'
  BY <1>1 DEF Running, Written
<1>4. /\ RamInv' /\ MetaOK(mblk') /\ CellOK(cell') /\ CtxOK(ctx')
      /\ Served(mblk', cell') = Served(mblk, cell) /\ FM' = FM /\ Scratch' = Scratch
  BY <1>1, <1>2, <1>3, QuietStep
<1>5. once \in BOOLEAN
  BY ClientAssumption
<1>6. call' \in SetCall
  BY <1>1, <1>5 DEF SetCall
<1>7. TypeOK'
  BY <1>1, <1>4, TypePartsNext
<1>8. CallInv'
  BY <1>1, <1>6 DEF CallInv, Running
<1>9. ScratchInv'
  BY <1>1, <1>2, <1>4, BlankMetaType DEF ScratchInv, Fresh, ScratchClean
<1>10. SetInv' /\ DeleteInv' /\ CommitInv'
  BY <1>1, <1>2, <1>4 DEF SetInv, DeleteInv, CommitInv
<1> QED
  BY <1>4, <1>7, <1>8, <1>9, <1>10 DEF Keeps, FsInv

(* A client calls remove. *)
LEMMA RemoveStarts ==
    ASSUME FsInv, NEW f \in Fid, Remove(f)
    PROVE  Keeps
<1>1. /\ pc = "ready" /\ pc' = "remove" /\ UNCHANGED <<mblk, cell, ctx>>
      /\ call' = [op |-> "remove", fid |-> f, old |-> NoIdx]
  BY DEF Remove
<1>2. Running /\ ~Written /\ ScratchClean /\ NoneMarked(FM)
  BY <1>1, CleanState
<1>3. Running' /\ ~Written'
  BY <1>1 DEF Running, Written
<1>4. /\ RamInv' /\ MetaOK(mblk') /\ CellOK(cell') /\ CtxOK(ctx')
      /\ Served(mblk', cell') = Served(mblk, cell) /\ FM' = FM /\ Scratch' = Scratch
  BY <1>1, <1>2, <1>3, QuietStep
<1>5. call' \in RemoveCall
  BY <1>1 DEF RemoveCall
<1>6. TypeOK'
  BY <1>1, <1>4, TypePartsNext
<1>7. CallInv'
  BY <1>1, <1>5 DEF CallInv, Running
<1>8. ScratchInv'
  BY <1>1, <1>2, <1>4, BlankMetaType DEF ScratchInv, Fresh, ScratchClean
<1>9. SetInv' /\ DeleteInv' /\ CommitInv'
  BY <1>1, <1>2, <1>4 DEF SetInv, DeleteInv, CommitInv
<1> QED
  BY <1>4, <1>6, <1>7, <1>8, <1>9 DEF Keeps, FsInv

(* A client calls get. *)
LEMMA GetStep ==
    ASSUME FsInv, NEW f \in Fid, Get(f)
    PROVE  Keeps
<1>1. pc = "ready" /\ pc' = "ready" /\ UNCHANGED <<mblk, cell, ctx>> /\ call' = call
  BY DEF Get
<1>2. Running /\ ~Written /\ ScratchClean /\ NoneMarked(FM)
  BY <1>1, CleanState
<1>3. call' = NoCall
  BY <1>1 DEF FsInv, CallInv, NoCall
<1> QED
  BY <1>1, <1>2, <1>3, ReadyStep

(* A remove looks up its file. *)
LEMMA StartRemoveStep ==
    ASSUME FsInv, StartRemove
    PROVE  Keeps
<1>1. pc = "remove" /\ UNCHANGED <<mblk, cell, ctx>>
  BY DEF StartRemove
<1>2. Running /\ ~Written /\ ScratchClean /\ NoneMarked(FM)
  BY <1>1, CleanState
<1>3. CASE pc' = "ready" /\ call' = NoCall
  BY <1>1, <1>2, <1>3, ReadyStep
<1>4. CASE ~(pc' = "ready" /\ call' = NoCall)
  <2>1. /\ IdxOf(call.fid) # NoIdx /\ ~Unreadable(IdxOf(call.fid)) /\ ~Once(IdxOf(call.fid))
        /\ pc' = "delete" /\ call' = [call EXCEPT !.old = IdxOf(call.fid)]
    BY <1>4 DEF StartRemove, Fail
  <2>2. call \in RemoveCall
    BY <1>1 DEF FsInv, CallInv
  <2>3. PICK i \in FileIdx : i = IdxOf(call.fid) /\ FM[i].id = call.fid
    BY <2>1, <1>2, RunningState, IdxOfFinds
  <2>4. "WRITE_ONCE" \notin FM[i].flags
    BY <2>1, <2>3, <1>2, RunningState DEF Once
  <2>5. /\ call' \in RemoveCall /\ call'.old = i /\ call'.fid = call.fid /\ call'.op = "remove"
        /\ call.fid \in Fid
    BY <2>1, <2>2, <2>3 DEF RemoveCall
  <2>6. Running' /\ ~Written'
    BY <2>1 DEF Running, Written
  <2>7. /\ RamInv' /\ MetaOK(mblk') /\ CellOK(cell') /\ CtxOK(ctx')
        /\ Served(mblk', cell') = Served(mblk, cell) /\ FM' = FM /\ Scratch' = Scratch
    BY <1>1, <1>2, <2>6, QuietStep
  <2>8. TypeOK'
    BY <2>1, <2>5, <2>7, TypePartsNext
  <2>9. CallInv'
    BY <2>1, <2>5 DEF CallInv, Running
  <2>10. ScratchInv'
    BY <2>1, <2>7, <1>1, <1>2, BlankMetaType DEF ScratchInv, Fresh, ScratchClean
  <2>11. i \in Live(FM)
    BY <2>3, <2>5, EmptyFileType DEF Live
  <2>12. Deleting'
    BY <2>3, <2>4, <2>5, <2>7, <2>11, <1>2 DEF Deleting
  <2>13. SetInv' /\ DeleteInv' /\ CommitInv'
    BY <2>1, <2>12 DEF SetInv, DeleteInv, CommitInv
  <2> QED
    BY <2>7, <2>8, <2>9, <2>10, <2>13 DEF Keeps, FsInv
<1> QED
  BY <1>3, <1>4

(* Without marked files an id has one file. *)
LEMMA OnlyFile ==
    ASSUME NEW fm, OneEach(fm), NoneMarked(fm), NEW f \in Fid, NEW i \in FileIdx, fm[i].id = f
    PROVE  i \in Live(fm) /\ \A k \in FileIdx : fm[k].id = f => k = i
<1>1. \A k \in FileIdx : fm[k].id = f => k \in Live(fm)
  BY EmptyFileType DEF Live
<1> QED
  BY <1>1 DEF OneEach, NoneMarked

(* The call of a set that has found a place *)
PlacedRec(op, f, d, o, old, i, l, x, cur, p, fr) ==
    [op |-> op, fid |-> f, data |-> d, once |-> o, old |-> old, new |-> i,
     meta |-> [id |-> f, lblock |-> l, idx |-> x, cur |-> cur, max |-> Len(d),
               flags |-> IF o THEN {"WRITE_ONCE"} ELSE {}],
     bm |-> [phy |-> p, free |-> fr]]

(* A set that has found its place has the type of such calls. *)
LEMMA PlacedCallType ==
    ASSUME NEW f \in Fid, NEW d \in Contents, NEW o \in BOOLEAN, NEW old \in FileIdx \cup {NoIdx},
           NEW i \in FileIdx, NEW l \in LBlock, NEW x \in 0 .. BlockSize,
           Len(d) \in 1 .. MaxFileSize, NEW p \in Block, NEW fr \in 0 .. BlockSize,
           NEW cur \in 0 .. MaxFileSize, NEW op \in {"set", "set_cleanup"}
    PROVE  PlacedRec(op, f, d, o, old, i, l, x, cur, p, fr) \in PlacedCall
<1>1. PICK n \in 1 .. MaxFileSize : n = Len(d)
  OBVIOUS
<1>2. PICK fl \in SUBSET {"WRITE_ONCE"} : fl = IF o THEN {"WRITE_ONCE"} ELSE {}
  OBVIOUS
<1> QED
  BY <1>1, <1>2 DEF PlacedCall, PlacedRec

(* The data phase of a set begins. *)
LEMMA PlacedStep ==
    ASSUME FsInv, pc \in {"set", "reserve"}, UNCHANGED <<mblk, cell, ctx>>, pc' = "data",
           0 \notin Sizes,
           NEW i \in FileIdx, NEW old \in FileIdx \cup {NoIdx}, NEW l \in LBlock,
           NEW x, NEW fr,
           Place(BM, FM, call.fid, Len(call.data), i, old, l, x, fr),
           Rewritable(call.fid),
           NFM = [k \in FileIdx |-> IF k = old /\ k # i THEN MarkFile(FM[k]) ELSE BlankFile],
           call' = [op |-> "set", fid |-> call.fid, data |-> call.data, once |-> call.once,
                    old |-> old, new |-> i,
                    meta |-> [id |-> call.fid, lblock |-> l, idx |-> x, cur |-> 0,
                              max |-> Len(call.data), flags |-> FlagsOf(call)],
                    bm |-> [phy |-> BM[l].phy, free |-> fr]]
    PROVE  Keeps
<1>1. /\ Running /\ ~Written /\ cell[Scratch] = Blank /\ NoneMarked(FM)
      /\ mblk[Scratch].hdr = BlankHeader /\ (NumBlocks > 2 => cell[ctx.scratch] = Blank)
  BY DEF FsInv, ScratchInv, CommitInv, Running, Written, Fresh
<1>2. Running' /\ ~Written'
  BY DEF Running, Written
<1>3. /\ RamInv' /\ MetaOK(mblk') /\ CellOK(cell') /\ CtxOK(ctx')
      /\ Served(mblk', cell') = Served(mblk, cell) /\ FM' = FM /\ BM' = BM /\ NFM' = NFM
      /\ Scratch' = Scratch
  BY <1>1, <1>2, QuietStep
<1>4. call \in SetCall
  BY DEF FsInv, CallInv
<1>5. PICK f \in Fid, d \in Contents, o \in BOOLEAN : f = call.fid /\ d = call.data
        /\ o = call.once
  BY <1>4 DEF SetCall
<1>6. PICK bm, fm, c, a, sp : bm = BM /\ fm = FM /\ c = cell /\ a = Active
        /\ sp = mblk[Active].hdr.scratch
  OBVIOUS
<1>7. /\ Len(d) \in 1 .. MaxFileSize /\ x \in 0 .. BlockSize /\ fr \in 0 .. BlockSize
  <2>1. SetStep(a, bm, fm, c, sp, f, d, o, i, old, l, x, fr, NewBlocks(bm, a, sp, l, fr),
                AfterSet(fm, i, old, PlacedFile(f, l, x, d, o)))
    BY <1>1, <1>5, <1>6, RunningState DEF SetStep
  <2> QED
    BY <2>1, PlaceType
<1>8. BM[l].phy \in Block
  BY <1>1, RunningState DEF Sound, GoodBlocks
<1>9. FlagsOf(call) = IF o THEN {"WRITE_ONCE"} ELSE {}
  BY <1>5 DEF FlagsOf
<1>10. PICK p \in Block : p = BM[l].phy
  BY <1>8
<1>11. call' = [op |-> "set", fid |-> f, data |-> d, once |-> o, old |-> old, new |-> i,
                meta |-> [id |-> f, lblock |-> l, idx |-> x, cur |-> 0, max |-> Len(d),
                          flags |-> IF o THEN {"WRITE_ONCE"} ELSE {}],
                bm |-> [phy |-> p, free |-> fr]]
  BY <1>5, <1>9, <1>10
<1>12. call' \in PlacedCall
  <2>1. 0 \in 0 .. MaxFileSize
    BY ConfigAssumption
  <2>2. PlacedRec("set", f, d, o, old, i, l, x, 0, p, fr) \in PlacedCall
    BY <2>1, <1>7, PlacedCallType
  <2> QED
    BY <2>2, <1>11 DEF PlacedRec
<1>13. /\ call'.op = "set" /\ call'.fid = f /\ call'.data = d /\ call'.once = o
       /\ call'.old = old /\ call'.new = i
       /\ call'.meta.id = f /\ call'.meta.lblock = l /\ call'.meta.idx = x /\ call'.meta.cur = 0
       /\ call'.meta.max = Len(d) /\ call'.meta.flags = IF o THEN {"WRITE_ONCE"} ELSE {}
       /\ call'.bm.phy = p /\ call'.bm.free = fr
  <2>1. PICK m, b : /\ m = [id |-> f, lblock |-> l, idx |-> x, cur |-> 0, max |-> Len(d),
                            flags |-> IF o THEN {"WRITE_ONCE"} ELSE {}]
                    /\ b = [phy |-> p, free |-> fr]
    OBVIOUS
  <2>2. call' = [op |-> "set", fid |-> f, data |-> d, once |-> o, old |-> old, new |-> i,
                 meta |-> m, bm |-> b]
    BY <2>1, <1>11
  <2>3. /\ call'.op = "set" /\ call'.fid = f /\ call'.data = d /\ call'.once = o
        /\ call'.old = old /\ call'.new = i /\ call'.meta = m /\ call'.bm = b
    BY ONLY <2>2
  <2>4. /\ m.id = f /\ m.lblock = l /\ m.idx = x /\ m.cur = 0
        /\ m.max = Len(d) /\ m.flags = (IF o THEN {"WRITE_ONCE"} ELSE {})
        /\ b.phy = p /\ b.free = fr
    BY ONLY <2>1
  <2> QED
    BY ONLY <2>3, <2>4
<1>14. TypeOK'
  BY <1>3, <1>13, TypePartsNext
<1>15. CallInv'
  BY <1>12, <1>13 DEF CallInv, Running
<1>16. ScratchInv'
  BY <1>1, <1>3, <1>13 DEF ScratchInv, Fresh
<1>17. Rewritable(call.fid)'
  BY <1>3, <1>5, <1>13 DEF Rewritable
<1>18. FlagsOf(call)' = IF o THEN {"WRITE_ONCE"} ELSE {}
  BY <1>13 DEF FlagsOf
<1>19. Place(BM, FM, f, Len(d), i, old, l, x, fr)
  BY <1>5
<1>20. SetInv'
  BY <1>3, <1>10, <1>13, <1>17, <1>18, <1>19 DEF SetInv, Rewritable
<1>21. DeleteInv' /\ CommitInv'
  BY <1>1, <1>3 DEF DeleteInv, CommitInv
<1> QED
  BY <1>3, <1>14, <1>15, <1>16, <1>20, <1>21 DEF Keeps, FsInv

(* A set looks up its file, which it rewrites in place or marks. *)
LEMMA StartSetStep ==
    ASSUME FsInv, StartSet, 0 \notin Sizes
    PROVE  Keeps
<1>1. pc = "set" /\ UNCHANGED <<cell, ctx>>
  BY DEF StartSet
<1>2. Running /\ ~Written /\ ScratchClean /\ NoneMarked(FM) /\ mblk[Scratch].hdr = BlankHeader
  BY <1>1, CleanState
<1>3. call \in SetCall /\ call.old = NoIdx
  BY <1>1 DEF FsInv, CallInv, SetInv
<1>4. PICK f \in Fid : f = call.fid
  BY <1>3 DEF SetCall
<1>5. NFM = [k \in FileIdx |-> BlankFile]
  BY <1>2, BlankMetaType DEF ScratchClean, NFM
<1>6. CASE mblk' = mblk /\ pc' = "ready" /\ call' = NoCall
  BY <1>1, <1>2, <1>6, ReadyStep
<1>7. CASE IdxOf(call.fid) = NoIdx /\ mblk' = mblk /\ pc' = "reserve" /\ call' = call
  <2>1. \A i \in FileIdx : FM[i].id # f
    BY <1>2, <1>4, <1>7, RunningState, IdxOfFinds, Blocks
  <2>2. Running' /\ ~Written'
    BY <1>7 DEF Running, Written
  <2>3. /\ RamInv' /\ MetaOK(mblk') /\ CellOK(cell') /\ CtxOK(ctx')
        /\ Served(mblk', cell') = Served(mblk, cell) /\ FM' = FM /\ NFM' = NFM
        /\ Scratch' = Scratch
    BY <1>1, <1>2, <1>7, <2>2, QuietStep
  <2>4. TypeOK'
    BY <1>3, <1>7, <2>3, TypePartsNext DEF SetCall
  <2>5. CallInv'
    BY <1>3, <1>7 DEF CallInv, Running
  <2>6. NFM' = [k \in FileIdx |-> IF k = call'.old THEN MarkFile(FM'[k]) ELSE BlankFile]
    BY <2>3, <1>3, <1>5, <1>7, Blocks
  <2>7. ScratchInv'
    BY <2>3, <2>6, <1>1, <1>2, <1>7 DEF ScratchInv, Fresh, ScratchClean
  <2>8. SetInv'
    BY <2>1, <2>3, <1>3, <1>4, <1>7 DEF SetInv, Rewritable
  <2>9. DeleteInv' /\ CommitInv'
    BY <1>2, <1>7, <2>3 DEF DeleteInv, CommitInv
  <2> QED
    BY <2>3, <2>4, <2>5, <2>7, <2>8, <2>9 DEF Keeps, FsInv
<1>8. ASSUME IdxOf(call.fid) # NoIdx, ~Unreadable(IdxOf(call.fid)), ~Once(IdxOf(call.fid))
      PROVE  \E i \in FileIdx : /\ i = IdxOf(call.fid) /\ FM[i].id = f /\ File(i) = FM[i]
                                /\ Rewritable(f) /\ i \in Live(FM)
  <2>1. PICK i \in FileIdx : i = IdxOf(call.fid) /\ FM[i].id = f /\ File(i) = FM[i]
    BY <1>2, <1>4, <1>8, RunningState, IdxOfFinds
  <2>2. "WRITE_ONCE" \notin FM[i].flags
    BY <2>1, <1>8, Blocks DEF Once
  <2>3. OneEach(FM)
    BY <1>2, RunningState DEF Sound
  <2> QED
    BY <2>1, <2>2, <2>3, <1>2, OnlyFile DEF Rewritable
<1>9. CASE /\ IdxOf(call.fid) # NoIdx /\ ~Unreadable(IdxOf(call.fid)) /\ ~Once(IdxOf(call.fid))
           /\ File(IdxOf(call.fid)).max = Len(call.data)
           /\ call' = Working([call EXCEPT !.old = IdxOf(call.fid)], IdxOf(call.fid),
                              [File(IdxOf(call.fid)) EXCEPT !.cur = 0, !.flags = FlagsOf(call)],
                              BlockMeta(File(IdxOf(call.fid)).lblock))
           /\ pc' = "data" /\ mblk' = mblk
  <2>1. PICK i \in FileIdx : /\ i = IdxOf(call.fid) /\ FM[i].id = f /\ File(i) = FM[i]
                             /\ Rewritable(f) /\ i \in Live(FM)
    BY <1>8, <1>9
  <2>2. GoodFiles(FM) /\ GoodBlocks(BM)
    BY <1>2, RunningState DEF Sound
  <2>3. FM[i] \in GoodFile
    BY <2>1, <2>2, LiveFile, EmptyFileType DEF Live
  <2>4. PICK l \in LBlock, x \in Nat : l = FM[i].lblock /\ x = FM[i].idx
    BY <2>1, <2>2, <2>3, LiveFile, EmptyFileType DEF Live
  <2>5. PICK g, n : g = FlagsOf(call) /\ n = Len(call.data)
    OBVIOUS
  <2>6. [FM[i] EXCEPT !.cur = 0, !.flags = g]
          = [id |-> f, lblock |-> l, idx |-> x, cur |-> 0, max |-> n, flags |-> g]
    <3>1. PICK m \in GoodFile : m = FM[i]
      BY <2>3
    <3>2. m.id = f /\ m.lblock = l /\ m.idx = x /\ m.max = n
      BY <2>1, <2>4, <2>5, <3>1, <1>9
    <3>3. PICK h, k : m = [id |-> f, lblock |-> l, idx |-> x, cur |-> h, max |-> n, flags |-> k]
      BY ONLY m \in GoodFile, <3>2 DEF GoodFile
    <3>4. PICK m1 : m1 = [m EXCEPT !.cur = 0]
      OBVIOUS
    <3>5. m1 = [id |-> f, lblock |-> l, idx |-> x, cur |-> 0, max |-> n, flags |-> k]
      BY ONLY <3>3, <3>4
    <3>6. [m1 EXCEPT !.flags = g]
            = [id |-> f, lblock |-> l, idx |-> x, cur |-> 0, max |-> n, flags |-> g]
      BY ONLY <3>5
    <3>7. [m EXCEPT !.cur = 0, !.flags = g] = [m1 EXCEPT !.flags = g]
      BY ONLY <3>4
    <3> QED
      BY ONLY <3>1, <3>6, <3>7
  <2>7. BlockMeta(l) = BM[l] /\ BM[l] \in [phy : Block, free : 0 .. BlockSize]
    BY <2>2 DEF BlockMeta, BM, GoodBlocks
  <2>8. PICK p, fr : p = BM[l].phy /\ fr = BM[l].free
    OBVIOUS
  <2>9. BlockMeta(l) = [phy |-> p, free |-> fr]
    BY <2>7, <2>8
  <2>10. [call EXCEPT !.old = i]
           = [op |-> "set", fid |-> call.fid, data |-> call.data, once |-> call.once, old |-> i]
    BY <1>3 DEF SetCall
  <2>11. call' = Working([call EXCEPT !.old = i], i, [FM[i] EXCEPT !.cur = 0, !.flags = g], BlockMeta(l))
    BY <1>9, <2>1, <2>4, <2>5
  <2>12. call' = [op |-> "set", fid |-> call.fid, data |-> call.data, once |-> call.once,
                  old |-> i, new |-> i,
                  meta |-> [id |-> call.fid, lblock |-> l, idx |-> x, cur |-> 0,
                            max |-> Len(call.data), flags |-> FlagsOf(call)],
                  bm |-> [phy |-> BM[l].phy, free |-> fr]]
    BY <2>5, <2>6, <2>8, <2>9, <2>10, <2>11, <1>4 DEF Working
  <2>13. Place(BM, FM, call.fid, Len(call.data), i, i, l, x, fr)
    BY <2>1, <2>4, <2>8, <1>4, <1>9 DEF Place
  <2>14. NFM = [k \in FileIdx |-> IF k = i /\ k # i THEN MarkFile(FM[k]) ELSE BlankFile]
    BY <1>5
  <2>15. i \in FileIdx \cup {NoIdx}
    OBVIOUS
  <2>16. pc \in {"set", "reserve"} /\ UNCHANGED <<mblk, cell, ctx>> /\ pc' = "data"
         /\ Rewritable(call.fid)
    BY <2>1, <1>1, <1>4, <1>9
  <2> QED
    BY <2>12, <2>13, <2>14, <2>15, <2>16, PlacedStep
<1>10. CASE /\ IdxOf(call.fid) # NoIdx /\ ~Unreadable(IdxOf(call.fid)) /\ ~Once(IdxOf(call.fid))
            /\ mblk' = [mblk EXCEPT ![Scratch].fmeta[IdxOf(call.fid)] =
                 ProgramFile(@, [File(IdxOf(call.fid)) EXCEPT !.flags = @ \cup {"DELETE"}])]
            /\ call' = [call EXCEPT !.old = IdxOf(call.fid)]
            /\ pc' = "reserve"
  <2>1. PICK i \in FileIdx : /\ i = IdxOf(call.fid) /\ FM[i].id = f /\ File(i) = FM[i]
                             /\ Rewritable(f) /\ i \in Live(FM)
    BY <1>8, <1>10
  <2>2. PICK s \in MetaBlock, a \in MetaBlock : s = Scratch /\ a = Active /\ s # a
    BY <1>2, RunningState
  <2>3. GoodFiles(FM) /\ MetaOK(mblk) /\ CellOK(cell) /\ CtxOK(ctx)
    BY <1>2, RunningState DEF Sound
  <2>4. PICK mf \in FileMeta : mf = MarkFile(FM[i])
          /\ mf = [File(i) EXCEPT !.flags = @ \cup {"DELETE"}]
    <3>1. FM[i] \in GoodFile
      BY <2>1, <2>3, LiveFile, EmptyFileType DEF Live
    <3> QED
      BY <3>1, <2>1, MarkedFileType, FileTypes DEF MarkFile
  <2>5. mblk[s].fmeta = [k \in FileIdx |-> BlankFile]
    BY <2>2, <1>5 DEF NFM
  <2>6. PICK nf : nf = [k \in FileIdx |-> IF k = i THEN mf ELSE BlankFile]
    OBVIOUS
  <2>7. mblk' = [mblk EXCEPT ![s] = [mblk[s] EXCEPT !.fmeta = nf]]
    <3>1. ProgramFile(mblk[s].fmeta[i], mf) = mf
      BY <2>5 DEF ProgramFile
    <3>2. mblk' = [mblk EXCEPT ![s].fmeta[i] = ProgramFile(@, mf)]
      BY <1>10, <2>1, <2>2, <2>4
    <3>3. mblk' = [mblk EXCEPT ![s] = [mblk[s] EXCEPT !.fmeta =
                     [mblk[s].fmeta EXCEPT ![i] = ProgramFile(mblk[s].fmeta[i], mf)]]]
      BY <3>2
    <3>4. [mblk[s].fmeta EXCEPT ![i] = mf] = nf
      BY <2>5, <2>6
    <3> QED
      BY <3>1, <3>3, <3>4
  <2>8. nf \in [FileIdx -> FileMeta]
    BY <2>4, <2>6, FileTypes
  <2>9. PICK ms : ms = mblk[s]
    OBVIOUS
  <2>10. ms \in MetaType
    BY <2>3, <2>9 DEF MetaOK
  <2>11. PICK ms2 : ms2 = [ms EXCEPT !.fmeta = nf]
    OBVIOUS
  <2>12. ms2 \in MetaType /\ ms2.hdr = ms.hdr /\ ms2.fmeta = nf
    BY <2>8, <2>10, <2>11 DEF MetaType
  <2>13. mblk' = [mblk EXCEPT ![s] = ms2]
    BY <2>7, <2>9, <2>11
  <2>14. MetaOK(mblk')
    BY <2>3, <2>12, <2>13, MetaWritten
  <2>15. mblk'[a] = mblk[a] /\ mblk'[s] = ms2
    BY <2>2, <2>3, <2>13 DEF MetaOK
  <2>16. mblk'[Scratch].hdr = mblk[Scratch].hdr
    BY <2>2, <2>9, <2>12, <2>15
  <2>17. Loads(mblk', cell', Active) /\ Served(mblk', cell') = Served(mblk, cell)
    BY <1>1, <1>2, <2>2, <2>14, <2>15, <2>16, RunKept
  <2>18. Active' = Active /\ Scratch' = Scratch /\ FM' = FM /\ NFM' = nf
    BY <1>1, <2>2, <2>12, <2>15 DEF Active, Scratch, FM, NFM
  <2>19. /\ call' \in SetCall /\ call'.old = i /\ call'.fid = f /\ call'.op = "set"
    BY <1>3, <1>4, <1>10, <2>1 DEF SetCall
  <2>20. TypeOK'
    BY <1>1, <1>10, <2>3, <2>14, <2>19, TypePartsNext
  <2>21. CallInv'
    BY <1>10, <2>19 DEF CallInv, Running
  <2>22. RamInv'
    <3>1. /\ ctx.swap = mblk[Active].hdr.swap /\ ctx.version = "supported"
          /\ ctx.scratch = mblk[Active].hdr.scratch
      BY <1>2 DEF FsInv, RamInv
    <3> QED
      BY <3>1, <1>1, <1>10, <2>2, <2>15, <2>17, <2>18 DEF RamInv, Running
  <2>23. ScratchInv'
    <3>1. NFM' = [k \in FileIdx |-> IF k = call'.old THEN MarkFile(FM'[k]) ELSE BlankFile]
      BY <2>4, <2>6, <2>18, <2>19
    <3>2. call'.old # NoIdx
      BY <2>19, Blocks
    <3>3. mblk'[Scratch'].hdr = BlankHeader
      BY <2>16, <2>18, <1>2
    <3>4. cell'[Scratch'] = Blank /\ (NumBlocks > 2 => cell'[ctx'.scratch] = Blank)
      BY <2>18, <1>1, <1>2 DEF ScratchClean
    <3> QED
      BY <3>1, <3>2, <3>3, <3>4, <1>10 DEF ScratchInv, Fresh
  <2>24. SetInv'
    BY <1>10, <2>1, <2>18, <2>19 DEF SetInv, Rewritable
  <2>25. DeleteInv' /\ CommitInv'
    BY <1>2, <1>10, <2>18 DEF DeleteInv, CommitInv
  <2> QED
    BY <2>17, <2>20, <2>21, <2>22, <2>23, <2>24, <2>25 DEF Keeps, FsInv
<1> QED
  BY <1>6, <1>7, <1>9, <1>10 DEF StartSet, Fail

(* A set reserves an entry and cells for its file. *)
LEMMA ReserveStep ==
    ASSUME FsInv, Reserve, ReplaceHasRoom, 0 \notin Sizes
    PROVE  Keeps
<1>1. pc = "reserve" /\ UNCHANGED <<mblk, cell, ctx>>
  BY DEF Reserve
<1>2. Running /\ ~Written /\ NoneMarked(FM)
  BY <1>1 DEF FsInv, CommitInv, Running, Written
<1>3. /\ GoodFiles(FM) /\ GoodBlocks(BM) /\ Spared(FM)
      /\ \A k \in FileIdx : ValidFile(File(k)) /\ File(k) = FM[k]
      /\ \A k \in LBlock : BlockMeta(k) = BM[k]
  BY <1>2, RunningState DEF Sound
<1>4. call \in SetCall /\ Rewritable(call.fid)
  BY <1>1 DEF FsInv, CallInv, SetInv
<1>5. \/ call.old = NoIdx /\ \A k \in FileIdx : FM[k].id # call.fid
      \/ call.old \in FileIdx /\ FM[call.old].id = call.fid
  BY <1>1 DEF FsInv, SetInv
<1>6. PICK f \in Fid, old \in FileIdx \cup {NoIdx}, n \in Nat :
        f = call.fid /\ old = call.old /\ n = Len(call.data)
  BY <1>4, ContentsType DEF SetCall
<1>7. PICK u \in BOOLEAN : u = (old # NoIdx)
  OBVIOUS
<1>8. PICK i : i = FreeIdx(u)
  OBVIOUS
<1>9. /\ ~Unreadable(i)
      /\ i # NoIdx => /\ i \in FileIdx /\ FM[i].id = NoFid
                      /\ ~u => \E k \in FileIdx : k # i /\ FM[k].id = NoFid
      /\ u /\ (\E k \in FileIdx : FM[k].id = NoFid) => i # NoIdx
  <2>1. \A k \in FileIdx : ValidFile(File(k))
    BY <1>3
  <2>2. /\ ~Unreadable(i)
        /\ i # NoIdx => /\ i \in FileIdx /\ File(i).id = NoFid
                        /\ ~u => \E k \in FileIdx : k # i /\ File(k).id = NoFid
        /\ u /\ (\E k \in FileIdx : File(k).id = NoFid) => i # NoIdx
    BY <2>1, <1>8, FreeFinds
  <2> QED
    BY <2>2, <1>3
<1>10. PICK fits : fits = {l \in LBlock : BlockMeta(l).free >= n}
  OBVIOUS
<1>11. /\ (n > MaxFileSize \/ fits = {} \/ i = NoIdx) => Fail("failed")
       /\ ~(n > MaxFileSize \/ fits = {} \/ i = NoIdx) =>
             /\ call' = Working(call, i,
                               [id |-> call.fid, lblock |-> Min(fits),
                                idx |-> Used(Min(fits), BlockMeta(Min(fits))), cur |-> 0, max |-> n,
                                flags |-> FlagsOf(call)],
                               [BlockMeta(Min(fits)) EXCEPT !.free = @ - n])
             /\ pc' = "data"
  BY <1>6, <1>7, <1>8, <1>9, <1>10 DEF Reserve
<1>12. CASE n > MaxFileSize \/ fits = {} \/ i = NoIdx
  <2>1. pc' = "ready" /\ call' = NoCall
    BY <1>11, <1>12 DEF Fail
  <2>2. old = NoIdx
    <3> SUFFICES ASSUME old # NoIdx PROVE FALSE
      OBVIOUS
    <3>1. n <= MaxFileSize /\ fits # {}
      BY <1>1, <1>6, <1>10 DEF ReplaceHasRoom
    <3>2. \E k \in FileIdx : FM[k].id = NoFid
      BY <1>2, <1>3 DEF Spared, NoneMarked, Live
    <3>3. i # NoIdx
      BY <3>2, <1>7, <1>9
    <3>4. MaxFileSize \in Nat
      BY ConfigAssumption
    <3> QED
      BY <3>1, <3>3, <3>4, <1>12
  <2>3. ScratchClean
    BY <2>2, <1>1, <1>6 DEF FsInv, ScratchInv, Fresh, ScratchClean
  <2> QED
    BY <2>1, <2>3, <1>1, <1>2, ReadyStep
<1>13. CASE ~(n > MaxFileSize \/ fits = {} \/ i = NoIdx)
  <2>1. PICK l \in LBlock : l = Min(fits) /\ BlockMeta(l).free >= n
    <3>1. fits \subseteq Nat /\ fits # {}
      BY <1>10, <1>13, Blocks
    <3>2. Min(fits) \in fits
      BY <3>1, MinNat
    <3> QED
      BY <3>2, <1>10
  <2>2. i \in FileIdx /\ FM[i].id = NoFid
              /\ (old = NoIdx => \E k \in FileIdx : k # i /\ FM[k].id = NoFid)
    BY <1>7, <1>9, <1>13
  <2>3. BM[l] \in [phy : Block, free : 0 .. BlockSize] /\ BlockMeta(l) = BM[l]
    BY <1>3 DEF GoodBlocks
  <2>4. PICK p \in Block, r \in 0 .. BlockSize : BM[l] = [phy |-> p, free |-> r]
    BY <2>3
  <2>5. BM[l].free = r /\ BM[l].phy = p
    BY ONLY <2>4
  <2>6. [BlockMeta(l) EXCEPT !.free = @ - n] = [phy |-> BM[l].phy, free |-> r - n]
    BY ONLY <2>3, <2>4, <2>5
  <2>7. Used(l, BlockMeta(l)) = BlockSize - r
    BY <2>3, <2>5 DEF Used
  <2>8. call' = [op |-> "set", fid |-> call.fid, data |-> call.data, once |-> call.once,
                 old |-> old, new |-> i,
                 meta |-> [id |-> call.fid, lblock |-> l, idx |-> BlockSize - r, cur |-> 0,
                           max |-> Len(call.data), flags |-> FlagsOf(call)],
                 bm |-> [phy |-> BM[l].phy, free |-> r - n]]
    <3>1. call.op = "set"
      BY <1>4 DEF SetCall
    <3> QED
      BY <3>1, <2>1, <2>6, <2>7, <1>6, <1>11, <1>13 DEF Working
  <2>9. i # old
    BY <2>2, <1>5, <1>6, EmptyFileType, Blocks
  <2>10. n <= MaxFileSize /\ n <= r
    BY <2>1, <2>3, <2>5, <1>13, ConfigAssumption
  <2>11. Place(BM, FM, call.fid, Len(call.data), i, old, l, BlockSize - r, r - n)
    BY <2>2, <2>5, <2>9, <2>10, <1>5, <1>6 DEF Place
  <2>12. NFM = [k \in FileIdx |-> IF k = old /\ k # i THEN MarkFile(FM[k]) ELSE BlankFile]
    <3>1. NFM = [k \in FileIdx |-> IF k = old THEN MarkFile(FM[k]) ELSE BlankFile]
      BY <1>1, <1>6 DEF FsInv, ScratchInv
    <3> QED
      BY <3>1, <2>9
  <2>13. pc \in {"set", "reserve"} /\ pc' = "data"
    BY <1>1, <1>11, <1>13
  <2> QED
    BY <2>2, <2>8, <2>11, <2>12, <2>13, <1>1, <1>4, PlacedStep
<1> QED
  BY <1>12, <1>13

(* The placed call: its fields, and the step from the active tables to the *)
(* ones that it writes.                                                    *)
CallPlaces(f, d, o, i, old, l, x, fr) ==
    /\ f = call.fid /\ d = call.data /\ o = call.once /\ i = call.new /\ old = call.old
    /\ l = call.meta.lblock /\ x = call.meta.idx /\ fr = call.bm.free
    /\ f \in Fid /\ d \in Contents /\ o \in BOOLEAN /\ i \in FileIdx
    /\ old \in FileIdx \cup {NoIdx} /\ l \in LBlock
    /\ Len(d) \in 1 .. MaxFileSize /\ x \in 0 .. BlockSize /\ fr \in 0 .. BlockSize
    /\ Start(l) <= x /\ x + Len(d) + fr <= BlockSize
    /\ SetStep(Active, BM, FM, cell, mblk[Active].hdr.scratch, f, d, o, i, old, l, x, fr,
               NewBlocks(BM, Active, mblk[Active].hdr.scratch, l, fr),
               AfterSet(FM, i, old, PlacedFile(f, l, x, d, o)))

(* What is known of a set that has found its place. *)
LEMMA PlacedState ==
    ASSUME FsInv, pc \in {"data", "meta"}, 0 \notin Sizes
    PROVE  /\ CallPlaces(call.fid, call.data, call.once, call.new, call.old, call.meta.lblock,
                         call.meta.idx, call.bm.free)
           /\ call \in PlacedCall /\ call.op = "set"
           /\ Running /\ NoneMarked(FM)
<1>1. Running /\ NoneMarked(FM) /\ call \in PlacedCall /\ call.op = "set"
  BY DEF FsInv, CommitInv, CallInv, Running
<1>2. PICK f, d, o, i, old, l, x, fr :
        /\ f = call.fid /\ d = call.data /\ o = call.once /\ i = call.new /\ old = call.old
        /\ l = call.meta.lblock /\ x = call.meta.idx /\ fr = call.bm.free
  OBVIOUS
<1>3. /\ f \in Fid /\ d \in Contents /\ o \in BOOLEAN /\ i \in FileIdx
      /\ old \in FileIdx \cup {NoIdx} /\ l \in LBlock
  BY <1>1, <1>2 DEF PlacedCall
<1>4. Place(BM, FM, f, Len(d), i, old, l, x, fr)
  BY <1>2 DEF FsInv, SetInv
<1>5. PICK bm, fm, c, a, sp :
        bm = BM /\ fm = FM /\ c = cell /\ a = Active /\ sp = mblk[Active].hdr.scratch
  OBVIOUS
<1>6. SetStep(a, bm, fm, c, sp, f, d, o, i, old, l, x, fr, NewBlocks(bm, a, sp, l, fr),
              AfterSet(fm, i, old, PlacedFile(f, l, x, d, o)))
  BY <1>1, <1>3, <1>4, <1>5, RunningState DEF SetStep
<1>7. /\ Len(d) \in 1 .. MaxFileSize /\ x \in 0 .. BlockSize /\ fr \in 0 .. BlockSize
      /\ Start(l) <= x /\ x + Len(d) + fr <= BlockSize
  BY <1>6, PlaceType
<1>8. CallPlaces(f, d, o, i, old, l, x, fr)
  BY <1>2, <1>3, <1>5, <1>6, <1>7 DEF CallPlaces
<1> QED
  BY <1>1, <1>2, <1>8

(* The block that a set rewrites, with the new contents in it *)
Rewrite(from, x, d) ==
    [j \in Pos |-> IF j \in x .. x + Len(d) - 1 THEN d[j - x + 1] ELSE from[j]]

(* The cells that a rewrite programs are data. *)
LEMMA RewriteType ==
    ASSUME NEW from \in [Pos -> Cell], NEW d \in Contents, 0 \notin Sizes, NEW x \in Nat,
           Len(d) <= BlockSize
    PROVE  \A j \in Pos : Rewrite(from, x, d)[j] \in Cell
<1> SUFFICES ASSUME NEW j \in Pos PROVE Rewrite(from, x, d)[j] \in Cell
  OBVIOUS
<1>1. PICK n \in Nat : n = Len(d) /\ \A k \in 1 .. n : d[k] \in Value \X {k}
  BY ContentsType
<1>2. CASE j \in x .. x + n - 1
  <2>1. PICK k \in 1 .. n : k = j - x + 1
    BY <1>2 DEF Pos
  <2>2. d[k] \in Value \X {k} /\ k \in 1 .. BlockSize
    BY <2>1, <1>1, ConfigAssumption
  <2>3. d[k] \in Cell
    BY <2>2 DEF Cell
  <2> QED
    BY <2>1, <2>3, <1>1, <1>2 DEF Rewrite
<1>3. CASE j \notin x .. x + n - 1
  BY <1>3, <1>1 DEF Rewrite
<1> QED
  BY <1>2, <1>3

(* A set writes its block, with the new contents, to the scratch block. *)
LEMMA WriteDataStep ==
    ASSUME FsInv, WriteData, 0 \notin Sizes
    PROVE  Keeps
<1>1. pc = "data" /\ pc' = "meta" /\ mblk' = mblk
  BY DEF WriteData
<1>2. Running /\ NoneMarked(FM) /\ call \in PlacedCall /\ call.op = "set"
  BY <1>1, PlacedState
<1>3. PICK f, d, o, i, old, l, x, fr : CallPlaces(f, d, o, i, old, l, x, fr)
  BY <1>1, PlacedState
<1>4. /\ f = call.fid /\ d = call.data /\ o = call.once /\ i = call.new /\ old = call.old
      /\ l = call.meta.lblock /\ x = call.meta.idx /\ fr = call.bm.free
      /\ f \in Fid /\ d \in Contents /\ o \in BOOLEAN /\ i \in FileIdx
      /\ old \in FileIdx \cup {NoIdx} /\ l \in LBlock
      /\ Len(d) \in 1 .. MaxFileSize /\ x \in 0 .. BlockSize /\ fr \in 0 .. BlockSize
      /\ Start(l) <= x /\ x + Len(d) + fr <= BlockSize
  BY <1>3 DEF CallPlaces
<1>5. PICK a, s, sp :
        /\ a \in MetaBlock /\ s \in MetaBlock /\ a = Active /\ s = Scratch /\ a # s
        /\ s = Other(a) /\ sp = mblk[Active].hdr.scratch
  BY <1>2, RunningState
<1>6. MetaOK(mblk) /\ CellOK(cell) /\ CtxOK(ctx) /\ Mapped(a, BM, sp) /\ GoodBlocks(BM)
  BY <1>2, <1>5, RunningState DEF Sound
<1>7. PICK p \in Block : p = BM[l].phy /\ p = call.bm.phy
  BY <1>1, <1>4, <1>6 DEF FsInv, SetInv, GoodBlocks
<1>8. PICK n \in 1 .. MaxFileSize : n = Len(d)
  BY <1>4
<1>9. PICK st \in 0 .. BlockSize : st = Start(l)
  BY <1>4, Blocks
<1>10. ctx.scratch = sp /\ ctx.swap = mblk[Active].hdr.swap /\ ctx.version = "supported"
  BY <1>1, <1>2, <1>5 DEF FsInv, RamInv, Written
<1>11. PICK to : to = IF l = 0 THEN s ELSE sp
  OBVIOUS
<1>12. /\ to \in Block /\ to # p /\ cell[to] = Blank /\ (l # 0 => to # s)
       /\ cell[s] = Blank
  <2>1. cell[s] = Blank /\ (NumBlocks > 2 => cell[sp] = Blank)
    BY <1>1, <1>5, <1>10 DEF FsInv, ScratchInv, Fresh
  <2>2. /\ BM[l].phy # s /\ (NumBlocks > 2 => BM[l].phy # sp)
        /\ NumBlocks > 2 => sp # s /\ sp \in Block
    BY <1>4, <1>5, <1>6, SparesUnused
  <2> QED
    BY <2>1, <2>2, <1>4, <1>5, <1>7, <1>11, Blocks
<1>13. PICK new : new = Rewrite(cell[p], x, d)
  OBVIOUS
<1>14. PICK e \in Int : e = BlockSize - fr - st
  BY <1>4, <1>9, ConfigAssumption
<1>15. /\ cell' = ProgramCells(to, st, st, new, e)
       /\ call' = [call EXCEPT !.meta.cur = n, !.bm.phy = to]
       /\ ctx' = [ctx EXCEPT !.scratch = IF l = 0 THEN @ ELSE p]
  <2>1. SpareOf(l) = to
    BY <1>5, <1>10, <1>11 DEF SpareOf
  <2>2. Len(call.data) # 0
    BY <1>4, <1>8
  <2>3. Used(call.meta.lblock, call.bm) - Start(call.meta.lblock) = e
    BY <1>4, <1>9, <1>14 DEF Used
  <2>4. new = [j \in Pos |-> IF j \in call.meta.idx .. call.meta.idx + Len(call.data) - 1
                               THEN call.data[j - call.meta.idx + 1] ELSE cell[call.bm.phy][j]]
    BY <1>4, <1>7, <1>13 DEF Rewrite
  <2>5. call.meta.lblock = l /\ Start(call.meta.lblock) = st /\ Len(call.data) = n
        /\ call.bm.phy = p
    BY <1>4, <1>7, <1>8, <1>9
  <2> QED
    BY <2>1, <2>2, <2>3, <2>4, <2>5 DEF WriteData
<1>16. /\ \A j \in Pos : j \in st .. st + e - 1 => cell'[to][j] = new[j]
       /\ \A k \in Block : k # to => cell'[k] = cell[k]
  BY <1>6, <1>9, <1>12, <1>15, ProgramBlank DEF CellOK
<1>17. CellOK(cell')
  <2>1. cell[p] \in [Pos -> Cell] /\ Len(d) <= BlockSize /\ x \in Nat
    BY <1>4, <1>6, <1>8, ConfigAssumption DEF CellOK
  <2>2. \A j \in Pos : new[j] \in Cell
    BY <2>1, <1>4, <1>13, RewriteType
  <2> QED
    BY <2>2, <1>6, <1>9, <1>12, <1>15, ProgramType
<1>18. CtxOK(ctx') /\ ctx'.active = ctx.active /\ ctx'.swap = ctx.swap
       /\ ctx'.version = ctx.version
       /\ ctx'.scratch = IF l = 0 THEN ctx.scratch ELSE p
  BY <1>6, <1>15 DEF CtxOK
<1>19. /\ Active' = Active /\ Scratch' = Scratch /\ FM' = FM /\ BM' = BM /\ NFM' = NFM
  BY <1>1, <1>18 DEF Active, Scratch, FM, BM, NFM
<1>20. Loads(mblk', cell', Active) /\ Served(mblk', cell') = Served(mblk, cell)
  <2>1. \A b \in Block : b # Scratch /\ (NumBlocks > 2 => b # mblk[Active].hdr.scratch) =>
                         cell'[b] = cell[b]
    BY <1>4, <1>5, <1>11, <1>16, Blocks
  <2> QED
    BY <2>1, <1>1, <1>2, <1>6, RunKept
<1>21. /\ call' \in PlacedCall /\ call'.op = "set" /\ call'.fid = f /\ call'.data = d
       /\ call'.once = o
       /\ call'.old = old /\ call'.new = i
       /\ call'.meta.id = call.meta.id /\ call'.meta.lblock = l /\ call'.meta.idx = x
       /\ call'.meta.cur = n /\ call'.meta.max = call.meta.max
       /\ call'.meta.flags = call.meta.flags
       /\ call'.bm.phy = to /\ call'.bm.free = fr
  <2>1. PICK m, b : m = call.meta /\ b = call.bm
    OBVIOUS
  <2>2. PICK m2, b2 : m2 = [m EXCEPT !.cur = n] /\ b2 = [b EXCEPT !.phy = to]
    OBVIOUS
  <2>3. n \in 0 .. MaxFileSize
    BY <1>8
  <2>4. /\ m2 \in [id : Fid, lblock : LBlock, idx : 0 .. BlockSize, cur : 0 .. MaxFileSize,
                   max : 1 .. MaxFileSize, flags : SUBSET {"WRITE_ONCE"}]
        /\ m2.id = m.id /\ m2.lblock = m.lblock /\ m2.idx = m.idx /\ m2.cur = n
        /\ m2.max = m.max /\ m2.flags = m.flags
    BY <2>1, <2>2, <2>3, <1>2 DEF PlacedCall
  <2>5. b2 \in [phy : Block, free : 0 .. BlockSize] /\ b2.phy = to /\ b2.free = b.free
    BY <2>1, <2>2, <1>2, <1>12 DEF PlacedCall
  <2>6. call' = [[call EXCEPT !.meta = m2] EXCEPT !.bm = b2]
    BY <1>15, <1>2, <2>1, <2>2 DEF PlacedCall
  <2>7. PICK c1 : c1 = [call EXCEPT !.meta = m2]
    OBVIOUS
  <2>8. /\ c1 \in PlacedCall /\ c1.op = call.op /\ c1.fid = call.fid /\ c1.data = call.data
        /\ c1.once = call.once /\ c1.old = call.old /\ c1.new = call.new /\ c1.meta = m2
    BY <2>4, <2>7, <1>2 DEF PlacedCall
  <2>9. /\ call' \in PlacedCall /\ call'.op = c1.op /\ call'.fid = c1.fid /\ call'.data = c1.data
        /\ call'.once = c1.once /\ call'.old = c1.old /\ call'.new = c1.new
        /\ call'.meta = c1.meta
        /\ call'.bm = b2
    BY <2>5, <2>6, <2>7, <2>8 DEF PlacedCall
  <2> QED
    BY <2>1, <2>4, <2>5, <2>8, <2>9, <1>2, <1>4
<1>22. TypeOK'
  BY <1>1, <1>6, <1>17, <1>18, <1>21, TypePartsNext
<1>23. CallInv'
  BY <1>1, <1>21 DEF CallInv, Running
<1>24. RamInv'
  BY <1>1, <1>10, <1>18, <1>19, <1>20 DEF RamInv, Running, Written
<1>25. ScratchInv'
  <2>1. mblk'[Scratch'].hdr = BlankHeader
    BY <1>1, <1>2, <1>19 DEF FsInv, ScratchInv
  <2>2. NFM' = [k \in FileIdx |-> IF k = call'.old /\ k # call'.new THEN MarkFile(FM'[k])
                                  ELSE BlankFile]
    BY <1>1, <1>4, <1>19, <1>21 DEF FsInv, ScratchInv
  <2> QED
    BY <2>1, <2>2, <1>1 DEF ScratchInv, Fresh
<1>26. SetInv'
  <2>1. Rewritable(call.fid)' /\ FlagsOf(call)' = FlagsOf(call)
    BY <1>1, <1>4, <1>19, <1>21 DEF Rewritable, FlagsOf, FsInv, SetInv
  <2>2. /\ Place(BM, FM, call.fid, Len(call.data), call.new, call.old, call.meta.lblock,
                 call.meta.idx, call.bm.free)
        /\ call.meta.id = call.fid /\ call.meta.max = Len(call.data)
        /\ call.meta.flags = FlagsOf(call)
    BY <1>1 DEF FsInv, SetInv
  <2>3. /\ Place(BM', FM', call'.fid, Len(call'.data), call'.new, call'.old, call'.meta.lblock,
                 call'.meta.idx, call'.bm.free)
        /\ call'.meta.id = call'.fid /\ call'.meta.max = Len(call'.data)
        /\ call'.meta.cur = Len(call'.data) /\ call'.meta.flags = FlagsOf(call)'
    BY <2>1, <2>2, <1>4, <1>8, <1>19, <1>21
  <2>4. Rewritten(cell', p, to, l, BlockSize - fr, x, d)
    <3> SUFFICES ASSUME NEW j \in st .. BlockSize - fr - 1
                 PROVE  cell'[to][j] = IF j \in x .. x + Len(d) - 1 THEN d[j - x + 1]
                                       ELSE cell'[p][j]
      BY <1>9 DEF Rewritten
    <3>1. j \in Pos /\ j \in st .. st + e - 1
      <4>1. PICK r \in Nat, z \in Nat : r = fr /\ z = BlockSize
        BY <1>4, ConfigAssumption
      <4>2. e = z - r - st /\ j \in st .. z - r - 1 /\ st \in 0 .. z
        BY <4>1, <1>14
      <4>3. j \in 0 .. z - 1 /\ j \in st .. st + e - 1
        BY ONLY <4>1, <4>2
      <4> QED
        BY <4>1, <4>3 DEF Pos
    <3>2. cell'[to][j] = new[j] /\ cell'[p] = cell[p]
      BY <3>1, <1>7, <1>12, <1>16
    <3> QED
      BY <3>1, <3>2, <1>13 DEF Rewrite
  <2>5. mblk'[Active'].hdr.scratch = sp
    BY <1>1, <1>5, <1>19
  <2>6. ctx'.scratch = NewSpare(BM', sp, l)
    BY <1>7, <1>10, <1>18, <1>19 DEF NewSpare
  <2>7. l # 0 => cell'[Scratch'] = Blank
    BY <1>5, <1>12, <1>16, <1>19, Blocks
  <2> QED
    BY <2>1, <2>3, <2>4, <2>5, <2>6, <2>7, <1>1, <1>5, <1>7, <1>11, <1>19, <1>21 DEF SetInv
<1>27. DeleteInv' /\ CommitInv'
  BY <1>1, <1>2, <1>19 DEF DeleteInv, CommitInv
<1> QED
  BY <1>20, <1>22, <1>23, <1>24, <1>25, <1>26, <1>27 DEF Keeps, FsInv

(* The new metadata is complete but for its header. *)
LEMMA HeaderReached ==
    ASSUME FsInv, Running, pc # "erase_meta", pc' = "header", call' = call,
           call \in PlacedCall \cup RemoveCall \cup CleanupCall,
           MetaOK(mblk'), CellOK(cell'), CtxOK(ctx'),
           mblk'[Active] = mblk[Active], mblk'[Scratch].hdr = mblk[Scratch].hdr,
           ctx'.active = ctx.active, ctx'.swap = ctx.swap, ctx'.version = ctx.version,
           \A b \in Block : b # Scratch /\ (NumBlocks > 2 => b # mblk[Active].hdr.scratch) =>
                            cell'[b] = cell[b],
           NEW bm, NEW fm, bm = mblk'[Scratch].bmeta, fm = mblk'[Scratch].fmeta,
           Sound(Scratch, bm, fm, cell', ctx'.scratch),
           Commits(Assets(BM, FM, cell'), Assets(bm, fm, cell'), fm)
    PROVE  Keeps
<1>1. Loads(mblk', cell', Active) /\ Served(mblk', cell') = Served(mblk, cell)
  BY RunKept
<1>2. /\ Active' = Active /\ Scratch' = Scratch /\ FM' = FM /\ BM' = BM /\ NFM' = fm /\ NBM' = bm
  BY DEF Active, Scratch, FM, BM, NFM, NBM
<1>3. mblk[Scratch].hdr = BlankHeader /\ ctx.swap = mblk[Active].hdr.swap
      /\ ctx.version = "supported"
  BY DEF FsInv, ScratchInv, RamInv
<1>4. call.op \in {"set", "set_cleanup", "remove", "cleanup"}
  BY DEF PlacedCall, RemoveCall, CleanupCall
<1>5. TypeOK'
  BY <1>4, TypePartsNext
<1>6. CallInv'
  BY DEF CallInv, Running
<1>7. RamInv'
  BY <1>1, <1>2, <1>3 DEF RamInv, Running, Written
<1>8. ScratchInv'
  BY <1>2, <1>3 DEF ScratchInv, Fresh
<1>9. SetInv' /\ DeleteInv'
  BY DEF SetInv, DeleteInv
<1>10. Commits(Assets(BM, FM, cell), Assets(NBM, NFM, cell), NFM)'
  <2>1. PICK before, after : before = Assets(BM, FM, cell') /\ after = Assets(bm, fm, cell')
    OBVIOUS
  <2>2. Commits(before, after, fm)
    BY <2>1
  <2>3. Assets(BM, FM, cell)' = before /\ Assets(NBM, NFM, cell)' = after
    BY <1>2, <2>1
  <2> HIDE <2>1
  <2>4. Replaced(fm) => Replaced(NFM)'
    BY <1>2 DEF Replaced
  <2> QED
    BY <2>2, <2>3, <2>4, <1>2 DEF Commits
<1>11. Sound(Scratch, NBM, NFM, cell, ctx.scratch)'
  BY <1>2
<1>12. CommitInv'
  BY <1>10, <1>11 DEF CommitInv
<1> QED
  BY <1>1, <1>5, <1>6, <1>7, <1>8, <1>9, <1>12 DEF Keeps, FsInv

(* Logical block 0 is copied into the erased scratch metadata block. *)
LEMMA Migrated ==
    ASSUME FsInv, Running, cell[Scratch] = Blank
    PROVE  /\ CellOK(MigrateLb0)
           /\ \A b \in Block : b # Scratch => MigrateLb0[b] = cell[b]
           /\ \A j \in DataStart .. BlockSize - BM[0].free - 1 :
                MigrateLb0[Scratch][j] = cell[Active][j]
<1>1. PICK s \in Block, a \in Block : s = Scratch /\ a = Active
  BY RunningState, Blocks
<1>2. CellOK(cell) /\ BlockMeta(0) = BM[0] /\ GoodBlocks(BM)
  BY RunningState, Blocks DEF Sound
<1>3. PICK r \in 0 .. BlockSize : r = BM[0].free
  BY <1>2, Blocks DEF GoodBlocks
<1>4. PICK e \in Int : e = BlockSize - r - DataStart
  BY ConfigAssumption
<1>5. PICK src : src = cell[a]
  OBVIOUS
<1>6. MigrateLb0 = ProgramCells(s, DataStart, DataStart, src, e)
  BY <1>1, <1>2, <1>3, <1>4, <1>5 DEF MigrateLb0, Used
<1>7. DataStart \in Nat
  BY ConfigAssumption
<1>8. /\ \A j \in Pos : j \in DataStart .. DataStart + e - 1 => MigrateLb0[s][j] = src[j]
      /\ \A k \in Block : k # s => MigrateLb0[k] = cell[k]
  BY <1>1, <1>2, <1>6, <1>7, ProgramBlank DEF CellOK
<1>9. \A j \in Pos : src[j] \in Cell
  BY <1>2, <1>5 DEF CellOK
<1>10. CellOK(MigrateLb0)
  BY <1>2, <1>6, <1>7, <1>9, ProgramType
<1>11. ASSUME NEW j \in DataStart .. BlockSize - BM[0].free - 1
       PROVE  j \in Pos /\ j \in DataStart .. DataStart + e - 1
  BY <1>3, <1>4, ConfigAssumption DEF Pos
<1> QED
  BY <1>1, <1>5, <1>8, <1>10, <1>11

(* The block table that an update writes *)
LEMMA NewBlockTable ==
    ASSUME FsInv, Running, NEW l \in LBlock, NEW to, NEW fr,
           to = IF l = 0 THEN Scratch ELSE mblk[Active].hdr.scratch
    PROVE  ScratchBlockMeta(l, [phy |-> to, free |-> fr])
             = NewBlocks(BM, Active, mblk[Active].hdr.scratch, l, fr)
<1>1. PICK s, sp : s = Scratch /\ sp = mblk[Active].hdr.scratch
  OBVIOUS
<1>2. Scratch = Other(Active) /\ GoodBlocks(BM) /\ \A k \in LBlock : BlockMeta(k) = BM[k]
  BY RunningState DEF Sound
<1>3. ASSUME NEW k \in LBlock
      PROVE  (LET e == IF k = l THEN [phy |-> to, free |-> fr] ELSE BlockMeta(k)
              IN  IF k = 0 THEN [e EXCEPT !.phy = Scratch] ELSE e)
               = [phy |-> IF k = 0 THEN Other(Active) ELSE IF k = l THEN sp ELSE BM[k].phy,
                  free |-> IF k = l THEN fr ELSE BM[k].free]
  <2>1. BM[k] = [phy |-> BM[k].phy, free |-> BM[k].free]
    BY <1>2 DEF GoodBlocks
  <2>2. PICK e : e = IF k = l THEN [phy |-> to, free |-> fr] ELSE BM[k]
    OBVIOUS
  <2>3. PICK p, r : e = [phy |-> p, free |-> r] /\ p = (IF k = l THEN to ELSE BM[k].phy)
                    /\ r = (IF k = l THEN fr ELSE BM[k].free)
    BY <2>1, <2>2
  <2>4. [e EXCEPT !.phy = s] = [phy |-> s, free |-> r]
    BY ONLY <2>3
  <2>5. CASE k = 0
    BY <2>2, <2>3, <2>4, <2>5, <1>1, <1>2
  <2>6. CASE k # 0
    BY <2>2, <2>3, <2>6, <1>1, <1>2
  <2> QED
    BY <2>5, <2>6
<1> QED
  BY <1>1, <1>3 DEF ScratchBlockMeta, NewBlocks

(* The tables of a metadata block are replaced. *)
NewTables(m, s, bm, fm) == [m EXCEPT ![s] = [m[s] EXCEPT !.bmeta = bm, !.fmeta = fm]]

(* Writing both tables of a metadata block. *)
LEMMA TablesWritten ==
    ASSUME MetaOK(mblk), NEW a \in MetaBlock, NEW s \in MetaBlock, a # s,
           NEW bm \in [LBlock -> BlockMetaType], NEW fm \in [FileIdx -> FileMeta],
           mblk' = NewTables(mblk, s, bm, fm)
    PROVE  /\ MetaOK(mblk') /\ mblk'[a] = mblk[a] /\ mblk'[s].hdr = mblk[s].hdr
           /\ mblk'[s].bmeta = bm /\ mblk'[s].fmeta = fm
<1>1. PICK m \in MetaType : m = mblk[s]
  BY DEF MetaOK
<1>2. PICK m1 : m1 = [m EXCEPT !.bmeta = bm]
  OBVIOUS
<1>3. m1 \in MetaType /\ m1.hdr = m.hdr /\ m1.bmeta = bm
  BY <1>2 DEF MetaType
<1>4. PICK m2 : m2 = [m1 EXCEPT !.fmeta = fm]
  OBVIOUS
<1>5. m2 \in MetaType /\ m2.hdr = m.hdr /\ m2.bmeta = bm /\ m2.fmeta = fm
  BY <1>3, <1>4 DEF MetaType
<1>6. mblk' = [mblk EXCEPT ![s] = m2]
  BY <1>1, <1>2, <1>4 DEF NewTables
<1>7. MetaOK(mblk')
  BY <1>5, <1>6 DEF MetaOK
<1>8. mblk'[a] = mblk[a] /\ mblk'[s] = m2
  BY <1>6 DEF MetaOK
<1> QED
  BY <1>1, <1>5, <1>7, <1>8

(* A file that may be rewritten is not a write-once asset. *)
LEMMA RewritableAsset ==
    ASSUME NEW bm, NEW fm, NEW c, NEW f \in Fid, GoodFiles(fm), OneEach(fm),
           \A i \in FileIdx : fm[i].id = f => "WRITE_ONCE" \notin fm[i].flags,
           Assets(bm, fm, c)[f] # None
    PROVE  ~Assets(bm, fm, c)[f].once
<1>1. PICK i \in FileIdx : fm[i].id = f /\ ~Marked(fm[i])
  BY AssetOf
<1>2. Assets(bm, fm, c)[f] = [data |-> Read(bm, fm[i], c), once |-> "WRITE_ONCE" \in fm[i].flags]
  BY <1>1, AssetOf
<1>3. "WRITE_ONCE" \notin fm[i].flags
  BY <1>1
<1>4. PICK d, r : d = Read(bm, fm[i], c) /\ r = Assets(bm, fm, c)[f]
  OBVIOUS
<1>5. r = [data |-> d, once |-> "WRITE_ONCE" \in fm[i].flags]
  BY <1>2, <1>4
<1>6. r.once = ("WRITE_ONCE" \in fm[i].flags)
  BY ONLY <1>5
<1> QED
  BY <1>3, <1>4, <1>6

(* A set writes the scratch tables: they are sound and hold the new asset. *)
LEMMA WriteMetaStep ==
    ASSUME FsInv, WriteMeta, 0 \notin Sizes
    PROVE  Keeps
<1>1. pc = "meta" /\ pc' = "header" /\ UNCHANGED <<ctx, call>>
  BY DEF WriteMeta
<1>2. Running /\ NoneMarked(FM) /\ call \in PlacedCall /\ call.op = "set"
  BY <1>1, PlacedState
<1>3. PICK f, d, o, i, old, l, x, fr : CallPlaces(f, d, o, i, old, l, x, fr)
  BY <1>1, PlacedState
<1>4. /\ f = call.fid /\ d = call.data /\ o = call.once /\ i = call.new /\ old = call.old
      /\ l = call.meta.lblock /\ x = call.meta.idx /\ fr = call.bm.free
      /\ f \in Fid /\ d \in Contents /\ o \in BOOLEAN /\ i \in FileIdx
      /\ old \in FileIdx \cup {NoIdx} /\ l \in LBlock
      /\ Len(d) \in 1 .. MaxFileSize /\ x \in 0 .. BlockSize /\ fr \in 0 .. BlockSize
      /\ Start(l) <= x /\ x + Len(d) + fr <= BlockSize
  BY <1>3 DEF CallPlaces
<1>5. PICK a, s, sp :
        /\ a \in MetaBlock /\ s \in MetaBlock /\ a = Active /\ s = Scratch /\ a # s
        /\ s = Other(a) /\ sp = mblk[Active].hdr.scratch
  BY <1>2, RunningState
<1>6. /\ MetaOK(mblk) /\ CellOK(cell) /\ CtxOK(ctx) /\ Mapped(a, BM, sp) /\ GoodBlocks(BM)
      /\ GoodFiles(FM) /\ OneEach(FM) /\ Sound(a, BM, FM, cell, sp)
      /\ \A k \in FileIdx : File(k) = FM[k]
  BY <1>2, <1>5, RunningState DEF Sound
<1>7. /\ call.bm.phy = (IF l = 0 THEN s ELSE sp) /\ ctx.scratch = NewSpare(BM, sp, l)
      /\ Rewritten(cell, BM[l].phy, call.bm.phy, l, BlockSize - fr, x, d)
      /\ l # 0 => cell[s] = Blank
  BY <1>1, <1>4, <1>5 DEF FsInv, SetInv
<1>8. /\ call.meta.id = f /\ call.meta.max = Len(d) /\ call.meta.cur = Len(d)
      /\ call.meta.flags = IF o THEN {"WRITE_ONCE"} ELSE {}
      /\ Rewritable(f) /\ Place(BM, FM, f, Len(d), i, old, l, x, fr)
  BY <1>1, <1>4 DEF FsInv, SetInv, FlagsOf
<1>9. PICK mf : mf = PlacedFile(f, l, x, d, o)
  OBVIOUS
<1>10. call.meta = mf
  <2>1. PICK m : m = call.meta
    OBVIOUS
  <2>2. m \in [id : Fid, lblock : LBlock, idx : 0 .. BlockSize, cur : 0 .. MaxFileSize,
               max : 1 .. MaxFileSize, flags : SUBSET {"WRITE_ONCE"}]
    BY <2>1, <1>2 DEF PlacedCall
  <2>3. PICK g, n : g = (IF o THEN {"WRITE_ONCE"} ELSE {}) /\ n = Len(d)
    OBVIOUS
  <2>4. m.id = f /\ m.lblock = l /\ m.idx = x /\ m.cur = n /\ m.max = n /\ m.flags = g
    BY <2>1, <2>3, <1>4, <1>8
  <2>5. m = [id |-> f, lblock |-> l, idx |-> x, cur |-> n, max |-> n, flags |-> g]
    BY ONLY <2>2, <2>4
  <2> QED
    BY <2>1, <2>3, <2>5, <1>9 DEF PlacedFile
<1>11. PICK fm : fm = AfterSet(FM, i, old, mf)
  OBVIOUS
<1>12. PICK bm : bm = NewBlocks(BM, a, sp, l, fr)
  OBVIOUS
<1>13. [k \in FileIdx |->
              IF k = call.new THEN ProgramFile(mblk[Scratch].fmeta[k], call.meta)
              ELSE IF k = call.old THEN mblk[Scratch].fmeta[k]
              ELSE ProgramFile(mblk[Scratch].fmeta[k], File(k))] = fm
  <2>1. \A k \in FileIdx : NFM[k] = IF k = old /\ k # i THEN MarkFile(FM[k]) ELSE BlankFile
    BY <1>1, <1>4 DEF FsInv, ScratchInv
  <2>2. \A m : ProgramFile(BlankFile, m) = m
    BY DEF ProgramFile
  <2>3. ASSUME NEW k \in FileIdx
        PROVE  (IF k = call.new THEN ProgramFile(mblk[Scratch].fmeta[k], call.meta)
                ELSE IF k = call.old THEN mblk[Scratch].fmeta[k]
                ELSE ProgramFile(mblk[Scratch].fmeta[k], File(k)))
                 = IF k = i THEN mf ELSE IF k = old THEN MarkFile(FM[k]) ELSE FM[k]
    BY <2>1, <2>2, <1>4, <1>6, <1>10 DEF NFM
  <2> QED
    BY <2>3, <1>11 DEF AfterSet
<1>14. ScratchBlockMeta(l, call.bm) = bm
  <2>1. PICK b : b = call.bm
    OBVIOUS
  <2>2. b = [phy |-> IF l = 0 THEN Scratch ELSE mblk[Active].hdr.scratch, free |-> fr]
    BY <2>1, <1>2, <1>4, <1>5, <1>7 DEF PlacedCall
  <2> QED
    BY <2>1, <2>2, <1>2, <1>4, <1>5, <1>12, NewBlockTable
<1>15. mblk' = NewTables(mblk, s, bm, fm)
  BY <1>4, <1>5, <1>13, <1>14 DEF WriteMeta, NewTables
<1>16. SetStep(a, BM, FM, cell, sp, f, d, o, i, old, l, x, fr, bm, fm)
  BY <1>3, <1>5, <1>9, <1>11, <1>12 DEF CallPlaces
<1>17. GoodFiles(fm) /\ GoodBlocks(bm)
  <2>1. GoodFiles(fm)
    BY <1>16, SetFiles
  <2>2. Start(l) + fr <= BlockSize
    <3>1. PICK n \in Nat : n = Len(d)
      BY <1>4
    <3>2. PICK st \in Nat, y \in Nat, r \in Nat : st = Start(l) /\ y = x /\ r = fr
      BY <1>4, Blocks
    <3>3. st <= y /\ y + n + r <= BlockSize /\ BlockSize \in Nat
      BY <3>1, <3>2, <1>4, ConfigAssumption
    <3>4. st + r <= BlockSize
      BY <3>3
    <3> QED
      BY <3>2, <3>4
  <2>3. GoodBlocks(bm)
    BY <2>2, <1>4, <1>5, <1>6, <1>12, BlocksMoved
  <2> QED
    BY <2>1, <2>3
<1>18. /\ MetaOK(mblk') /\ mblk'[a] = mblk[a] /\ mblk'[s].hdr = mblk[s].hdr
       /\ mblk'[s].bmeta = bm /\ mblk'[s].fmeta = fm
  <2>1. bm \in [LBlock -> BlockMetaType] /\ fm \in [FileIdx -> FileMeta]
    BY <1>17, TableTypes
  <2> QED
    BY <2>1, <1>5, <1>6, <1>15, TablesWritten
<1>19. /\ CellOK(cell') /\ \A b \in Block : b # s => cell'[b] = cell[b]
       /\ l = 0 => cell' = cell
       /\ l # 0 => \A j \in DataStart .. BlockSize - BM[0].free - 1 : cell'[s][j] = cell[a][j]
  <2>1. CASE l = 0
    <3>1. Len(d) # 0
      BY <1>4
    <3>2. cell' = cell
      BY <2>1, <3>1, <1>4 DEF WriteMeta
    <3> QED
      BY <2>1, <3>2, <1>6
  <2>2. CASE l # 0
    <3>1. cell' = MigrateLb0
      BY <2>2, <1>4 DEF WriteMeta
    <3> QED
      BY <2>2, <3>1, <1>2, <1>5, <1>7, Migrated
  <2> QED
    BY <2>1, <2>2
<1>20. \A b \in Block : b # Scratch /\ (NumBlocks > 2 => b # mblk[Active].hdr.scratch) =>
                        cell'[b] = cell[b]
  BY <1>5, <1>19
<1>21. Sound(a, BM, FM, cell', sp)
  <2>1. Loads(mblk', cell', Active)
    BY <1>2, <1>5, <1>18, <1>20, RunKept
  <2> QED
    BY <2>1, <1>5, <1>18 DEF Loads, BM, FM
<1>22. SetStep(a, BM, FM, cell', sp, f, d, o, i, old, l, x, fr, bm, fm)
  BY <1>16, <1>21 DEF SetStep
<1>23. SetCells(cell', BM, bm, l, x, d)
  <2> SUFFICES ASSUME NEW k \in LBlock, NEW p \in Start(k) .. BlockSize - bm[k].free - 1
               PROVE  cell'[bm[k].phy][p] =
                        IF k = l /\ p \in x .. x + Len(d) - 1 THEN d[p - x + 1]
                        ELSE cell'[BM[k].phy][p]
    BY DEF SetCells
  <2>1. /\ BM[k].phy # s /\ (NumBlocks > 2 => BM[k].phy # sp)
        /\ NumBlocks > 2 => sp # a /\ sp # s /\ sp \in Block
        /\ BM[k].phy \in Block
    BY <1>5, <1>6, SparesUnused DEF GoodBlocks
  <2>2. /\ bm[k].phy = IF k = 0 THEN s ELSE IF k = l THEN sp ELSE BM[k].phy
        /\ bm[k].free = IF k = l THEN fr ELSE BM[k].free
    BY <1>5, <1>12 DEF NewBlocks
  <2>3. cell'[BM[k].phy] = cell[BM[k].phy]
    BY <2>1, <1>19
  <2>4. CASE k = l
    <3>1. p \in Start(l) .. BlockSize - fr - 1
      BY <2>2, <2>4
    <3>2. cell[call.bm.phy][p] = IF p \in x .. x + Len(d) - 1 THEN d[p - x + 1]
                                 ELSE cell[BM[l].phy][p]
      BY <3>1, <1>7 DEF Rewritten
    <3>3. bm[k].phy = call.bm.phy /\ cell'[bm[k].phy] = cell[bm[k].phy]
      BY <2>1, <2>2, <2>4, <1>5, <1>7, <1>19, Blocks
    <3> QED
      BY <2>3, <2>4, <3>2, <3>3
  <2>5. CASE k # l /\ k = 0
    <3>1. p \in DataStart .. BlockSize - BM[0].free - 1
      BY <2>2, <2>5, Blocks
    <3>2. cell'[s][p] = cell[a][p]
      BY <3>1, <2>5, <1>19
    <3>3. bm[k].phy = s /\ BM[k].phy = a
      BY <2>2, <2>5, <1>6 DEF Mapped
    <3> QED
      BY <2>3, <2>5, <3>2, <3>3
  <2>6. CASE k # l /\ k # 0
    BY <2>2, <2>6
  <2> QED
    BY <2>4, <2>5, <2>6
<1>24. PICK before, after : before = Assets(BM, FM, cell') /\ after = Assets(bm, fm, cell')
  OBVIOUS
<1>25. /\ Sound(s, bm, fm, cell', ctx'.scratch)
       /\ after = [before EXCEPT ![f] = [data |-> d, once |-> o]]
       /\ IF old \in {NoIdx, i} THEN NoneMarked(fm)
          ELSE old \in FileIdx /\ fm[old].id # NoFid /\ Marked(fm[old])
  BY <1>1, <1>5, <1>7, <1>22, <1>23, <1>24, SetSound
<1>26. before[f] # None => ~before[f].once
  BY <1>4, <1>6, <1>8, <1>24, RewritableAsset DEF Rewritable
<1>27. Commits(before, after, fm)
  BY <1>2, <1>4, <1>25, <1>26 DEF Commits, Replaced
<1>28. /\ CtxOK(ctx') /\ ctx'.active = ctx.active /\ ctx'.swap = ctx.swap
       /\ ctx'.version = ctx.version
       /\ call' = call /\ pc # "erase_meta"
  BY <1>1, <1>6
<1> QED
  BY <1>1, <1>2, <1>5, <1>18, <1>19, <1>20, <1>24, <1>25, <1>27, <1>28, HeaderReached, ZenonT(40)

(* The commit: with its header the new metadata is what a restart loads.   *)
LEMMA WriteHeaderStep ==
    ASSUME FsInv, WriteHeader
    PROVE  /\ FsInv' /\ call' = call /\ pc = "header" /\ pc' = "erase_meta"
           /\ Commits(Served(mblk, cell), Served(mblk', cell'), FM')
<1>1. pc = "header" /\ pc' = "erase_meta" /\ cell' = cell
  BY DEF WriteHeader
<1>2. Running
  BY <1>1 DEF Running
<1>3. PICK a \in MetaBlock, s \in MetaBlock :
        a = Active /\ s = Scratch /\ a # s /\ s = Other(a) /\ a = Other(s)
  BY <1>2, RunningState, Blocks
<1>4. /\ MetaOK(mblk) /\ CellOK(cell) /\ CtxOK(ctx) /\ Loads(mblk, cell, a)
  BY <1>2, <1>3, RunningState, Zenon
<1>5. ctx.swap = mblk[a].hdr.swap /\ ctx.version = "supported"
  BY <1>2, <1>3, Zenon DEF FsInv, RamInv
<1>6. PICK bm, fm : bm = mblk[s].bmeta /\ fm = mblk[s].fmeta
  OBVIOUS
<1>7. /\ Sound(s, bm, fm, cell, ctx.scratch)
      /\ Commits(Assets(BM, FM, cell), Assets(bm, fm, cell), fm)
  BY <1>1, <1>3, <1>6, Zenon DEF FsInv, CommitInv, NBM, NFM
<1>8. call \in PlacedCall \cup RemoveCall \cup CleanupCall
  BY <1>1 DEF FsInv, CallInv
<1>9. call.op \in {"set", "set_cleanup", "remove", "cleanup"}
  BY <1>8 DEF PlacedCall, RemoveCall, CleanupCall
<1>10. call' = call
  <2>1. call' = [call EXCEPT !.op = call.op]
    BY <1>9 DEF WriteHeader
  <2>2. CASE call \in PlacedCall
    BY <2>1, <2>2 DEF PlacedCall
  <2>3. CASE call \in RemoveCall
    BY <2>1, <2>3 DEF RemoveCall
  <2>4. CASE call \in CleanupCall
    BY <2>1, <2>4 DEF CleanupCall
  <2> QED
    BY <2>2, <2>3, <2>4, <1>8
<1>11. PICK w \in SwapCount : w = NextSwap(ctx.swap) /\ ValidSwapCount(w)
  BY <1>4, NextSwapType DEF CtxOK
<1>12. PICK sc \in Block \cup {NoBlock} : sc = ctx.scratch
  BY <1>4 DEF CtxOK
<1>13. PICK h : h = [version |-> "supported", swap |-> w, scratch |-> sc]
  OBVIOUS
<1>14. /\ h \in [version : {"none", "torn", "legacy", "supported"}, swap : SwapCount,
                 scratch : Block \cup {NoBlock}]
       /\ h.version = "supported" /\ h.swap = w /\ h.scratch = sc
  BY <1>13
<1>15. PICK m \in MetaType : m = mblk[s]
  BY <1>4 DEF MetaOK
<1>16. PICK m2 : m2 = [m EXCEPT !.hdr = h]
  OBVIOUS
<1>17. m2 \in MetaType /\ m2.hdr = h /\ m2.bmeta = m.bmeta /\ m2.fmeta = m.fmeta
  BY <1>14, <1>16 DEF MetaType
<1>18. mblk' = [mblk EXCEPT ![s] = m2]
  BY <1>3, <1>5, <1>11, <1>12, <1>13, <1>15, <1>16, Zenon DEF WriteHeader
<1>19. MetaOK(mblk') /\ mblk'[s] = m2 /\ mblk'[a] = mblk[a]
  BY <1>3, <1>4, <1>17, <1>18, Zenon DEF MetaOK
<1>20. /\ CtxOK(ctx') /\ ctx'.active = s /\ ctx'.swap = w /\ ctx'.version = "supported"
       /\ ctx'.scratch = sc
  <2>1. ctx' = [ctx EXCEPT !.active = s, !.swap = w]
    BY <1>3, <1>11, Zenon DEF WriteHeader
  <2> QED
    BY <2>1, <1>4, <1>5, <1>12, Zenon DEF CtxOK
<1>21. Active' = s /\ Scratch' = a
  BY <1>3, <1>20, Zenon DEF Active, Scratch
<1>22. FM' = fm /\ BM' = bm
  BY <1>6, <1>15, <1>17, <1>19, <1>21 DEF FM, BM
<1>23. Loads(mblk', cell', s)
  <2>1. ValidHeader(h)
    BY <1>11, <1>14 DEF ValidHeader
  <2>2. mblk[a].hdr.version = "supported" /\ NextSwap(mblk[a].hdr.swap) = h.swap
    BY <1>4, <1>5, <1>11, <1>14 DEF Loads
  <2>3. Sound(s, bm, fm, cell', h.scratch)
    BY <1>1, <1>7, <1>12, <1>14
  <2> QED
    BY <2>1, <2>2, <2>3, <1>3, <1>6, <1>14, <1>15, <1>17, <1>19, Zenon DEF Loads
<1>24. Served(mblk', cell') = Assets(bm, fm, cell)
  BY <1>1, <1>6, <1>15, <1>17, <1>19, <1>23, LoadsChosen
<1>25. Served(mblk, cell) = Assets(BM, FM, cell)
  BY <1>3, <1>4, LoadsChosen, Zenon DEF BM, FM
<1>26. Commits(Served(mblk, cell), Served(mblk', cell'), FM')
  BY <1>7, <1>22, <1>24, <1>25
<1>27. TypeOK'
  BY <1>1, <1>4, <1>9, <1>10, <1>19, <1>20, TypePartsNext
<1>28. CallInv'
  BY <1>1, <1>8, <1>10 DEF CallInv, Running
<1>29. RamInv'
  BY <1>1, <1>14, <1>17, <1>19, <1>20, <1>21, <1>23 DEF RamInv, Running, Written
<1>30. ScratchInv' /\ SetInv' /\ DeleteInv'
  BY <1>1 DEF ScratchInv, SetInv, DeleteInv, Fresh
<1>31. Committed(fm)
  BY <1>7 DEF Commits, Committed
<1>32. Committed(FM)'
  BY <1>10, <1>22, <1>31 DEF Committed, Replaced
<1>33. CommitInv'
  BY <1>1, <1>32 DEF CommitInv
<1> QED
  BY <1>1, <1>10, <1>26, <1>27, <1>28, <1>29, <1>30, <1>33 DEF FsInv

(* After a commit the old metadata block is erased. *)
LEMMA EraseMetaStep ==
    ASSUME FsInv, EraseMeta
    PROVE  Keeps
<1>1. pc = "erase_meta" /\ pc' = "erase_data" /\ UNCHANGED <<ctx, call>>
  BY DEF EraseMeta
<1>2. Running /\ ~Written
  BY <1>1 DEF Running, Written
<1>3. PICK a \in MetaBlock, s \in MetaBlock : a = Active /\ s = Scratch /\ a # s
  BY <1>2, RunningState
<1>4. MetaOK(mblk) /\ CellOK(cell) /\ CtxOK(ctx) /\ s \in Block
  BY <1>2, <1>3, RunningState, Blocks
<1>5. mblk' = [mblk EXCEPT ![s] = BlankMeta] /\ cell' = [cell EXCEPT ![s] = Blank]
  BY <1>3 DEF EraseMeta
<1>6. MetaOK(mblk') /\ mblk'[s] = BlankMeta /\ mblk'[a] = mblk[a]
  BY <1>3, <1>4, <1>5, BlankMetaType DEF MetaOK
<1>7. CellOK(cell') /\ cell'[s] = Blank /\ \A b \in Block : b # s => cell'[b] = cell[b]
  BY <1>4, <1>5, CellTypes DEF CellOK
<1>8. ~ValidHeader(mblk'[s].hdr) /\ mblk'[s].hdr = BlankHeader
  BY <1>6, BlankMetaType
<1>9. Loads(mblk', cell', Active) /\ Served(mblk', cell') = Served(mblk, cell)
  BY <1>2, <1>3, <1>6, <1>7, <1>8, RunKept
<1>10. Active' = Active /\ Scratch' = Scratch /\ FM' = FM
  BY <1>1, <1>3, <1>6 DEF Active, Scratch, FM
<1>11. call \in PlacedCall \cup RemoveCall \cup CleanupCall \cup {[op |-> "boot"]}
  BY <1>1 DEF FsInv, CallInv
<1>12. call.op \in {"set", "set_cleanup", "remove", "cleanup", "boot"}
  BY <1>11 DEF PlacedCall, RemoveCall, CleanupCall
<1>13. TypeOK'
  BY <1>1, <1>4, <1>6, <1>7, <1>12, TypePartsNext
<1>14. CallInv'
  BY <1>1, <1>11 DEF CallInv, Running
<1>15. RamInv'
  <2>1. /\ ctx.swap = mblk[Active].hdr.swap /\ ctx.version = "supported"
        /\ ctx.scratch = mblk[Active].hdr.scratch
    BY <1>2 DEF FsInv, RamInv
  <2> QED
    BY <2>1, <1>1, <1>3, <1>6, <1>9, <1>10 DEF RamInv, Running
<1>16. ScratchInv'
  BY <1>1, <1>3, <1>6, <1>7, <1>8, <1>10 DEF ScratchInv, Fresh
<1>17. SetInv' /\ DeleteInv'
  BY <1>1 DEF SetInv, DeleteInv
<1>18. Committed(FM)'
  <2>1. Committed(FM)
    BY <1>1 DEF FsInv, CommitInv
  <2> QED
    BY <2>1, <1>1, <1>10 DEF Committed, Replaced
<1>19. CommitInv'
  BY <1>1, <1>18 DEF CommitInv
<1> QED
  BY <1>9, <1>13, <1>14, <1>15, <1>16, <1>17, <1>19 DEF Keeps, FsInv

(* After a commit the old data block is erased, and a replace goes on to   *)
(* delete.                                                                 *)
LEMMA EraseDataStep ==
    ASSUME FsInv, EraseData
    PROVE  Keeps
<1>1. pc = "erase_data" /\ UNCHANGED <<mblk, ctx>>
  BY DEF EraseData
<1>2. Running /\ ~Written
  BY <1>1 DEF Running, Written
<1>3. PICK a, s, sp :
        /\ a \in MetaBlock /\ s \in MetaBlock /\ a = Active /\ s = Scratch /\ a # s
        /\ s = Other(a) /\ sp = mblk[Active].hdr.scratch
  BY <1>2, RunningState
<1>4. MetaOK(mblk) /\ CellOK(cell) /\ CtxOK(ctx) /\ s \in Block /\ Mapped(a, BM, sp)
  BY <1>2, <1>3, RunningState, Blocks DEF Sound
<1>5. /\ ctx.swap = mblk[Active].hdr.swap /\ ctx.version = "supported" /\ ctx.scratch = sp
  BY <1>2, <1>3 DEF FsInv, RamInv
<1>6. mblk[s] = BlankMeta /\ cell[s] = Blank /\ mblk[s].hdr = BlankHeader
  BY <1>1, <1>3, BlankMetaType DEF FsInv, ScratchInv
<1>7. /\ CellOK(cell') /\ cell'[s] = Blank /\ (NumBlocks > 2 => cell'[sp] = Blank)
      /\ \A b \in Block : (NumBlocks > 2 => b # sp) => cell'[b] = cell[b]
  <2>1. cell' = IF NumBlocks > 2 THEN [cell EXCEPT ![sp] = Blank] ELSE cell
    BY <1>5 DEF EraseData
  <2>2. CASE NumBlocks > 2
    <3>1. sp \in Block /\ sp # s
      BY <2>2, <1>3, <1>4, SparesUnused, Blocks
    <3>2. cell' = [cell EXCEPT ![sp] = Blank]
      BY <2>1, <2>2
    <3> QED
      BY <3>1, <3>2, <2>2, <1>4, <1>6, CellTypes DEF CellOK
  <2>3. CASE ~(NumBlocks > 2)
    BY <2>1, <2>3, <1>4, <1>6
  <2> QED
    BY <2>2, <2>3
<1>8. Loads(mblk', cell', Active) /\ Served(mblk', cell') = Served(mblk, cell)
  <2>1. MetaOK(mblk') /\ mblk'[Active] = mblk[Active] /\ mblk'[Scratch].hdr = mblk[Scratch].hdr
    BY <1>1, <1>4
  <2>2. \A b \in Block : b # Scratch /\ (NumBlocks > 2 => b # mblk[Active].hdr.scratch) =>
                         cell'[b] = cell[b]
    BY <1>3, <1>7
  <2> QED
    BY <2>1, <2>2, <1>2, RunKept
<1>9. Active' = Active /\ Scratch' = Scratch /\ FM' = FM
  BY <1>1 DEF Active, Scratch, FM
<1>10. call \in PlacedCall \cup RemoveCall \cup CleanupCall \cup {[op |-> "boot"]}
       /\ Committed(FM)
  BY <1>1 DEF FsInv, CallInv, CommitInv
<1>11. ASSUME pc' \in {"boot_cleanup", "ready", "delete"}, CallInv', Deleting' \/ pc' # "delete",
              NoneMarked(FM) \/ pc' # "ready",
              call'.op \in {"none", "boot", "set_cleanup"}
       PROVE  Keeps
  <2>1. TypeOK'
    BY <1>1, <1>4, <1>7, <1>11, TypePartsNext
  <2>2. RamInv'
    BY <1>1, <1>3, <1>5, <1>8, <1>9, <1>11 DEF RamInv, Running, Written
  <2>3. ScratchInv'
    BY <1>1, <1>3, <1>5, <1>6, <1>7, <1>9, <1>11 DEF ScratchInv, Fresh
  <2>4. SetInv' /\ DeleteInv' /\ CommitInv'
    BY <1>9, <1>11 DEF SetInv, DeleteInv, CommitInv
  <2> QED
    BY <1>8, <1>11, <2>1, <2>2, <2>3, <2>4 DEF Keeps, FsInv
<1>12. CASE call.op \in {"boot", "upgraded"} /\ pc' = "boot_cleanup" /\ call' = call
  <2>1. call = [op |-> "boot"]
    BY <1>10, <1>12 DEF PlacedCall, RemoveCall, CleanupCall
  <2>2. CallInv' /\ call'.op = "boot"
    BY <2>1, <1>12 DEF CallInv, Running
  <2> QED
    BY <2>2, <1>11, <1>12
<1>13. CASE /\ call.op = "set" /\ call.old \notin {NoIdx, call.new}
            /\ pc' = "delete" /\ call' = [call EXCEPT !.op = "set_cleanup"]
  <2>1. call \in PlacedCall
    BY <1>10, <1>13 DEF PlacedCall, RemoveCall, CleanupCall
  <2>2. call' \in PlacedCall /\ call'.op = "set_cleanup" /\ call'.old = call.old
    BY <2>1, <1>13 DEF PlacedCall
  <2>3. CallInv'
    BY <2>2, <1>13 DEF CallInv, Running
  <2>4. call.old \in Live(FM) /\ Marked(FM[call.old])
    BY <1>10, <1>13 DEF Committed, Replaced, Live
  <2>5. Deleting'
    BY <2>2, <2>4, <1>9 DEF Deleting
  <2> QED
    BY <2>2, <2>3, <2>5, <1>11, <1>13
<1>14. CASE /\ \/ call.op \in {"cleanup", "remove", "set_cleanup"}
               \/ call.op = "set" /\ call.old \in {NoIdx, call.new}
            /\ pc' = "ready" /\ call' = NoCall
  <2>1. NoneMarked(FM)
    BY <1>10, <1>14 DEF Committed, Replaced
  <2>2. call' = [op |-> "none"]
    BY <1>14 DEF NoCall
  <2>3. CallInv'
    BY <2>2, <1>14 DEF CallInv, Running
  <2> QED
    BY <2>1, <2>2, <2>3, <1>11, <1>14
<1> QED
  BY <1>5, <1>12, <1>13, <1>14 DEF EraseData

(* A delete writes the file table without the file. *)
LEMMA DeleteMetaStep ==
    ASSUME FsInv, DeleteMeta
    PROVE  Keeps
<1>1. pc = "delete" /\ pc' = "compact" /\ UNCHANGED <<cell, ctx, call>>
  BY DEF DeleteMeta
<1>2. Running /\ ~Written
  BY <1>1 DEF Running, Written
<1>3. PICK a \in MetaBlock, s \in MetaBlock : a = Active /\ s = Scratch /\ a # s /\ s = Other(a)
  BY <1>2, RunningState
<1>4. /\ MetaOK(mblk) /\ CellOK(cell) /\ CtxOK(ctx)
      /\ Sound(a, BM, FM, cell, mblk[a].hdr.scratch)
      /\ \A k \in FileIdx : File(k) = FM[k]
  BY <1>2, <1>3, RunningState
<1>5. mblk[s] = BlankMeta /\ mblk[s].hdr = BlankHeader
      /\ mblk[s].fmeta = [k \in FileIdx |-> BlankFile]
  BY <1>1, <1>3, BlankMetaType DEF FsInv, ScratchInv
<1>6. Deleting
  BY <1>1 DEF FsInv, DeleteInv
<1>7. PICK o \in FileIdx : o = call.old /\ o \in Live(FM) /\ (NoneMarked(FM) \/ Marked(FM[o]))
  BY <1>6 DEF Deleting, Live
<1>8. PICK fm : fm = AfterDelete(FM, o)
  OBVIOUS
<1>9. GoodFiles(fm)
  <2>1. PICK bm, f0, c, sp : bm = BM /\ f0 = FM /\ c = cell /\ sp = mblk[a].hdr.scratch
    OBVIOUS
  <2>2. PICK bm2 : bm2 = NewBlocks(bm, a, sp, f0[o].lblock, bm[f0[o].lblock].free + f0[o].max)
    OBVIOUS
  <2>3. DeleteStep(a, bm, f0, c, sp, o, bm2, fm)
    BY <2>1, <2>2, <1>4, <1>7, <1>8 DEF DeleteStep
  <2> QED
    BY <2>3, DeleteFiles
<1>10. mblk' = [mblk EXCEPT ![s].fmeta = fm]
  <2>1. \A m : ProgramFile(BlankFile, m) = m
    BY DEF ProgramFile
  <2>2. ASSUME NEW k \in FileIdx
        PROVE  ProgramFile(mblk[Scratch].fmeta[k],
                           IF k = call.old THEN EmptyFile
                           ELSE IF Behind(k, File(call.old))
                             THEN [File(k) EXCEPT !.idx = @ - File(call.old).max]
                             ELSE File(k))
                 = IF k = o THEN EmptyFile
                   ELSE IF BehindFile(FM[k], FM[o])
                     THEN [FM[k] EXCEPT !.idx = @ - FM[o].max]
                   ELSE FM[k]
    <3>1. File(k) = FM[k] /\ File(call.old) = FM[o] /\ mblk[Scratch].fmeta[k] = BlankFile
      BY <1>3, <1>4, <1>5, <1>7
    <3>2. k # o => (Behind(k, FM[o]) <=> BehindFile(FM[k], FM[o]))
      BY <3>1, <1>7 DEF Behind, BehindFile
    <3> QED
      BY <2>1, <3>1, <3>2, <1>7
  <2> QED
    BY <2>2, <1>3, <1>8 DEF DeleteMeta, AfterDelete
<1>11. PICK m \in MetaType : m = mblk[s]
  BY <1>4 DEF MetaOK
<1>12. fm \in [FileIdx -> FileMeta]
  BY <1>9, TableTypes
<1>13. PICK m2 : m2 = [m EXCEPT !.fmeta = fm]
  OBVIOUS
<1>14. m2 \in MetaType /\ m2.hdr = m.hdr /\ m2.fmeta = fm
  BY <1>12, <1>13 DEF MetaType
<1>15. mblk' = [mblk EXCEPT ![s] = m2]
  BY <1>10, <1>11, <1>13
<1>16. MetaOK(mblk') /\ mblk'[a] = mblk[a] /\ mblk'[s] = m2
  BY <1>3, <1>4, <1>14, <1>15 DEF MetaOK
<1>17. mblk'[s].hdr = mblk[s].hdr
  BY <1>11, <1>14, <1>16
<1>18. Loads(mblk', cell', Active) /\ Served(mblk', cell') = Served(mblk, cell)
  BY <1>1, <1>2, <1>3, <1>16, <1>17, RunKept
<1>19. Active' = Active /\ Scratch' = Scratch /\ FM' = FM /\ NFM' = fm
  BY <1>1, <1>3, <1>14, <1>16 DEF Active, Scratch, FM, NFM
<1>20. /\ call \in RemoveCall \cup CleanupCall \/ (call \in PlacedCall /\ call.op = "set_cleanup")
  BY <1>1 DEF FsInv, CallInv
<1>21. call.op \in {"remove", "cleanup", "set_cleanup"}
  BY <1>20 DEF RemoveCall, CleanupCall
<1>22. TypeOK'
  BY <1>1, <1>4, <1>16, <1>21, TypePartsNext
<1>23. CallInv'
  BY <1>1, <1>20 DEF CallInv, Running
<1>24. RamInv'
  <2>1. /\ ctx.swap = mblk[Active].hdr.swap /\ ctx.version = "supported"
        /\ ctx.scratch = mblk[Active].hdr.scratch
    BY <1>2 DEF FsInv, RamInv
  <2> QED
    BY <2>1, <1>1, <1>3, <1>16, <1>18, <1>19 DEF RamInv, Running
<1>25. ScratchInv'
  <2>1. cell[Scratch] = Blank /\ (NumBlocks > 2 => cell[ctx.scratch] = Blank)
    BY <1>1 DEF FsInv, ScratchInv, Fresh
  <2> QED
    BY <2>1, <1>1, <1>3, <1>5, <1>17, <1>19 DEF ScratchInv, Fresh
<1>26. Deleting'
  BY <1>1, <1>6, <1>19 DEF Deleting
<1>27. SetInv' /\ DeleteInv' /\ CommitInv'
  BY <1>1, <1>7, <1>8, <1>19, <1>26 DEF SetInv, DeleteInv, CommitInv
<1> QED
  BY <1>18, <1>22, <1>23, <1>24, <1>25, <1>27 DEF Keeps, FsInv

(* The files behind a file take the rest of its block. *)
Moved(fm, o) == {i \in FileIdx : i # o /\ BehindFile(fm[i], fm[o])}
MovedIdx(fm, o) == {fm[i].idx : i \in Moved(fm, o)}
MovedCells(fm, o) == UNION {{i} \X (1 .. fm[i].max) : i \in Moved(fm, o)}

(* The files behind the deleted one fill the cells behind it. *)
LEMMA MovedFiles ==
    ASSUME NEW bm, NEW fm, GoodFiles(fm), GoodBlocks(bm), Tiled(bm, fm), NEW o \in Live(fm),
           NEW end \in Nat, end = BlockSize - bm[fm[o].lblock].free,
           NEW next \in Nat, next = fm[o].idx + fm[o].max
    PROVE  /\ next <= end
           /\ \A i \in Moved(fm, o) : /\ i \in Live(fm) /\ fm[i].lblock = fm[o].lblock
                                      /\ fm[i].idx \in Nat /\ fm[i].max \in Nat /\ fm[i].max >= 1
                                      /\ next <= fm[i].idx /\ fm[i].idx + fm[i].max <= end
           /\ \A p \in next .. end - 1 :
                \E i \in Moved(fm, o) : fm[i].idx <= p /\ p < fm[i].idx + fm[i].max
<1>1. \A i \in Live(fm) : /\ i \in FileIdx /\ fm[i].id # NoFid /\ fm[i].lblock \in LBlock
                          /\ fm[i].idx \in Nat /\ fm[i].max \in Nat /\ fm[i].max >= 1
  BY LiveFile DEF Live
<1>2. PICK l \in LBlock : l = fm[o].lblock
  BY <1>1
<1>3. PICK r \in 0 .. BlockSize : r = bm[l].free
  BY <1>2 DEF GoodBlocks
<1>4. PICK x \in Nat, n \in Nat : x = fm[o].idx /\ n = fm[o].max /\ n >= 1 /\ next = x + n
  BY <1>1
<1>5. BlockSize \in Nat /\ end = BlockSize - r
  BY <1>2, <1>3, ConfigAssumption
<1>6. \A i \in Live(fm) : fm[i].lblock = l => fm[i].idx + fm[i].max <= end
  <2> SUFFICES ASSUME NEW i \in Live(fm), fm[i].lblock = l PROVE fm[i].idx + fm[i].max <= end
    OBVIOUS
  <2>1. fm[i].idx + fm[i].max + r <= BlockSize
    BY <1>3 DEF Tiled
  <2>2. PICK y \in Nat, k \in Nat : y = fm[i].idx /\ k = fm[i].max
    BY <1>1
  <2> QED
    BY <2>1, <2>2, <1>3, <1>5
<1>7. next <= end
  BY <1>2, <1>4, <1>6
<1>8. ASSUME NEW i \in Live(fm), fm[i].lblock = l, i # o
      PROVE  fm[i].idx + fm[i].max <= x \/ next <= fm[i].idx
  <2>1. Apart(fm[i], fm[o])
    BY <1>8 DEF Tiled
  <2> QED
    BY <2>1, <1>2, <1>4, <1>8 DEF Apart
<1>9. ASSUME NEW i \in Moved(fm, o)
      PROVE  /\ i \in Live(fm) /\ fm[i].lblock = fm[o].lblock
             /\ fm[i].idx \in Nat /\ fm[i].max \in Nat /\ fm[i].max >= 1
             /\ next <= fm[i].idx /\ fm[i].idx + fm[i].max <= end
  <2>1. i \in Live(fm) /\ fm[i].lblock = l /\ i # o /\ fm[i].idx > x
    BY <1>2, <1>4 DEF Moved, BehindFile, Live
  <2>2. PICK y \in Nat, k \in Nat : y = fm[i].idx /\ k = fm[i].max /\ k >= 1
    BY <2>1, <1>1
  <2>3. y + k <= x \/ next <= y
    BY <2>1, <2>2, <1>8
  <2>4. next <= y
    BY <2>1, <2>2, <2>3
  <2> QED
    BY <2>1, <2>2, <2>4, <1>2, <1>6
<1>10. ASSUME NEW p \in next .. end - 1
       PROVE  \E i \in Moved(fm, o) : fm[i].idx <= p /\ p < fm[i].idx + fm[i].max
  <2>1. Start(l) <= x
    BY <1>2, <1>4 DEF Tiled
  <2>2. p \in Start(l) .. BlockSize - bm[l].free - 1
    BY <2>1, <1>3, <1>4, <1>5, Blocks
  <2>3. PICK i \in Live(fm) : Covers(fm[i], l, p)
    BY <2>2 DEF Tiled
  <2>4. fm[i].lblock = l /\ fm[i].idx <= p /\ p < fm[i].idx + fm[i].max
    BY <2>3 DEF Covers
  <2>5. PICK y \in Nat, k \in Nat : y = fm[i].idx /\ k = fm[i].max /\ k >= 1
    BY <1>1
  <2>6. i # o
    BY <2>4, <1>4
  <2>7. y + k <= x \/ next <= y
    BY <2>4, <2>5, <2>6, <1>8
  <2>8. y > x
    BY <2>4, <2>5, <2>7, <1>4
  <2>9. i \in Moved(fm, o)
    BY <2>4, <2>5, <2>6, <2>8, <1>1, <1>2, <1>4 DEF Moved, BehindFile
  <2> QED
    BY <2>4, <2>9
<1> QED
  BY <1>7, <1>9, <1>10

(* So the code's sum of their sizes is the distance to the free space, and *)
(* the first of them follows the file immediately.                         *)
LEMMA MovedSize ==
    ASSUME NEW bm, NEW fm, GoodFiles(fm), GoodBlocks(bm), Tiled(bm, fm), NEW o \in Live(fm),
           NEW end \in Nat, end = BlockSize - bm[fm[o].lblock].free,
           NEW next \in Nat, next = fm[o].idx + fm[o].max
    PROVE  /\ Cardinality(MovedCells(fm, o)) = end - next
           /\ next < end => Moved(fm, o) # {} /\ Min(MovedIdx(fm, o)) = next
<1> DEFINE M == Moved(fm, o)
           U == MovedCells(fm, o)
           V == next .. end - 1
           F == [q \in U |-> fm[q[1]].idx + q[2] - 1]
<1>1. next <= end
  BY MovedFiles
<1>2. \A i \in M : /\ i \in Live(fm) /\ fm[i].lblock = fm[o].lblock
                   /\ fm[i].idx \in Nat /\ fm[i].max \in Nat /\ fm[i].max >= 1
                   /\ next <= fm[i].idx /\ fm[i].idx + fm[i].max <= end
  BY MovedFiles
<1>3. \A p \in V : \E i \in M : fm[i].idx <= p /\ p < fm[i].idx + fm[i].max
  BY MovedFiles
<1>4. \A q \in U : /\ q[1] \in M /\ q[2] \in 1 .. fm[q[1]].max /\ q = <<q[1], q[2]>>
  BY DEF MovedCells
<1>5. \A i \in M, k \in Nat : k \in 1 .. fm[i].max => <<i, k>> \in U
  BY DEF MovedCells
<1> HIDE DEF M, U
<1>6. F \in [U -> V]
  <2> SUFFICES ASSUME NEW q \in U PROVE fm[q[1]].idx + q[2] - 1 \in V
    OBVIOUS
  <2>1. PICK i, k : i \in M /\ i = q[1] /\ k = q[2] /\ k \in 1 .. fm[i].max
    BY <1>4
  <2>2. PICK x \in Nat, n \in Nat : x = fm[i].idx /\ n = fm[i].max /\ next <= x /\ x + n <= end
    BY <2>1, <1>2
  <2>3. x + k - 1 \in V
    BY <2>1, <2>2
  <2> QED
    BY <2>1, <2>2, <2>3
<1>7. \A q, s \in U : F[q] = F[s] => q = s
  <2> SUFFICES ASSUME NEW q \in U, NEW s \in U, F[q] = F[s] PROVE q = s
    OBVIOUS
  <2>1. PICK i, k : i \in M /\ i = q[1] /\ k = q[2] /\ k \in 1 .. fm[i].max /\ q = <<i, k>>
    BY <1>4
  <2>2. PICK j, h : j \in M /\ j = s[1] /\ h = s[2] /\ h \in 1 .. fm[j].max /\ s = <<j, h>>
    BY <1>4
  <2>3. PICK x \in Nat, n \in Nat : x = fm[i].idx /\ n = fm[i].max
    BY <2>1, <1>2
  <2>4. PICK y \in Nat, m \in Nat : y = fm[j].idx /\ m = fm[j].max
    BY <2>2, <1>2
  <2>5. x + k - 1 = y + h - 1
    BY <2>1, <2>2, <2>3, <2>4
  <2>6. i = j
    <3> SUFFICES ASSUME i # j PROVE FALSE
      OBVIOUS
    <3>1. Apart(fm[i], fm[j]) /\ fm[i].lblock = fm[j].lblock
      BY <2>1, <2>2, <1>2 DEF Tiled
    <3>2. x + n <= y \/ y + m <= x
      BY <3>1, <2>3, <2>4 DEF Apart
    <3> QED
      BY <3>2, <2>1, <2>2, <2>3, <2>4, <2>5
  <2>7. k = h
    BY <2>1, <2>2, <2>3, <2>4, <2>5, <2>6
  <2> QED
    BY <2>1, <2>2, <2>6, <2>7
<1>8. \A p \in V : \E q \in U : F[q] = p
  <2> SUFFICES ASSUME NEW p \in V PROVE \E q \in U : F[q] = p
    OBVIOUS
  <2>1. PICK i \in M : fm[i].idx <= p /\ p < fm[i].idx + fm[i].max
    BY <1>3
  <2>2. PICK x \in Nat, n \in Nat : x = fm[i].idx /\ n = fm[i].max
    BY <1>2
  <2>3. PICK k \in Nat : k = p - x + 1 /\ k \in 1 .. n
    BY <2>1, <2>2
  <2>4. PICK q \in U : q = <<i, k>>
    BY <2>2, <2>3, <1>5
  <2>5. F[q] = x + k - 1
    BY <2>2, <2>4
  <2> QED
    BY <2>3, <2>5
<1> HIDE DEF F
<1>9. F \in Bijection(U, V)
  BY <1>6, <1>7, <1>8, Fun_IsBij
<1>10. ExistsBijection(V, U)
  BY <1>9, Fun_ExistsBijSymmetric DEF ExistsBijection
<1>11. IsFiniteSet(V) /\ Cardinality(V) = IF next > end - 1 THEN 0 ELSE end - 1 - next + 1
  <2>1. PICK b \in Int, e \in Int : b = next /\ e = end - 1
    OBVIOUS
  <2>2. IsFiniteSet(b .. e) /\ Cardinality(b .. e) = IF b > e THEN 0 ELSE e - b + 1
    BY ONLY b \in Int, e \in Int, FS_Interval
  <2> QED
    BY <2>1, <2>2
<1>12. Cardinality(U) = Cardinality(V)
  BY <1>10, <1>11, FS_Bijection
<1>13. Cardinality(U) = end - next
  BY <1>1, <1>11, <1>12
<1>14. ASSUME next < end
       PROVE  M # {} /\ Min(MovedIdx(fm, o)) = next
  <2>1. next \in V
    BY <1>14
  <2>2. PICK i \in M : fm[i].idx <= next
    BY <2>1, <1>3
  <2>3. PICK T : T = MovedIdx(fm, o) /\ T = {fm[j].idx : j \in M}
    BY DEF MovedIdx, M
  <2>4. T \subseteq Nat /\ fm[i].idx \in T /\ \A y \in T : next <= y
    BY <2>3, <1>2
  <2>5. Min(T) \in T /\ \A y \in T : Min(T) <= y
    BY <2>4, MinNat
  <2>6. PICK z \in Nat, w \in Nat : z = Min(T) /\ w = fm[i].idx /\ z <= w /\ w <= next
          /\ next <= z
    BY <2>2, <2>4, <2>5
  <2>7. z = next
    BY <2>6
  <2> QED
    BY <2>2, <2>3, <2>6, <2>7
<1> QED
  BY <1>13, <1>14 DEF U, M

(* The block without the deleted file: the files behind it move up. *)
Compacted(from, x, n, end) ==
    [j \in Pos |-> IF j < x THEN from[j]
                   ELSE IF j < end - n /\ j + n \in Pos THEN from[j + n]
                   ELSE BlankCell]

(* What the compaction programs: the cells behind the file, moved down. *)
LEMMA CompactWrites ==
    ASSUME FsInv, Compact
    PROVE  LET del == FM[call.old]
               l == del.lblock
               end == BlockSize - BM[l].free
               to == IF l = 0 THEN Scratch ELSE mblk[Active].hdr.scratch
               data == ProgramCells(to, Start(l), Start(l),
                                    Compacted(cell[BM[l].phy], del.idx, del.max, end),
                                    end - del.max - Start(l))
           IN  /\ cell' = IF l = 0 THEN data ELSE [data EXCEPT ![Scratch] = MigrateLb0[Scratch]]
               /\ mblk' = [mblk EXCEPT ![Scratch].bmeta =
                    NewBlocks(BM, Active, mblk[Active].hdr.scratch, l, BM[l].free + del.max)]
               /\ ctx' = [ctx EXCEPT !.scratch = IF l = 0 THEN @ ELSE BM[l].phy]
<1>1. pc = "compact"
  BY DEF Compact
<1>2. Running /\ ~Written /\ ctx.scratch = mblk[Active].hdr.scratch
  BY <1>1 DEF Running, Written, FsInv, RamInv
<1>3. PICK o \in FileIdx : o = call.old /\ o \in Live(FM)
  BY <1>1 DEF FsInv, DeleteInv, Deleting, Live
<1>4. /\ GoodFiles(FM) /\ GoodBlocks(BM) /\ Tiled(BM, FM)
      /\ \A k \in FileIdx : File(k) = FM[k]
      /\ \A k \in LBlock : BlockMeta(k) = BM[k]
  BY <1>2, RunningState DEF Sound
<1>5. PICK fm, bm : fm = FM /\ bm = BM
  OBVIOUS
<1>6. PICK l \in LBlock, x \in Nat, n \in Nat : l = fm[o].lblock /\ x = fm[o].idx
        /\ n = fm[o].max /\ n >= 1
  BY <1>3, <1>4, <1>5, LiveFile DEF Live
<1>7. PICK r \in 0 .. BlockSize : r = bm[l].free
  BY <1>4, <1>5 DEF GoodBlocks
<1>8. PICK end \in Nat, next \in Nat : end = BlockSize - r /\ next = x + n
  BY <1>7, ConfigAssumption
<1>9. /\ Cardinality(MovedCells(fm, o)) = end - next /\ next <= end
      /\ next < end => Moved(fm, o) # {} /\ Min(MovedIdx(fm, o)) = next
  <2>1. GoodFiles(fm) /\ GoodBlocks(bm) /\ Tiled(bm, fm) /\ o \in Live(fm)
    BY <1>3, <1>4, <1>5
  <2>2. end = BlockSize - bm[fm[o].lblock].free /\ next = fm[o].idx + fm[o].max
    BY <1>6, <1>7, <1>8
  <2>3. next <= end
    BY <2>1, <2>2, MovedFiles
  <2> QED
    BY <2>1, <2>2, <2>3, MovedSize
<1>10. PICK p, to, s : /\ p = bm[l].phy /\ s = Scratch
                       /\ to = IF l = 0 THEN Scratch ELSE mblk[Active].hdr.scratch
  OBVIOUS
<1>11. PICK moved, size, src :
         /\ moved = {i \in FileIdx : Behind(i, File(call.old))}
         /\ size = Cardinality(UNION {{i} \X (1 .. File(i).max) : i \in moved})
         /\ src = IF moved = {} THEN BlockSize ELSE Min({File(i).idx : i \in moved})
  OBVIOUS
<1>12. moved = Moved(fm, o)
  <2>1. ASSUME NEW i \in FileIdx
        PROVE  Behind(i, File(call.old)) <=> (i # o /\ BehindFile(fm[i], fm[o]))
    BY <1>3, <1>4, <1>5 DEF Behind, BehindFile
  <2> QED
    BY <2>1, <1>11 DEF Moved
<1>13. size = end - next
  <2>1. \A i \in moved : File(i) = fm[i]
    BY <1>4, <1>5, <1>12 DEF Moved
  <2>2. UNION {{i} \X (1 .. File(i).max) : i \in moved} = MovedCells(fm, o)
    BY <2>1, <1>12 DEF MovedCells
  <2> QED
    BY <2>2, <1>9, <1>11
<1>14. next < end => src = next
  <2>1. {File(i).idx : i \in moved} = MovedIdx(fm, o)
    BY <1>4, <1>5, <1>12 DEF Moved, MovedIdx
  <2> QED
    BY <2>1, <1>9, <1>11, <1>12
<1>15. PICK new : new = [j \in Pos |->
                              IF j < x THEN cell[p][j]
                              ELSE IF j < x + size /\ src + j - x \in Pos
                                THEN cell[p][src + j - x]
                              ELSE BlankCell]
  OBVIOUS
<1>16. new = Compacted(cell[p], x, n, end)
  <2>1. ASSUME NEW j \in Pos
        PROVE  (IF j < x THEN cell[p][j]
                ELSE IF j < x + size /\ src + j - x \in Pos THEN cell[p][src + j - x]
                ELSE BlankCell)
                 = IF j < x THEN cell[p][j]
                   ELSE IF j < end - n /\ j + n \in Pos THEN cell[p][j + n]
                   ELSE BlankCell
    <3>1. j \in Nat /\ x + size = end - n
      BY <1>8, <1>13, ConfigAssumption DEF Pos
    <3>2. CASE j >= x /\ j < end - n
      <4>1. next < end
        BY <3>1, <3>2, <1>8
      <4>2. src + j - x = j + n
        BY <3>1, <4>1, <1>8, <1>14
      <4> QED
        BY <3>1, <3>2, <4>2
    <3>3. CASE ~(j >= x /\ j < end - n)
      BY <3>1, <3>3
    <3> QED
      BY <3>2, <3>3
  <2> QED
    BY <2>1, <1>15 DEF Compacted
<1>17. /\ File(call.old) = fm[o] /\ BlockMeta(l) = bm[l] /\ SpareOf(l) = to
  BY <1>2, <1>3, <1>4, <1>5, <1>10 DEF SpareOf
<1>18. x + size - Start(l) = end - n - Start(l)
  <2>1. Start(l) \in Nat
    BY Blocks
  <2> QED
    BY <2>1, <1>8, <1>13
<1>19. PICK data : data = ProgramCells(to, Start(l), Start(l), new, x + size - Start(l))
  OBVIOUS
<1>20. /\ cell' = IF l = 0 THEN data ELSE [data EXCEPT ![s] = MigrateLb0[s]]
       /\ mblk' = [mblk EXCEPT ![s].bmeta = ScratchBlockMeta(l, [phy |-> to, free |-> r + n])]
       /\ ctx' = [ctx EXCEPT !.scratch = IF l = 0 THEN @ ELSE p]
  BY <1>6, <1>7, <1>10, <1>11, <1>15, <1>17, <1>19, Zenon DEF Compact
<1>21. ScratchBlockMeta(l, [phy |-> to, free |-> r + n])
         = NewBlocks(BM, Active, mblk[Active].hdr.scratch, l, r + n)
  BY <1>2, <1>10, NewBlockTable
<1>22. data = ProgramCells(to, Start(l), Start(l), Compacted(cell[p], x, n, end), end - n - Start(l))
  BY <1>16, <1>18, <1>19
<1> QED
  BY <1>3, <1>5, <1>6, <1>7, <1>8, <1>10, <1>20, <1>21, <1>22, Zenon

(* A delete writes the compacted block and the block table. *)
LEMMA CompactStep ==
    ASSUME FsInv, Compact
    PROVE  Keeps
<1>1. pc = "compact" /\ pc' = "header" /\ call' = call
  BY DEF Compact
<1>2. Running /\ ~Written
  BY <1>1 DEF Running, Written
<1>3. PICK a, s, sp :
        /\ a \in MetaBlock /\ s \in MetaBlock /\ a = Active /\ s = Scratch /\ a # s
        /\ s = Other(a) /\ sp = mblk[Active].hdr.scratch
  BY <1>2, RunningState
<1>4. /\ MetaOK(mblk) /\ CellOK(cell) /\ CtxOK(ctx) /\ Sound(a, BM, FM, cell, sp)
      /\ ctx.scratch = sp
  BY <1>2, <1>3, RunningState DEF FsInv, RamInv
<1>5. GoodFiles(FM) /\ GoodBlocks(BM) /\ Tiled(BM, FM) /\ Mapped(a, BM, sp) /\ Whole(BM, FM, cell)
  BY <1>4 DEF Sound
<1>6. Deleting /\ NFM = AfterDelete(FM, call.old)
  BY <1>1 DEF FsInv, DeleteInv
<1>7. PICK o \in FileIdx : o = call.old /\ o \in Live(FM) /\ (NoneMarked(FM) \/ Marked(FM[o]))
  BY <1>6 DEF Deleting, Live
<1>8. PICK l \in LBlock, x \in Nat, n \in Nat :
        l = FM[o].lblock /\ x = FM[o].idx /\ n = FM[o].max /\ n >= 1
  BY <1>5, <1>7, LiveFile DEF Live
<1>9. PICK p \in Block, r \in 0 .. BlockSize : p = BM[l].phy /\ r = BM[l].free
  BY <1>5 DEF GoodBlocks
<1>10. PICK st \in 0 .. BlockSize : st = Start(l)
  BY Blocks
<1>11. PICK end \in Nat : end = BlockSize - r
  BY <1>9, ConfigAssumption
<1>12. st <= x /\ x + n <= end
  <2>1. Start(FM[o].lblock) <= FM[o].idx
        /\ FM[o].idx + FM[o].max + BM[FM[o].lblock].free <= BlockSize
    BY <1>5, <1>7 DEF Tiled
  <2>2. st <= x /\ x + n + r <= BlockSize
    BY <2>1, <1>8, <1>9, <1>10
  <2> QED
    BY <2>2, <1>9, <1>11, ConfigAssumption
<1>13. PICK to : to = IF l = 0 THEN s ELSE sp
  OBVIOUS
<1>14. /\ cell[s] = Blank /\ to \in Block /\ to # p /\ cell[to] = Blank /\ (l # 0 => to # s)
  <2>1. cell[s] = Blank /\ (NumBlocks > 2 => cell[sp] = Blank)
    BY <1>1, <1>3, <1>4 DEF FsInv, ScratchInv, Fresh
  <2>2. /\ BM[l].phy # s /\ (NumBlocks > 2 => BM[l].phy # sp)
        /\ NumBlocks > 2 => sp # s /\ sp \in Block
    BY <1>3, <1>5, SparesUnused
  <2> QED
    BY <2>1, <2>2, <1>3, <1>9, <1>13, Blocks
<1>15. PICK new : new = Compacted(cell[p], x, n, end)
  OBVIOUS
<1>16. PICK e \in Int : e = end - n - st
  OBVIOUS
<1>17. PICK data : data = ProgramCells(to, st, st, new, e)
  OBVIOUS
<1>18. PICK bm, fm : bm = NewBlocks(BM, a, sp, l, r + n) /\ fm = AfterDelete(FM, o)
  OBVIOUS
<1>19. /\ cell' = IF l = 0 THEN data ELSE [data EXCEPT ![s] = MigrateLb0[s]]
       /\ mblk' = [mblk EXCEPT ![s].bmeta = bm]
       /\ ctx' = [ctx EXCEPT !.scratch = IF l = 0 THEN @ ELSE p]
  <2>1. FM[call.old] = FM[o]
    BY <1>7
  <2> QED
    BY <2>1, <1>3, <1>8, <1>9, <1>10, <1>11, <1>13, <1>15, <1>16, <1>17, <1>18, CompactWrites,
       Zenon
<1>20. DeleteStep(a, BM, FM, cell, sp, o, bm, fm)
  BY <1>3, <1>4, <1>7, <1>8, <1>9, <1>18 DEF DeleteStep
<1>21. GoodFiles(fm) /\ GoodBlocks(bm)
  <2>1. GoodFiles(fm)
    BY <1>20, DeleteFiles
  <2>2. r + n \in 0 .. BlockSize /\ Start(l) + (r + n) <= BlockSize
    BY <1>9, <1>10, <1>11, <1>12, ConfigAssumption
  <2>3. GoodBlocks(bm)
    <3>1. PICK fr \in 0 .. BlockSize : fr = r + n /\ Start(l) + fr <= BlockSize
      BY <2>2
    <3> QED
      BY <3>1, <1>3, <1>5, <1>18, BlocksMoved
  <2> QED
    BY <2>1, <2>3
<1>22. /\ MetaOK(mblk') /\ mblk'[a] = mblk[a] /\ mblk'[s].hdr = mblk[s].hdr
       /\ mblk'[s].bmeta = bm /\ mblk'[s].fmeta = fm
  <2>1. PICK m \in MetaType : m = mblk[s]
    BY <1>3, <1>4 DEF MetaOK
  <2>2. PICK m2 : m2 = [m EXCEPT !.bmeta = bm]
    OBVIOUS
  <2>3. bm \in [LBlock -> BlockMetaType]
    BY <1>21, TableTypes
  <2>4. m2 \in MetaType /\ m2.hdr = m.hdr /\ m2.bmeta = bm /\ m2.fmeta = m.fmeta
    BY <2>2, <2>3 DEF MetaType
  <2>5. mblk' = [mblk EXCEPT ![s] = m2]
    BY <2>1, <2>2, <1>19
  <2>6. MetaOK(mblk') /\ mblk'[a] = mblk[a] /\ mblk'[s] = m2
    BY <2>4, <2>5, <1>3, <1>4 DEF MetaOK
  <2>7. m.fmeta = fm
    BY <2>1, <1>3, <1>6, <1>7, <1>18 DEF NFM
  <2> QED
    BY <2>1, <2>4, <2>6, <2>7
<1>23. /\ CtxOK(ctx') /\ ctx'.active = ctx.active /\ ctx'.swap = ctx.swap
       /\ ctx'.version = ctx.version
       /\ ctx'.scratch = NewSpare(BM, sp, l)
  BY <1>4, <1>9, <1>19 DEF CtxOK, NewSpare
<1>24. /\ \A j \in Pos : j \in st .. st + e - 1 => data[to][j] = new[j]
       /\ \A k \in Block : k # to => data[k] = cell[k]
  BY <1>4, <1>10, <1>14, <1>17, ProgramBlank DEF CellOK
<1>25. CellOK(data)
  <2>1. ASSUME NEW j \in Pos PROVE new[j] \in Cell
    <3>1. cell[p] \in [Pos -> Cell]
      BY <1>4 DEF CellOK
    <3> QED
      BY <3>1, <1>15, CellTypes DEF Compacted
  <2> QED
    BY <2>1, <1>4, <1>10, <1>14, <1>17, ProgramType
<1>26. /\ CellOK(cell')
       /\ cell'[to] = data[to]
       /\ \A b \in Block : b # to /\ b # s => cell'[b] = cell[b]
       /\ l # 0 => \A j \in DataStart .. BlockSize - BM[0].free - 1 : cell'[s][j] = cell[a][j]
  <2>1. CASE l = 0
    <3>1. cell' = data
      BY <2>1, <1>19
    <3> QED
      BY <2>1, <3>1, <1>24, <1>25
  <2>2. CASE l # 0
    <3>1. cell' = [data EXCEPT ![s] = MigrateLb0[s]]
      BY <2>2, <1>19
    <3>2. /\ CellOK(MigrateLb0)
          /\ \A j \in DataStart .. BlockSize - BM[0].free - 1 : MigrateLb0[s][j] = cell[a][j]
      BY <1>2, <1>3, <1>14, Migrated
    <3>3. s \in Block
      BY <1>3, Blocks
    <3>4. CellOK(cell') /\ cell'[s] = MigrateLb0[s]
                /\ \A b \in Block : b # s => cell'[b] = data[b]
      BY <3>1, <3>2, <3>3, <1>25 DEF CellOK
    <3> QED
      BY <2>2, <3>2, <3>4, <1>14, <1>24
  <2> QED
    BY <2>1, <2>2
<1>27. \A b \in Block : b # Scratch /\ (NumBlocks > 2 => b # mblk[Active].hdr.scratch) =>
                        cell'[b] = cell[b]
  BY <1>3, <1>13, <1>26, Blocks
<1>28. Sound(a, BM, FM, cell', sp)
  <2>1. Loads(mblk', cell', Active)
    BY <1>2, <1>3, <1>22, <1>27, RunKept
  <2> QED
    BY <2>1, <1>3, <1>22 DEF Loads, BM, FM
<1>29. DeleteStep(a, BM, FM, cell', sp, o, bm, fm)
  BY <1>20, <1>28 DEF DeleteStep
<1>30. DeleteCells(cell', BM, bm, FM[o])
  <2> SUFFICES ASSUME NEW k \in LBlock, NEW q \in Start(k) .. BlockSize - bm[k].free - 1
               PROVE  cell'[bm[k].phy][q] = IF k = l /\ q >= x THEN cell'[BM[k].phy][q + n]
                                            ELSE cell'[BM[k].phy][q]
    BY <1>8 DEF DeleteCells
  <2>1. /\ BM[k].phy # s /\ (NumBlocks > 2 => BM[k].phy # sp)
        /\ NumBlocks > 2 => sp # a /\ sp # s /\ sp \in Block
        /\ BM[k].phy \in Block
    BY <1>3, <1>5, SparesUnused DEF GoodBlocks
  <2>2. /\ bm[k].phy = IF k = 0 THEN s ELSE IF k = l THEN sp ELSE BM[k].phy
        /\ bm[k].free = IF k = l THEN r + n ELSE BM[k].free
    BY <1>3, <1>18 DEF NewBlocks
  <2>3. cell'[BM[k].phy] = cell[BM[k].phy]
    BY <2>1, <1>13, <1>26, Blocks
  <2>4. CASE k = l
    <3>1. q \in st .. end - n - 1
      BY <2>2, <2>4, <1>9, <1>10, <1>11, ConfigAssumption
    <3>2. q \in Pos /\ q \in st .. st + e - 1 /\ q < end - n /\ q + n \in Pos
      BY <3>1, <1>9, <1>10, <1>11, <1>16, ConfigAssumption DEF Pos
    <3>3. bm[k].phy = to
      BY <2>2, <2>4, <1>13
    <3>4. cell'[to][q] = new[q]
      BY <3>2, <1>24, <1>26
    <3>5. new[q] = IF q < x THEN cell[p][q] ELSE cell[p][q + n]
      BY <3>2, <1>15 DEF Compacted
    <3>6. q < x <=> ~(q >= x)
      BY <3>1, <1>10
    <3> QED
      BY <2>3, <2>4, <3>3, <3>4, <3>5, <3>6, <1>9
  <2>5. CASE k # l /\ k = 0
    <3>1. q \in DataStart .. BlockSize - BM[0].free - 1
      BY <2>2, <2>5, Blocks
    <3>2. cell'[s][q] = cell[a][q]
      BY <3>1, <2>5, <1>26
    <3>3. bm[k].phy = s /\ BM[k].phy = a
      BY <2>2, <2>5, <1>5 DEF Mapped
    <3> QED
      BY <2>3, <2>5, <3>2, <3>3
  <2>6. CASE k # l /\ k # 0
    BY <2>2, <2>6
  <2> QED
    BY <2>4, <2>5, <2>6
<1>31. PICK before, after : before = Assets(BM, FM, cell') /\ after = Assets(bm, fm, cell')
  OBVIOUS
<1>32. /\ Sound(s, bm, fm, cell', ctx'.scratch) /\ NoneMarked(fm)
       /\ Marked(FM[o]) => after = before
       /\ NoneMarked(FM) =>
            /\ after = [before EXCEPT ![FM[o].id] = None]
            /\ before[FM[o].id] = [data |-> Read(BM, FM[o], cell'), once |-> "WRITE_ONCE" \in FM[o].flags]
  BY <1>3, <1>8, <1>23, <1>29, <1>30, <1>31, DeleteSound
<1>33. Commits(before, after, fm)
  <2>1. CASE /\ call.op = "remove" /\ FM[o].id = call.fid
             /\ "WRITE_ONCE" \notin FM[o].flags /\ NoneMarked(FM)
    <3>1. PICK d \in Contents : d = Read(BM, FM[o], cell')
      BY <1>7, <1>28 DEF Sound, Whole
    <3>2. PICK b : b = before[call.fid]
      OBVIOUS
    <3>3. b = [data |-> d, once |-> "WRITE_ONCE" \in FM[o].flags]
      BY <2>1, <3>1, <3>2, <1>32
    <3>4. b.once = ("WRITE_ONCE" \in FM[o].flags)
      BY ONLY <3>3
    <3>5. b \in [data : Contents, once : BOOLEAN]
      BY <3>3
    <3>6. b # None
      BY <3>5, ClientAssumption
    <3>7. after = [before EXCEPT ![call.fid] = None]
      BY <2>1, <1>32
    <3> QED
      BY <2>1, <3>2, <3>4, <3>6, <3>7, <1>32 DEF Commits
  <2>2. CASE call.op \in {"cleanup", "set_cleanup"} /\ Marked(FM[o])
    BY <2>2, <1>32 DEF Commits
  <2> QED
    BY <2>1, <2>2, <1>6, <1>7 DEF Deleting
<1>34. call \in PlacedCall \cup RemoveCall \cup CleanupCall /\ pc # "erase_meta"
  BY <1>1 DEF FsInv, CallInv
<1> QED
  BY <1>1, <1>2, <1>3, <1>22, <1>23, <1>26, <1>27, <1>31, <1>32, <1>33, <1>34, HeaderReached
-----------------------------------------------------------------------------
(* The invariant holds, and what follows from it *)

(* A stutter keeps the invariant. *)
LEMMA FsStutter ==
    ASSUME FsInv, UNCHANGED vars
    PROVE  FsInv'
BY DEF vars, FsInv, TypeOK, CallInv, RamInv, ScratchInv, SetInv, DeleteInv, CommitInv, Running,
       Written, Fresh, Deleting, Commits, Committed, Replaced, Rewritable, FlagsOf, FM, BM, NFM,
       NBM, Active, Scratch

(* One step: the tables stay sound, and only the programming of a header   *)
(* changes what a restart serves.                                          *)
LEMMA FsStep ==
    ASSUME FsInv, Next, ReplaceHasRoom, 0 \notin Sizes
    PROVE  Keeps \/ (FsInv' /\ WriteHeader)
<1>1. CASE System
  <2>1. ~Upgrade
    BY DEF FsInv, CallInv, Upgrade
  <2> QED
    BY <1>1, <2>1, BootStep, FormatStep, BootCleanupStep, StartRemoveStep, StartSetStep,
       ReserveStep, WriteDataStep, WriteMetaStep, WriteHeaderStep, EraseMetaStep, EraseDataStep,
       DeleteMetaStep, CompactStep DEF System
<1>2. CASE \E f \in Fid, d \in Contents, once \in OnceFlags : Set(f, d, once)
  BY <1>2, SetStarts
<1>3. CASE \E f \in Fid : Remove(f) \/ Get(f)
  BY <1>3, RemoveStarts, GetStep
<1>4. CASE PowerFail
  BY <1>4, CrashStep, CrashInMetaStep, CrashInDataStep, CrashInFormatStep DEF PowerFail
<1> QED
  BY <1>1, <1>2, <1>3, <1>4 DEF Next

(* Every step keeps the invariant. *)
LEMMA FsNext ==
    ASSUME FsInv, [Next]_vars, ReplaceHasRoom, 0 \notin Sizes
    PROVE  FsInv'
BY FsStep, FsStutter DEF Keeps

(* The metadata that a restart would load is sound. *)
LEMMA LoadedSound ==
    ASSUME FsInv, SomeValid
    PROVE  /\ ActiveMetaBlock \in MetaBlock
           /\ Sound(ActiveMetaBlock, Selected.bmeta, Selected.fmeta, cell, Selected.hdr.scratch)
<1>1. MetaOK(mblk)
  BY TypeParts DEF FsInv
<1>2. ~NoneValid(mblk)
  BY ChosenActive
<1>3. PICK a \in MetaBlock : Loads(mblk, cell, a)
  BY <1>2, RunningState DEF FsInv, RamInv
<1>4. ActiveMetaBlock = a
  BY <1>1, <1>3, LoadsChosen, ChosenActive
<1> QED
  BY <1>3, <1>4 DEF Loads, Selected

(* The files that a restart finds tile their blocks. *)
LEMMA SoundTiles ==
    ASSUME FsInv
    PROVE  FilesTileBlocks
<1> SUFFICES ASSUME SomeValid, NEW l \in LBlock
             PROVE  LET here == {i \in Files : Selected.fmeta[i].lblock = l}
                    IN  /\ UNION {Extent(i) : i \in here}
                             = Start(l) .. Used(l, Selected.bmeta[l]) - 1
                        /\ \A i, j \in here : i # j => Extent(i) \cap Extent(j) = {}
  BY DEF FilesTileBlocks
<1>1. PICK fm, bm : fm = Selected.fmeta /\ bm = Selected.bmeta
  OBVIOUS
<1>2. GoodFiles(fm) /\ GoodBlocks(bm) /\ Tiled(bm, fm)
  BY <1>1, LoadedSound DEF Sound
<1>3. Files = Live(fm)
  BY <1>1 DEF Files, Live
<1>4. \A i \in Live(fm) : fm[i].idx \in Nat /\ fm[i].max \in Nat /\ fm[i].lblock \in LBlock
  BY <1>2, LiveFile DEF Live
<1>5. PICK here : here = {i \in Live(fm) : fm[i].lblock = l}
  OBVIOUS
<1>6. PICK r \in 0 .. BlockSize, st \in 0 .. BlockSize : r = bm[l].free /\ st = Start(l)
  BY <1>2, Blocks DEF GoodBlocks
<1>7. \A i : Extent(i) = fm[i].idx .. fm[i].idx + fm[i].max - 1
  BY <1>1 DEF Extent
<1>8. ASSUME NEW i \in here
      PROVE  Extent(i) \subseteq st .. BlockSize - r - 1
  <2>1. st <= fm[i].idx /\ fm[i].idx + fm[i].max + r <= BlockSize
    BY <1>2, <1>5, <1>6 DEF Tiled
  <2>2. PICK x \in Nat, n \in Nat : x = fm[i].idx /\ n = fm[i].max
    BY <1>4, <1>5
  <2>3. x .. x + n - 1 \subseteq st .. BlockSize - r - 1
    BY <2>1, <2>2, <1>6, ConfigAssumption
  <2> QED
    BY <2>2, <2>3, <1>7
<1>9. ASSUME NEW p \in st .. BlockSize - r - 1
      PROVE  \E i \in here : p \in Extent(i)
  <2>1. PICK i \in Live(fm) : Covers(fm[i], l, p)
    BY <1>2, <1>6 DEF Tiled
  <2>2. i \in here /\ fm[i].idx <= p /\ p < fm[i].idx + fm[i].max
    BY <2>1, <1>5 DEF Covers
  <2>3. PICK x \in Nat, n \in Nat : x = fm[i].idx /\ n = fm[i].max
    BY <1>4
  <2>4. p \in x .. x + n - 1
    BY <2>2, <2>3, <1>6, ConfigAssumption
  <2> QED
    BY <2>2, <2>3, <2>4, <1>7
<1>10. UNION {Extent(i) : i \in here} = st .. BlockSize - r - 1
  BY <1>8, <1>9
<1>11. ASSUME NEW i \in here, NEW j \in here, i # j
       PROVE  Extent(i) \cap Extent(j) = {}
  <2>1. Apart(fm[i], fm[j])
    BY <1>2, <1>5, <1>11 DEF Tiled
  <2>2. PICK x \in Nat, n \in Nat : x = fm[i].idx /\ n = fm[i].max
    BY <1>4, <1>5
  <2>3. PICK y \in Nat, m \in Nat : y = fm[j].idx /\ m = fm[j].max
    BY <1>4, <1>5
  <2>4. x + n <= y \/ y + m <= x
    BY <2>1, <2>2, <2>3, <1>5 DEF Apart
  <2>5. (x .. x + n - 1) \cap (y .. y + m - 1) = {}
    BY <2>2, <2>3, <2>4
  <2> QED
    BY <2>2, <2>3, <2>5, <1>7
<1>12. Start(l) .. Used(l, Selected.bmeta[l]) - 1 = st .. BlockSize - r - 1
  BY <1>1, <1>6 DEF Used
<1> QED
  BY <1>1, <1>3, <1>5, <1>10, <1>11, <1>12

(* A file marked for deletion has its successor in place. *)
LEMMA SoundReplace ==
    ASSUME FsInv
    PROVE  ReplaceKeepsOne
<1> SUFFICES ASSUME SomeValid
             PROVE  /\ \A i \in Files : Flagged(i) =>
                         \E j \in Files :
                           Selected.fmeta[j].id = Selected.fmeta[i].id /\ ~Flagged(j)
                    /\ \A i, j \in Files :
                         i # j /\ Flagged(i) = Flagged(j) =>
                           Selected.fmeta[i].id # Selected.fmeta[j].id /\ ~Flagged(i)
  BY DEF ReplaceKeepsOne
<1>1. PICK fm : fm = Selected.fmeta
  OBVIOUS
<1>2. OneEach(fm)
  BY <1>1, LoadedSound DEF Sound
<1>3. Files = Live(fm) /\ \A i : Flagged(i) <=> Marked(fm[i])
  BY <1>1 DEF Files, Live, Flagged, Marked
<1>4. \A i \in Live(fm) : Marked(fm[i]) =>
        \E j \in Live(fm) : fm[j].id = fm[i].id /\ ~Marked(fm[j])
  BY <1>2 DEF OneEach
<1>5. ASSUME NEW i \in Live(fm), NEW j \in Live(fm), i # j, Marked(fm[i]) <=> Marked(fm[j])
      PROVE  fm[i].id # fm[j].id /\ ~Marked(fm[i])
  BY <1>2, <1>5 DEF OneEach
<1> QED
  BY <1>1, <1>3, <1>4, <1>5

(* An entry is free between calls. *)
LEMMA SoundSpare ==
    ASSUME FsInv
    PROVE  SpareEntryFree
<1> SUFFICES ASSUME pc = "ready" PROVE \E i \in FileIdx : File(i).id = NoFid
  BY DEF SpareEntryFree
<1>1. NoneMarked(FM) /\ Running
  BY CleanState
<1>2. Spared(FM) /\ \A i \in FileIdx : File(i) = FM[i]
  BY <1>1, RunningState DEF Sound
<1> QED
  BY <1>1, <1>2 DEF Spared, NoneMarked, Live

(* The block table that a restart finds is one to one. *)
LEMMA SoundMapped ==
    ASSUME FsInv
    PROVE  BlocksMapped
<1> SUFFICES ASSUME SomeValid
             PROVE  /\ Selected.bmeta[0].phy = ActiveMetaBlock
                    /\ NumBlocks > 2 =>
                         {Selected.hdr.scratch} \cup {Selected.bmeta[l].phy : l \in LBlock \ {0}}
                           = 2 .. NumBlocks - 1
  BY DEF BlocksMapped
<1>1. PICK bm, sp : bm = Selected.bmeta /\ sp = Selected.hdr.scratch
  OBVIOUS
<1>2. Mapped(ActiveMetaBlock, bm, sp)
  BY <1>1, LoadedSound DEF Sound
<1>3. bm[0].phy = ActiveMetaBlock
  BY <1>2 DEF Mapped
<1>4. ASSUME NumBlocks > 2
      PROVE  {sp} \cup {bm[l].phy : l \in LBlock \ {0}} = 2 .. NumBlocks - 1
  <2>1. \A l \in LBlock \ {0} : bm[l].phy \in 2 .. NumBlocks - 1
    BY <1>2 DEF Mapped
  <2>2. sp \in 2 .. NumBlocks - 1
    BY <1>2, <1>4 DEF Mapped
  <2>3. \A p \in 2 .. NumBlocks - 1 : p = sp \/ \E l \in LBlock \ {0} : bm[l].phy = p
    BY <1>2, <1>4 DEF Mapped
  <2> QED
    BY <2>1, <2>2, <2>3, Zenon
<1> QED
  BY <1>1, <1>3, <1>4

(* The file tables stay sound: whatever clients set and remove, and        *)
(* wherever power fails, the table that a restart loads has files that     *)
(* tile their blocks, at most one file marked for deletion, whose          *)
(* successor is in place, and a free entry between calls.  The flash is    *)
(* not one of the previous version, no asset is empty, and a replace finds *)
(* room: one that does not leaves the scratch block programmed, and the    *)
(* next update writes over it.                                             *)
THEOREM TablesStaySound ==
    ASSUME ~LegacyImage, 0 \notin Sizes
    PROVE  Spec /\ []ReplaceHasRoom => []TableSound
<1>1. Init => FsInv
  BY FsInit
<1>2. FsInv /\ ReplaceHasRoom /\ [Next]_vars => FsInv'
  BY FsNext
<1>3. FsInv => TableSound
  BY SoundTiles, SoundReplace, SoundSpare DEF TableSound, FsInv
<1> QED
  BY <1>1, <1>2, <1>3, PTL DEF Spec

(* The logical blocks stay mapped one to one: block 0 lies in the metadata *)
(* block that describes it, and the dedicated blocks and the spare one     *)
(* share out the data blocks, across every swap with the spare.            *)
THEOREM MappingStaysSound ==
    ASSUME ~LegacyImage, 0 \notin Sizes
    PROVE  Spec /\ []ReplaceHasRoom => []BlocksMapped
<1>1. Init => FsInv
  BY FsInit
<1>2. FsInv /\ ReplaceHasRoom /\ [Next]_vars => FsInv'
  BY FsNext
<1>3. FsInv => BlocksMapped
  BY SoundMapped
<1> QED
  BY <1>1, <1>2, <1>3, PTL DEF Spec
-----------------------------------------------------------------------------
(* The file system implements the store *)

(* What the store sees of the running call *)
ClientOf(c) ==
    CASE c.op \in {"set", "set_cleanup"} ->
           [op |-> "set", fid |-> c.fid, data |-> c.data, once |-> c.once]
      [] c.op = "remove" -> [op |-> "remove", fid |-> c.fid]
      [] OTHER -> None
Took(c, p) ==
    \/ c.op = "set_cleanup"
    \/ c.op \in {"set", "remove"} /\ p \in {"erase_meta", "erase_data"}

(* What the store sees of a call, by its operation. *)
LEMMA ClientOfOp ==
    ASSUME NEW c
    PROVE  /\ c.op \in {"set", "set_cleanup"} =>
                ClientOf(c) = [op |-> "set", fid |-> c.fid, data |-> c.data, once |-> c.once]
           /\ c.op = "remove" => ClientOf(c) = [op |-> "remove", fid |-> c.fid]
           /\ c.op \notin {"set", "set_cleanup", "remove"} => ClientOf(c) = None
BY DEF ClientOf

(* The refinement mapping, before and after a step. *)
LEMMA StoreView ==
    /\ ClientCall = ClientOf(call) /\ ClientCall' = ClientOf(call')
    /\ TookEffect <=> Took(call, pc)
    /\ TookEffect' <=> Took(call', pc')
    /\ Stored = Served(mblk, cell) /\ Stored' = Served(mblk', cell')
<1>1. Stored = Served(mblk, cell)
  BY StoredServed
<1>2. Stored' = Served(mblk', cell')
  BY DEF Stored, SomeValid, ActiveMetaBlock, AssetsAt, ReadFile, Served, Chosen, Assets,
     LiveAs, Read
<1>3. ClientCall = ClientOf(call) /\ ClientCall' = ClientOf(call')
  BY DEF ClientCall, ClientOf
<1>4. (TookEffect <=> Took(call, pc)) /\ (TookEffect' <=> Took(call', pc'))
  BY DEF TookEffect, Took
<1> QED
  BY <1>1, <1>2, <1>3, <1>4

Hidden ==
    /\ Served(mblk', cell') = Served(mblk, cell) /\ ClientOf(call') = ClientOf(call)
    /\ Took(call', pc') <=> Took(call, pc)
    /\ reply' = reply

(* A hidden step leaves what the store sees. *)
LEMMA HiddenStutters ==
    ASSUME Hidden
    PROVE  UNCHANGED Abstract!vars
<1>1. Stored' = Stored /\ ClientCall' = ClientCall
  BY StoreView DEF Hidden
<1>2. TookEffect' = TookEffect
  BY DEF Hidden, Took, TookEffect
<1> QED
  BY <1>1, <1>2 DEF Hidden, Abstract!vars

(* A client's call is never None. *)
LEMMA ClientType ==
    ASSUME NEW f \in Fid, NEW d \in Contents, NEW o \in BOOLEAN
    PROVE  /\ [op |-> "set", fid |-> f, data |-> d, once |-> o] # None
           /\ [op |-> "remove", fid |-> f] # None
           /\ [op |-> "set", fid |-> f, data |-> d, once |-> o] \in Abstract!Call
           /\ [op |-> "remove", fid |-> f] \in Abstract!Call
<1>1. /\ [op |-> "set", fid |-> f, data |-> d, once |-> o]
            \in [op : {"set"}, fid : Fid, data : Contents, once : BOOLEAN]
      /\ [op |-> "remove", fid |-> f] \in [op : {"remove"}, fid : Fid]
  OBVIOUS
<1> QED
  BY <1>1, ClientAssumption DEF Abstract!Call

(* While no file is marked, the file found for an id is its asset. *)
LEMMA FoundAsset ==
    ASSUME FsInv, Running, NoneMarked(FM), NEW f \in Fid
    PROVE  /\ ~Unreadable(IdxOf(f))
           /\ IdxOf(f) = NoIdx => Served(mblk, cell)[f] = None
           /\ IdxOf(f) # NoIdx =>
                /\ Served(mblk, cell)[f] # None
                /\ Served(mblk, cell)[f]
                     = [data |-> ReadFile(mblk[Active], File(IdxOf(f))),
                        once |-> "WRITE_ONCE" \in File(IdxOf(f)).flags]
                /\ Served(mblk, cell)[f].once <=> Once(IdxOf(f))
<1>1. PICK bm, fm, c : bm = BM /\ fm = FM /\ c = cell
  OBVIOUS
<1>2. /\ GoodFiles(fm) /\ OneEach(fm) /\ Whole(bm, fm, c)
      /\ \A i \in FileIdx : ValidFile(File(i)) /\ File(i) = fm[i]
      /\ Active \in MetaBlock /\ MetaOK(mblk) /\ Loads(mblk, cell, Active)
  BY <1>1, RunningState DEF Sound
<1>3. Served(mblk, cell) = Assets(bm, fm, c)
  BY <1>1, <1>2, LoadsChosen DEF BM, FM
<1>4. PICK i : i = IdxOf(f)
  OBVIOUS
<1>5. /\ ~Unreadable(i)
      /\ \/ i = NoIdx /\ \A k \in FileIdx : File(k).id # f
         \/ i \in FileIdx /\ i # NoIdx /\ File(i).id = f
  BY <1>2, <1>4, IdxOfFinds
<1>6. CASE i = NoIdx
  <2>1. \A k \in FileIdx : fm[k].id # f
    BY <1>2, <1>5, <1>6
  <2>2. Assets(bm, fm, c)[f] = None
    BY <2>1, <1>2, AssetOf
  <2> QED
    BY <2>2, <1>3, <1>4, <1>5, <1>6
<1>7. CASE i # NoIdx
  <2>1. i \in FileIdx /\ fm[i].id = f /\ File(i) = fm[i]
    BY <1>2, <1>5, <1>7
  <2>2. i \in Live(fm) /\ ~Marked(fm[i])
    BY <2>1, <1>1, EmptyFileType DEF Live, NoneMarked
  <2>3. Assets(bm, fm, c)[f] = [data |-> Read(bm, fm[i], c), once |-> "WRITE_ONCE" \in fm[i].flags]
    BY <2>1, <2>2, <1>2, AssetOf
  <2>4. ReadFile(mblk[Active], File(i)) = Read(bm, fm[i], c)
    BY <2>1, <1>1 DEF ReadFile, Read, BM
  <2>5. PICK d \in Contents : d = Read(bm, fm[i], c)
    BY <2>2, <1>2 DEF Whole
  <2>6. PICK r : r = Served(mblk, cell)[f]
    OBVIOUS
  <2>7. r = [data |-> d, once |-> "WRITE_ONCE" \in fm[i].flags]
    BY <2>3, <2>5, <2>6, <1>3
  <2>8. r.once = ("WRITE_ONCE" \in fm[i].flags)
    BY ONLY <2>7
  <2>9. r \in [data : Contents, once : BOOLEAN]
    BY <2>7
  <2>10. r # None
    BY <2>9, ClientAssumption
  <2>11. r.once <=> Once(i)
    BY <2>1, <2>8, <1>7 DEF Once
  <2> QED
    BY <2>1, <2>4, <2>5, <2>6, <2>7, <2>10, <2>11, <1>4, <1>5, <1>7
<1> QED
  BY <1>6, <1>7

(* The store takes a set. *)
LEMMA SetRequests ==
    ASSUME FsInv, NEW f \in Fid, NEW d \in Contents, NEW o \in OnceFlags, Set(f, d, o)
    PROVE  Abstract!Request
<1>1. /\ pc = "ready" /\ pc' = "set" /\ reply' = << >>
      /\ call' = [op |-> "set", fid |-> f, data |-> d, once |-> o, old |-> NoIdx]
  BY DEF Set
<1>2. Served(mblk', cell') = Served(mblk, cell)
  BY SetStarts DEF Keeps
<1>3. call = [op |-> "none"]
  BY <1>1 DEF FsInv, CallInv
<1>4. o \in BOOLEAN
  BY ClientAssumption
<1>5. /\ call'.op = "set" /\ call'.fid = f /\ call'.data = d /\ call'.once = o /\ call.op = "none"
  BY <1>1, <1>3
<1>6. ClientOf(call) = None /\ ClientOf(call') = [op |-> "set", fid |-> f, data |-> d, once |-> o]
  BY <1>5, ClientOfOp
<1>7. ClientCall = None /\ ClientCall' \in Abstract!Call /\ Stored' = Stored
  BY <1>2, <1>4, <1>6, StoreView, ClientType
<1>8. TookEffect' = TookEffect
  BY <1>1, <1>5 DEF TookEffect
<1> QED
  BY <1>1, <1>7, <1>8 DEF Abstract!Request

(* The store takes a remove. *)
LEMMA RemoveRequests ==
    ASSUME FsInv, NEW f \in Fid, Remove(f)
    PROVE  Abstract!Request
<1>1. /\ pc = "ready" /\ pc' = "remove" /\ reply' = << >>
      /\ call' = [op |-> "remove", fid |-> f, old |-> NoIdx]
  BY DEF Remove
<1>2. Served(mblk', cell') = Served(mblk, cell)
  BY RemoveStarts DEF Keeps
<1>3. call = [op |-> "none"]
  BY <1>1 DEF FsInv, CallInv
<1>4. /\ call'.op = "remove" /\ call'.fid = f /\ call.op = "none"
  BY <1>1, <1>3
<1>5. ClientOf(call) = None /\ ClientOf(call') = [op |-> "remove", fid |-> f]
  BY <1>4, ClientOfOp
<1>6. ClientCall = None /\ ClientCall' \in Abstract!Call /\ Stored' = Stored
  BY <1>2, <1>5, StoreView DEF Abstract!Call
<1>7. TookEffect' = TookEffect
  BY <1>1, <1>4 DEF TookEffect
<1> QED
  BY <1>1, <1>6, <1>7 DEF Abstract!Request

(* A get returns the last contents that were stored. *)
LEMMA GetReads ==
    ASSUME FsInv, NEW f \in Fid, Get(f)
    PROVE  Abstract!Get(f)
<1>1. pc = "ready" /\ UNCHANGED <<mblk, cell, ctx, call, pc>>
  BY DEF Get
<1>2. Running /\ NoneMarked(FM)
  BY <1>1, CleanState
<1>3. call = [op |-> "none"]
  BY <1>1 DEF FsInv, CallInv
<1>4. ClientOf(call) = None
  BY <1>3, ClientOfOp
<1>5. ClientCall = None /\ ClientCall' = ClientCall /\ Stored' = Stored
      /\ Stored = Served(mblk, cell)
  BY <1>1, <1>4, StoreView
<1>6. TookEffect' = TookEffect
  BY <1>1 DEF TookEffect
<1>7. reply' = IF Served(mblk, cell)[f] = None THEN <<"does_not_exist">>
               ELSE <<"asset", Served(mblk, cell)[f]>>
  <2>1. CASE IdxOf(f) = NoIdx
    BY <2>1, <1>2, FoundAsset DEF Get
  <2>2. CASE IdxOf(f) # NoIdx
    BY <2>2, <1>2, FoundAsset DEF Get
  <2> QED
    BY <2>1, <2>2
<1> QED
  BY <1>5, <1>6, <1>7 DEF Abstract!Get

(* A power failure ends the call and keeps the assets. *)
LEMMA FailureEnds ==
    ASSUME PowerLost, Served(mblk', cell') = Served(mblk, cell)
    PROVE  Abstract!PowerFail
<1>1. call' = [op |-> "none"] /\ reply' = << >>
  BY DEF PowerLost, NoCall
<1>2. ClientOf(call') = None /\ call'.op = "none"
  BY <1>1, ClientOfOp
<1>3. ClientCall' = None /\ Stored' = Stored
  BY <1>2, StoreView
<1>4. TookEffect' = FALSE
  BY <1>2 DEF TookEffect
<1> QED
  BY <1>1, <1>3, <1>4 DEF Abstract!PowerFail

(* A call that fails, fails in the store, for the reason the store allows. *)
LEMMA FailFails ==
    ASSUME NEW e \in {"not_permitted", "does_not_exist", "failed"}, Fail(e),
           Served(mblk', cell') = Served(mblk, cell), ~Took(call, pc),
           ClientOf(call) # None,
           e = "not_permitted" =>
             /\ Served(mblk, cell)[ClientOf(call).fid] # None
             /\ Served(mblk, cell)[ClientOf(call).fid].once,
           e = "does_not_exist" =>
             ClientOf(call).op = "remove" /\ Served(mblk, cell)[ClientOf(call).fid] = None,
           e = "failed" => ClientOf(call).op = "set"
    PROVE  Abstract!Next
<1>1. call' = [op |-> "none"] /\ reply' = <<e>>
  BY DEF Fail, NoCall
<1>2. ClientOf(call') = None /\ call'.op = "none"
  BY <1>1, ClientOfOp
<1>3. ClientCall' = None /\ Stored' = Stored /\ ClientCall = ClientOf(call)
      /\ Stored = Served(mblk, cell)
  BY <1>2, StoreView
<1>4. TookEffect' = TookEffect /\ ~TookEffect
  BY <1>2, StoreView DEF TookEffect
<1>5. Abstract!Reject(e)
  BY <1>1, <1>3, <1>4 DEF Abstract!Reject, Abstract!WriteOnce
<1>6. e \in Abstract!ErrorCode
  BY DEF Abstract!ErrorCode
<1> QED
  BY <1>5, <1>6 DEF Abstract!Next

(* The steps that the store does not see *)
LEMMA BootHidden ==
    ASSUME FsInv, Boot \/ Format \/ BootCleanup
    PROVE  Hidden
<1>1. Served(mblk', cell') = Served(mblk, cell)
  BY BootStep, FormatStep, BootCleanupStep DEF Keeps
<1>2. reply' = reply
  BY DEF Boot, Format, BootCleanup
<1>3. call.op \in {"none", "format", "boot"}
  BY DEF FsInv, CallInv, Running, Boot, Format, BootCleanup
<1>4. call'.op \in {"none", "format", "boot", "cleanup"}
  BY <1>3 DEF Boot, Format, BootCleanup, NoCall
<1>5. ClientOf(call) = None /\ ClientOf(call') = None
  BY <1>3, <1>4, ClientOfOp
<1>6. ~Took(call, pc) /\ ~Took(call', pc')
  BY <1>3, <1>4 DEF Took
<1> QED
  BY <1>1, <1>2, <1>5, <1>6 DEF Hidden

(* Writing and erasing scratch blocks is hidden. *)
LEMMA WorkHidden ==
    ASSUME FsInv, WriteMeta \/ EraseMeta \/ DeleteMeta \/ Compact, 0 \notin Sizes
    PROVE  Hidden
<1>1. Served(mblk', cell') = Served(mblk, cell)
  BY WriteMetaStep, EraseMetaStep, DeleteMetaStep, CompactStep DEF Keeps
<1>2. reply' = reply /\ call' = call
  BY Zenon DEF WriteMeta, EraseMeta, DeleteMeta, Compact
<1>3. pc \in {"erase_meta", "erase_data"} <=> pc' \in {"erase_meta", "erase_data"}
  BY Zenon DEF WriteMeta, EraseMeta, DeleteMeta, Compact
<1> QED
  BY <1>1, <1>2, <1>3 DEF Hidden, Took

(* Writing the data of a set is hidden. *)
LEMMA WriteDataHidden ==
    ASSUME FsInv, WriteData, 0 \notin Sizes
    PROVE  Hidden
<1>1. Served(mblk', cell') = Served(mblk, cell)
  BY WriteDataStep DEF Keeps
<1>2. reply' = reply /\ pc = "data" /\ pc' = "meta"
  BY DEF WriteData
<1>3. call \in PlacedCall /\ call.op = "set"
  BY <1>2, PlacedState
<1>4. /\ call'.op = call.op /\ call'.fid = call.fid /\ call'.data = call.data
      /\ call'.once = call.once
  <2>1. CASE call' = call
    BY <2>1
  <2>2. CASE call' # call
    <3>1. PICK n, to : call' = [call EXCEPT !.meta.cur = n, !.bm.phy = to]
      BY <2>2 DEF WriteData
    <3>2. PICK m2, b2 : m2 = [call.meta EXCEPT !.cur = n] /\ b2 = [call.bm EXCEPT !.phy = to]
      OBVIOUS
    <3>3. call' = [[call EXCEPT !.meta = m2] EXCEPT !.bm = b2]
      BY <3>1, <3>2, <1>3 DEF PlacedCall
    <3> QED
      BY <3>3, <1>3 DEF PlacedCall
  <2> QED
    BY <2>1, <2>2
<1>5. ClientOf(call') = ClientOf(call)
  BY <1>3, <1>4, ClientOfOp
<1> QED
  BY <1>1, <1>2, <1>3, <1>4, <1>5 DEF Hidden, Took

(* A remove fails in the store when it may, or goes on. *)
LEMMA StartRemoveStore ==
    ASSUME FsInv, StartRemove
    PROVE  Hidden \/ Abstract!Next
<1>1. pc = "remove" /\ Served(mblk', cell') = Served(mblk, cell)
  BY StartRemoveStep DEF StartRemove, Keeps
<1>2. Running /\ NoneMarked(FM)
  BY <1>1, CleanState
<1>3. call \in RemoveCall
  BY <1>1 DEF FsInv, CallInv
<1>4. PICK f \in Fid : f = call.fid /\ call.op = "remove"
  BY <1>3 DEF RemoveCall
<1>5. PICK cl : cl = [op |-> "remove", fid |-> f]
  OBVIOUS
<1>6. ClientOf(call) = cl /\ cl # None /\ cl.op = "remove" /\ cl.fid = f
  <2>1. cl \in [op : {"remove"}, fid : Fid]
    BY <1>5
  <2> QED
    BY <2>1, <1>4, <1>5, ClientOfOp, ClientAssumption
<1>7. ~Took(call, pc)
  BY <1>1, <1>4 DEF Took
<1>8. PICK i : i = IdxOf(f)
  OBVIOUS
<1>9. ~Unreadable(i)
  BY <1>2, <1>8, FoundAsset
<1>10. CASE i = NoIdx /\ Fail("does_not_exist")
  <2>1. Served(mblk, cell)[f] = None
    BY <1>2, <1>8, <1>10, FoundAsset
  <2> QED
    BY <2>1, <1>1, <1>6, <1>7, <1>10, FailFails
<1>11. CASE Once(i) /\ Fail("not_permitted")
  <2>1. i # NoIdx
    BY <1>11 DEF Once
  <2>2. Served(mblk, cell)[f] # None /\ Served(mblk, cell)[f].once
    BY <2>1, <1>2, <1>8, <1>11, FoundAsset
  <2> QED
    BY <2>2, <1>1, <1>6, <1>7, <1>11, FailFails
<1>12. CASE pc' = "delete" /\ call' = [call EXCEPT !.old = i] /\ reply' = reply
  <2>1. call'.op = "remove" /\ call'.fid = f
    BY <1>3, <1>4, <1>12 DEF RemoveCall
  <2>2. ClientOf(call') = cl
    BY <2>1, <1>5, ClientOfOp
  <2>3. ~Took(call', pc')
    BY <2>1, <1>12 DEF Took
  <2> QED
    BY <2>2, <2>3, <1>1, <1>6, <1>7, <1>12 DEF Hidden
<1> QED
  BY <1>4, <1>8, <1>9, <1>10, <1>11, <1>12 DEF StartRemove

(* The call of a set, as the store sees it *)
LEMMA SetClient ==
    ASSUME NEW c, c.op \in {"set", "set_cleanup"}, c.fid \in Fid, c.data \in Contents,
           c.once \in BOOLEAN
    PROVE  /\ ClientOf(c) = [op |-> "set", fid |-> c.fid, data |-> c.data, once |-> c.once]
           /\ ClientOf(c) # None /\ ClientOf(c).op = "set" /\ ClientOf(c).fid = c.fid
           /\ ClientOf(c).data = c.data /\ ClientOf(c).once = c.once
<1>1. PICK f \in Fid, d \in Contents, o \in BOOLEAN : f = c.fid /\ d = c.data /\ o = c.once
  OBVIOUS
<1>2. PICK cl : cl = [op |-> "set", fid |-> f, data |-> d, once |-> o]
  OBVIOUS
<1>3. cl = ClientOf(c) /\ cl # None
  BY <1>1, <1>2, ClientOfOp, ClientType
<1>4. cl.op = "set" /\ cl.fid = f /\ cl.data = d /\ cl.once = o
  BY ONLY <1>2
<1> QED
  BY <1>1, <1>2, <1>3, <1>4

(* A set fails in the store when it may, or goes on. *)
LEMMA StartSetStore ==
    ASSUME FsInv, StartSet, 0 \notin Sizes
    PROVE  Hidden \/ Abstract!Next
<1>1. pc = "set" /\ Served(mblk', cell') = Served(mblk, cell)
  BY StartSetStep DEF StartSet, Keeps
<1>2. Running /\ NoneMarked(FM)
  BY <1>1, CleanState
<1>3. call \in SetCall
  BY <1>1 DEF FsInv, CallInv
<1>4. /\ call.op = "set" /\ call.fid \in Fid /\ call.data \in Contents /\ call.once \in BOOLEAN
  BY <1>3 DEF SetCall
<1>5. PICK f, i : f \in Fid /\ f = call.fid /\ i = IdxOf(f)
  BY <1>4
<1>6. ClientOf(call) # None /\ ClientOf(call).op = "set" /\ ClientOf(call).fid = f
  BY <1>4, <1>5, SetClient
<1>7. ~Took(call, pc)
  BY <1>1, <1>4 DEF Took
<1>8. ~Unreadable(i)
  BY <1>2, <1>5, FoundAsset
<1>9. CASE Once(i) /\ Fail("not_permitted")
  <2>1. i # NoIdx
    BY <1>9 DEF Once
  <2>2. Served(mblk, cell)[f] # None /\ Served(mblk, cell)[f].once
    BY <2>1, <1>2, <1>5, <1>9, FoundAsset
  <2> QED
    BY <2>2, <1>1, <1>6, <1>7, <1>9, FailFails
<1>10. ASSUME call'.op = "set", call'.fid = call.fid, call'.data = call.data, call'.once = call.once,
              reply' = reply, pc' \in {"reserve", "data"}
       PROVE  Hidden
  <2>1. ClientOf(call') = ClientOf(call)
    BY <1>4, <1>10, ClientOfOp
  <2>2. ~Took(call', pc')
    BY <1>10 DEF Took
  <2> QED
    BY <2>1, <2>2, <1>1, <1>7, <1>10 DEF Hidden
<1>11. CASE pc' = "reserve" /\ call' = call /\ reply' = reply
  BY <1>4, <1>10, <1>11
<1>12. CASE pc' = "reserve" /\ call' = [call EXCEPT !.old = i] /\ reply' = reply
  <2>1. /\ call'.op = "set" /\ call'.fid = call.fid /\ call'.data = call.data
        /\ call'.once = call.once
    BY <1>3, <1>12 DEF SetCall
  <2> QED
    BY <2>1, <1>10, <1>12
<1>13. CASE /\ call' = Working([call EXCEPT !.old = i], i,
                               [File(i) EXCEPT !.cur = 0, !.flags = FlagsOf(call)],
                               BlockMeta(File(i).lblock))
            /\ pc' = "data" /\ reply' = reply
  <2>1. PICK c : c = [call EXCEPT !.old = i]
    OBVIOUS
  <2>2. c.op = "set" /\ c.fid = call.fid /\ c.data = call.data /\ c.once = call.once
    BY <2>1, <1>3 DEF SetCall
  <2>3. PICK m, b : call' = Working(c, i, m, b)
    BY <2>1, <1>13
  <2>4. call'.op = c.op /\ call'.fid = c.fid /\ call'.data = c.data /\ call'.once = c.once
    BY <2>3 DEF Working
  <2> QED
    BY <2>2, <2>4, <1>10, <1>13
<1> QED
  BY <1>5, <1>8, <1>9, <1>11, <1>12, <1>13 DEF StartSet

(* A set without room fails in the store, or goes on. *)
LEMMA ReserveStore ==
    ASSUME FsInv, Reserve, ReplaceHasRoom, 0 \notin Sizes
    PROVE  Hidden \/ Abstract!Next
<1>1. pc = "reserve" /\ Served(mblk', cell') = Served(mblk, cell)
  BY ReserveStep DEF Reserve, Keeps
<1>2. call \in SetCall
  BY <1>1 DEF FsInv, CallInv
<1>3. /\ call.op = "set" /\ call.fid \in Fid /\ call.data \in Contents /\ call.once \in BOOLEAN
  BY <1>2 DEF SetCall
<1>4. ClientOf(call) # None /\ ClientOf(call).op = "set"
  BY <1>3, SetClient
<1>5. ~Took(call, pc)
  BY <1>1, <1>3 DEF Took
<1>6. CASE Fail("failed")
  BY <1>1, <1>4, <1>5, <1>6, FailFails
<1>7. CASE ~Fail("failed")
  <2>1. pc' = "data" /\ reply' = reply
    BY <1>7 DEF Reserve
  <2>2. PICK i, m, b : call' = Working(call, i, m, b)
    BY <1>7 DEF Reserve
  <2>3. call'.op = "set" /\ call'.fid = call.fid /\ call'.data = call.data
        /\ call'.once = call.once
    BY <2>2, <1>3 DEF Working
  <2>4. ClientOf(call') = ClientOf(call)
    BY <2>3, <1>3, ClientOfOp
  <2>5. ~Took(call', pc')
    BY <2>1, <2>3 DEF Took
  <2> QED
    BY <2>1, <2>4, <2>5, <1>1, <1>5 DEF Hidden
<1> QED
  BY <1>6, <1>7

(* The commit of a set or remove is the step in which the store changes. *)
LEMMA WriteHeaderStore ==
    ASSUME FsInv, WriteHeader
    PROVE  Hidden \/ Abstract!Next
<1>1. /\ pc = "header" /\ pc' = "erase_meta" /\ call' = call
      /\ Commits(Served(mblk, cell), Served(mblk', cell'), FM')
  BY WriteHeaderStep
<1>2. reply' = reply
  BY DEF WriteHeader
<1>3. PICK before, after : before = Served(mblk, cell) /\ after = Served(mblk', cell')
  OBVIOUS
<1>4. call \in PlacedCall \cup RemoveCall \cup CleanupCall
  BY <1>1 DEF FsInv, CallInv
<1>5. Stored = before /\ Stored' = after /\ ClientCall = ClientOf(call)
      /\ ClientCall' = ClientCall
  BY <1>1, <1>3, StoreView
<1>6. CASE /\ call.op = "set" /\ (before[call.fid] # None => ~before[call.fid].once)
           /\ after = [before EXCEPT ![call.fid] = [data |-> call.data, once |-> call.once]]
  <2>1. call \in PlacedCall
    BY <1>4, <1>6 DEF RemoveCall, CleanupCall
  <2>2. call.fid \in Fid /\ call.data \in Contents /\ call.once \in BOOLEAN
    BY <2>1 DEF PlacedCall
  <2>3. /\ ClientCall # None /\ ClientCall.op = "set" /\ ClientCall.fid = call.fid
        /\ ClientCall.data = call.data /\ ClientCall.once = call.once
    BY <2>2, <1>5, <1>6, SetClient
  <2>4. ~TookEffect /\ TookEffect'
    BY <1>1, <1>6 DEF TookEffect
  <2>5. ~Abstract!WriteOnce(ClientCall.fid)
    BY <2>3, <1>5, <1>6 DEF Abstract!WriteOnce
  <2>6. Stored' = [Stored EXCEPT ![ClientCall.fid] =
                     IF ClientCall.op = "remove" THEN None
                     ELSE [data |-> ClientCall.data, once |-> ClientCall.once]]
    BY <2>3, <1>5, <1>6
  <2>7. Abstract!Effect
    BY <2>3, <2>4, <2>5, <2>6, <1>2, <1>5 DEF Abstract!Effect
  <2> QED
    BY <2>7 DEF Abstract!Next
<1>7. CASE /\ call.op = "remove" /\ before[call.fid] # None /\ ~before[call.fid].once
           /\ after = [before EXCEPT ![call.fid] = None]
  <2>1. call \in RemoveCall
    BY <1>4, <1>7 DEF PlacedCall, CleanupCall
  <2>2. PICK f \in Fid : f = call.fid
    BY <2>1 DEF RemoveCall
  <2>3. PICK cl : cl = [op |-> "remove", fid |-> f]
    OBVIOUS
  <2>4. ClientCall = cl /\ cl # None /\ cl.op = "remove" /\ cl.fid = f
    <3>1. cl \in [op : {"remove"}, fid : Fid]
      BY <2>3
    <3> QED
      BY <3>1, <2>2, <2>3, <1>5, <1>7, ClientOfOp, ClientAssumption
  <2>5. ~TookEffect /\ TookEffect'
    BY <1>1, <1>7 DEF TookEffect
  <2>6. ~Abstract!WriteOnce(ClientCall.fid) /\ Stored[ClientCall.fid] # None
    BY <2>2, <2>4, <1>5, <1>7 DEF Abstract!WriteOnce
  <2>7. Stored' = [Stored EXCEPT ![ClientCall.fid] =
                     IF ClientCall.op = "remove" THEN None
                     ELSE [data |-> ClientCall.data, once |-> ClientCall.once]]
    BY <2>2, <2>4, <1>5, <1>7
  <2>8. Abstract!Effect
    BY <2>4, <2>5, <2>6, <2>7, <1>2, <1>5 DEF Abstract!Effect
  <2> QED
    BY <2>8 DEF Abstract!Next
<1>8. CASE call.op \in {"cleanup", "set_cleanup"} /\ after = before
  <2>1. Took(call', pc') <=> Took(call, pc)
    BY <1>1, <1>8 DEF Took
  <2> QED
    BY <2>1, <1>1, <1>2, <1>3, <1>8 DEF Hidden
<1> QED
  BY <1>1, <1>3, <1>6, <1>7, <1>8 DEF Commits

(* A call returns in the store once its blocks are erased. *)
LEMMA EraseDataStore ==
    ASSUME FsInv, EraseData
    PROVE  Hidden \/ Abstract!Next
<1>1. pc = "erase_data" /\ Served(mblk', cell') = Served(mblk, cell)
  BY EraseDataStep DEF EraseData, Keeps
<1>2. call \in PlacedCall \cup RemoveCall \cup CleanupCall \cup {[op |-> "boot"]}
  BY <1>1 DEF FsInv, CallInv
<1>3. CASE /\ call.op \in {"boot", "upgraded"} /\ call' = call /\ reply' = reply
  BY <1>1, <1>3 DEF Hidden, Took
<1>4. CASE /\ call.op = "set" /\ call' = [call EXCEPT !.op = "set_cleanup"] /\ reply' = reply
  <2>1. call \in PlacedCall
    BY <1>2, <1>4 DEF RemoveCall, CleanupCall
  <2>2. /\ call'.op = "set_cleanup" /\ call'.fid = call.fid /\ call'.data = call.data
        /\ call'.once = call.once
    BY <2>1, <1>4 DEF PlacedCall
  <2>3. ClientOf(call') = ClientOf(call)
    <3>1. ClientOf(call) = [op |-> "set", fid |-> call.fid, data |-> call.data,
                            once |-> call.once]
      BY <1>4, ClientOfOp
    <3>2. ClientOf(call') = [op |-> "set", fid |-> call'.fid, data |-> call'.data,
                             once |-> call'.once]
      BY <2>2, ClientOfOp
    <3> QED
      BY <3>1, <3>2, <2>2
  <2>4. Took(call', pc') /\ Took(call, pc)
    BY <2>2, <1>1, <1>4 DEF Took
  <2> QED
    BY <2>3, <2>4, <1>1, <1>4 DEF Hidden
<1>5. CASE call.op = "cleanup" /\ call' = NoCall /\ reply' = reply
  <2>1. call'.op = "none"
    BY <1>5 DEF NoCall
  <2>2. ClientOf(call') = None /\ ClientOf(call) = None
    BY <2>1, <1>5, ClientOfOp
  <2>3. ~Took(call', pc') /\ ~Took(call, pc)
    BY <2>1, <1>5 DEF Took
  <2> QED
    BY <2>2, <2>3, <1>1, <1>5 DEF Hidden
<1>6. CASE call.op \in {"remove", "set_cleanup", "set"} /\ call' = NoCall /\ reply' = <<"ok">>
  <2>1. call'.op = "none"
    BY <1>6 DEF NoCall
  <2>2. ClientOf(call') = None
    BY <2>1, ClientOfOp
  <2>3. ClientOf(call) # None
    <3>1. CASE call.op = "remove"
      <4>1. call.fid \in Fid
        BY <3>1, <1>2 DEF PlacedCall, RemoveCall, CleanupCall
      <4>2. PICK cl : cl = [op |-> "remove", fid |-> call.fid]
        OBVIOUS
      <4>3. cl \in [op : {"remove"}, fid : Fid]
        BY <4>1, <4>2
      <4> QED
        BY <3>1, <4>2, <4>3, ClientOfOp, ClientAssumption
    <3>2. CASE call.op \in {"set", "set_cleanup"}
      <4>1. call \in PlacedCall
        BY <3>2, <1>2 DEF RemoveCall, CleanupCall
      <4>2. call.fid \in Fid /\ call.data \in Contents /\ call.once \in BOOLEAN
        BY <4>1 DEF PlacedCall
      <4> QED
        BY <3>2, <4>2, SetClient
    <3> QED
      BY <3>1, <3>2, <1>6
  <2>4. ClientCall # None /\ ClientCall' = None /\ Stored' = Stored
    BY <2>2, <2>3, <1>1, StoreView
  <2>5. TookEffect /\ TookEffect' = FALSE
    BY <2>1, <1>1, <1>6 DEF TookEffect
  <2>6. Abstract!Return
    BY <2>4, <2>5, <1>6 DEF Abstract!Return
  <2> QED
    BY <2>6 DEF Abstract!Next
<1> QED
  BY <1>3, <1>4, <1>5, <1>6 DEF EraseData

(* Every step is a step of the store or hidden from it. *)
LEMMA StoreStep ==
    ASSUME FsInv, [Next]_vars, ReplaceHasRoom, 0 \notin Sizes
    PROVE  [Abstract!Next]_(Abstract!vars)
<1>1. CASE System
  <2>1. ~Upgrade
    BY DEF FsInv, CallInv, Upgrade
  <2>2. Hidden \/ Abstract!Next
    BY <1>1, <2>1, BootHidden, WorkHidden, WriteDataHidden, StartRemoveStore, StartSetStore,
       ReserveStore, WriteHeaderStore, EraseDataStore DEF System
  <2> QED
    BY <2>2, HiddenStutters
<1>2. CASE \E f \in Fid, d \in Contents, once \in OnceFlags : Set(f, d, once)
  BY <1>2, SetRequests DEF Abstract!Next
<1>3. CASE \E f \in Fid : Remove(f) \/ Get(f)
  BY <1>3, RemoveRequests, GetReads DEF Abstract!Next
<1>4. CASE PowerFail
  <2>1. PowerLost /\ Served(mblk', cell') = Served(mblk, cell)
    BY <1>4, CrashStep, CrashInMetaStep, CrashInDataStep, CrashInFormatStep
       DEF PowerFail, Keeps, Crash, CrashInMeta, CrashInData, CrashInFormat
  <2> QED
    BY <2>1, FailureEnds DEF Abstract!Next
<1>5. CASE UNCHANGED vars
  <2>1. Hidden
    BY <1>5 DEF vars, Hidden, Took
  <2> QED
    BY <2>1, HiddenStutters
<1> QED
  BY <1>1, <1>2, <1>3, <1>4, <1>5 DEF Next

(* The file system implements the store: each set and remove takes effect  *)
(* in one indivisible, durable step, the programming of its header; a      *)
(* power failure leaves the assets before or after that step, whatever     *)
(* flash operation it interrupts; a call that fails leaves them as they    *)
(* were; and a get returns the last contents that were stored.             *)
THEOREM FileSystemIsStore ==
    ASSUME ~LegacyImage, 0 \notin Sizes
    PROVE  Spec /\ []ReplaceHasRoom => ImplementsStore
<1>1. Init => FsInv
  BY FsInit
<1>2. FsInv /\ ReplaceHasRoom /\ [Next]_vars => FsInv'
  BY FsNext
<1>3. Init => Abstract!Init
  <2> SUFFICES ASSUME Init PROVE Abstract!Init
    OBVIOUS
  <2>1. Stored = [f \in Fid |-> None]
    BY FsInit
  <2>2. call = [op |-> "none"] /\ reply = << >>
    BY DEF Init, NoCall
  <2>3. ClientCall = None
    BY <2>2, ClientOfOp, StoreView
  <2>4. TookEffect = FALSE
    BY <2>2 DEF TookEffect
  <2> QED
    BY <2>1, <2>2, <2>3, <2>4 DEF Abstract!Init
<1>4. FsInv /\ ReplaceHasRoom /\ [Next]_vars => [Abstract!Next]_(Abstract!vars)
  BY StoreStep
<1> QED
  BY <1>1, <1>2, <1>3, <1>4, PTL DEF Spec, ImplementsStore, Abstract!Spec
-----------------------------------------------------------------------------
(* A configuration with room *)

(* The cells at which an asset of k cells can begin *)
Beginnings(k) == UNION {{l} \X (Start(l) .. BlockSize - k) : l \in LBlock}

(* There are more of them than all the other assets, of k cells at most,   *)
(* can cover.                                                              *)
Roomy(k) ==
    /\ k <= MaxFileSize /\ \A n \in Sizes : n <= k
    /\ (MaxNumFiles - 1) * k < Cardinality(Beginnings(k))

(* Sequences with the same indices have the same length. *)
LEMMA SameEnd ==
    ASSUME NEW m \in Nat, NEW n \in Nat, 1 .. m = 1 .. n
    PROVE  m = n
OBVIOUS

(* A file has the size of some asset that a client has stored. *)
LEMMA FileSizes ==
    ASSUME NEW bm, NEW fm, NEW c, GoodFiles(fm), Whole(bm, fm, c), NEW i \in Live(fm)
    PROVE  fm[i].max \in Sizes
<1>1. PICK n \in Nat : n = fm[i].cur /\ n = fm[i].max
  BY LiveFile DEF GoodFiles, Live
<1>2. Read(bm, fm[i], c) \in Contents
  BY DEF Whole
<1>3. PICK h \in Sizes, v \in Value : Read(bm, fm[i], c) = [j \in 1 .. h |-> <<v, j>>]
  BY <1>2 DEF Contents
<1>4. 1 .. n = 1 .. h
  <2>1. DOMAIN Read(bm, fm[i], c) = 1 .. n
    BY <1>1 DEF Read
  <2> QED
    BY <2>1, <1>3
<1>5. h \in Nat
  BY ClientAssumption
<1>6. n = h
  BY <1>1, <1>4, <1>5, SameEnd
<1> QED
  BY <1>1, <1>6

(* When every block has less than k cells free, the cells at which an      *)
(* asset could begin are all taken, by at most MaxNumFiles - 1 files.      *)
LEMMA FullBlocks ==
    ASSUME NEW k \in Nat, NEW bm, NEW fm, GoodFiles(fm), GoodBlocks(bm), Tiled(bm, fm),
           \A i \in Live(fm) : fm[i].max <= k,
           NEW z \in FileIdx, fm[z].id = NoFid,
           \A l \in LBlock : bm[l].free < k
    PROVE  /\ Cardinality(Beginnings(k)) \in Nat
           /\ Cardinality(Beginnings(k)) <= (MaxNumFiles - 1) * k
<1> DEFINE Taker(q) == CHOOSE i \in Live(fm) : Covers(fm[i], q[1], q[2])
           T == (FileIdx \ {z}) \X (0 .. k - 1)
           B == Beginnings(k)
           F == [q \in B |-> <<Taker(q), q[2] - fm[Taker(q)].idx>>]
<1>1. ASSUME NEW q \in B
      PROVE  /\ q[1] \in LBlock /\ q[2] \in Nat /\ q = <<q[1], q[2]>>
             /\ Taker(q) \in Live(fm) /\ Covers(fm[Taker(q)], q[1], q[2])
  <2>1. PICK l \in LBlock, p \in Int : q = <<l, p>> /\ p \in Start(l) .. BlockSize - k
    BY <1>1, Blocks, ConfigAssumption DEF Beginnings
  <2>2. PICK r \in Nat, st \in Nat : r = bm[l].free /\ st = Start(l) /\ r < k
    BY Blocks DEF GoodBlocks
  <2>3. p \in Nat /\ p \in st .. BlockSize - r - 1
    BY <2>1, <2>2, ConfigAssumption
  <2>4. \E i \in Live(fm) : Covers(fm[i], l, p)
    BY <2>2, <2>3 DEF Tiled
  <2>5. q[1] = l /\ q[2] = p
    BY <2>1
  <2> QED
    BY <2>1, <2>3, <2>4, <2>5
<1> HIDE DEF Taker, B
<1>2. ASSUME NEW q \in B
      PROVE  /\ Taker(q) \in FileIdx \ {z}
             /\ fm[Taker(q)].idx \in Nat /\ q[2] - fm[Taker(q)].idx \in 0 .. k - 1
             /\ fm[Taker(q)].lblock = q[1]
  <2>1. PICK i \in Live(fm) : i = Taker(q) /\ Covers(fm[i], q[1], q[2])
    BY <1>1
  <2>2. PICK x \in Nat, n \in Nat : x = fm[i].idx /\ n = fm[i].max /\ n <= k
    BY LiveFile DEF Live
  <2>3. PICK p \in Nat : p = q[2] /\ x <= p /\ p < x + n /\ fm[i].lblock = q[1]
    BY <1>1, <2>1, <2>2 DEF Covers
  <2>4. p - x \in 0 .. k - 1
    BY <2>2, <2>3
  <2>5. i \in FileIdx /\ i # z
    BY DEF Live
  <2> QED
    BY <2>1, <2>2, <2>3, <2>4, <2>5
<1>3. F \in [B -> T]
  BY <1>2
<1>4. \A q, s \in B : F[q] = F[s] => q = s
  <2> SUFFICES ASSUME NEW q \in B, NEW s \in B, F[q] = F[s] PROVE q = s
    OBVIOUS
  <2>1. Taker(q) = Taker(s) /\ q[2] - fm[Taker(q)].idx = s[2] - fm[Taker(s)].idx
    OBVIOUS
  <2>2. PICK x \in Nat : x = fm[Taker(q)].idx
    BY <1>2
  <2>3. q[2] = s[2]
    <3>1. PICK p \in Nat, r \in Nat : p = q[2] /\ r = s[2]
      BY <1>1
    <3>2. p - x = r - x
      BY <3>1, <2>1, <2>2
    <3> QED
      BY <3>1, <3>2
  <2>4. q[1] = s[1]
    BY <2>1, <1>2
  <2> QED
    BY <2>3, <2>4, <1>1
<1> HIDE DEF F
<1>5. F \in Injection(B, T)
  BY <1>3, <1>4, Fun_IsInj
<1>6. IsFiniteSet(T) /\ Cardinality(T) = (MaxNumFiles - 1) * k
  <2>1. IsFiniteSet(FileIdx) /\ Cardinality(FileIdx) = MaxNumFiles
    <3>1. PICK e \in Int : e = MaxNumFiles - 1 /\ e >= 0
      BY ConfigAssumption
    <3>2. IsFiniteSet(0 .. e) /\ Cardinality(0 .. e) = IF 0 > e THEN 0 ELSE e - 0 + 1
      BY <3>1, FS_Interval
    <3> QED
      BY <3>1, <3>2, ConfigAssumption DEF FileIdx
  <2>2. IsFiniteSet(FileIdx \ {z}) /\ Cardinality(FileIdx \ {z}) = MaxNumFiles - 1
    BY <2>1, FS_RemoveElement
  <2>3. IsFiniteSet(0 .. k - 1) /\ Cardinality(0 .. k - 1) = k
    <3>1. PICK e \in Int : e = k - 1
      OBVIOUS
    <3>2. IsFiniteSet(0 .. e) /\ Cardinality(0 .. e) = IF 0 > e THEN 0 ELSE e - 0 + 1
      BY <3>1, FS_Interval
    <3> QED
      BY <3>1, <3>2
  <2> QED
    BY <2>2, <2>3, FS_Product
<1>7. Cardinality(B) \in Nat /\ Cardinality(B) <= Cardinality(T)
  BY <1>5, <1>6, FS_Injection, FS_CardinalityType
<1> QED
  BY <1>6, <1>7 DEF B

(* In a roomy configuration a replace always finds room. *)
LEMMA RoomyReplaces ==
    ASSUME FsInv, NEW k \in Nat, Roomy(k), 0 \notin Sizes
    PROVE  ReplaceHasRoom
<1> SUFFICES ASSUME pc = "reserve"
             PROVE  /\ Len(call.data) <= MaxFileSize
                    /\ \E l \in LBlock : BlockMeta(l).free >= Len(call.data)
  BY DEF ReplaceHasRoom
<1>1. Running /\ NoneMarked(FM)
  BY DEF FsInv, CommitInv, Running
<1>2. PICK fm, bm : fm = FM /\ bm = BM
  OBVIOUS
<1>3. /\ GoodFiles(fm) /\ GoodBlocks(bm) /\ Tiled(bm, fm) /\ Spared(fm) /\ Whole(bm, fm, cell)
      /\ \A l \in LBlock : BlockMeta(l) = bm[l]
  BY <1>1, <1>2, RunningState DEF Sound
<1>4. PICK n \in Nat : n = Len(call.data) /\ n <= k
  <2>1. PICK d \in Contents : d = call.data
    BY DEF FsInv, CallInv, SetCall
  <2>2. PICK h \in Sizes, v \in Value : d = [j \in 1 .. h |-> <<v, j>>]
    BY DEF Contents
  <2>3. h \in Nat /\ h <= k
    BY ClientAssumption DEF Roomy
  <2>4. Len(d) \in Nat /\ DOMAIN d = 1 .. Len(d)
    BY ContentsType
  <2>5. 1 .. h = 1 .. Len(d)
    BY <2>2, <2>4, Zenon
  <2>6. h = Len(d)
    BY <2>3, <2>4, <2>5, SameEnd, Zenon
  <2> QED
    BY <2>1, <2>3, <2>6
<1>5. n <= MaxFileSize
  BY <1>4, ConfigAssumption DEF Roomy
<1>6. PICK z \in FileIdx : fm[z].id = NoFid
  BY <1>1, <1>2, <1>3 DEF Spared, NoneMarked, Live
<1>7. \A i \in Live(fm) : fm[i].max <= k
  BY <1>3, FileSizes DEF Roomy
<1>8. PICK l \in LBlock : ~(bm[l].free < k)
  <2> SUFFICES ASSUME \A l \in LBlock : bm[l].free < k PROVE FALSE
    OBVIOUS
  <2>1. /\ Cardinality(Beginnings(k)) \in Nat
        /\ Cardinality(Beginnings(k)) <= (MaxNumFiles - 1) * k
    BY <1>3, <1>6, <1>7, FullBlocks
  <2>2. (MaxNumFiles - 1) * k < Cardinality(Beginnings(k))
    BY DEF Roomy
  <2>3. PICK e \in Int : e = (MaxNumFiles - 1) * k
    BY ConfigAssumption
  <2> QED
    BY <2>1, <2>2, <2>3
<1>9. bm[l].free \in Nat /\ BlockMeta(l).free = bm[l].free
  BY <1>3, ConfigAssumption DEF GoodBlocks
<1>10. BlockMeta(l).free >= n
  BY <1>4, <1>8, <1>9
<1> QED
  BY <1>4, <1>5, <1>10

(* In a roomy configuration nothing is assumed of the clients but that     *)
(* they store no empty asset: the tables stay sound, the blocks stay       *)
(* mapped and the file system is the store.                                *)
THEOREM RoomyFileSystem ==
    ASSUME ~LegacyImage, 0 \notin Sizes, NEW k \in Nat, Roomy(k)
    PROVE  Spec => []TableSound /\ []BlocksMapped /\ ImplementsStore
<1>1. Init => FsInv
  BY FsInit
<1>2. FsInv => ReplaceHasRoom
  BY RoomyReplaces
<1>3. FsInv /\ ReplaceHasRoom /\ [Next]_vars => FsInv'
  BY FsNext
<1>4. Spec => []ReplaceHasRoom
  BY <1>1, <1>2, <1>3, PTL DEF Spec
<1> QED
  BY <1>4, TablesStaySound, MappingStaysSound, FileSystemIsStore, PTL
=============================================================================
