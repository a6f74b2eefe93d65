------------------------- MODULE EtssMetaCommitProofs -------------------------
(***************************************************************************)
(* Proofs about the update protocol of EtssMetaCommit, for every number of *)
(* blocks, every width of the swap count and both erase values.            *)
(***************************************************************************)
EXTENDS EtssMetaCommit, TLAPS

-------------------------------------------------------------------------------
(* The swap count *)

(* The increment of etss_mblock_write_scratch_meta_header yields a count   *)
(* that header validation accepts, also across the wrap.                   *)
LEMMA NextSwapType ==
    ASSUME NEW s \in SwapCount
    PROVE  /\ NextSwap(s) \in SwapCount
           /\ ValidSwapCount(NextSwap(s))
BY SwapAssumption DEF SwapCount, NextSwap, ValidSwapCount, Inc

(* etss_mblock_latest_meta_block picks the later of two consecutive counts *)
(* in whichever block it is, also when the counter has just wrapped.       *)
LEMMA LatestIsNext ==
    ASSUME NEW s \in SwapCount, ValidSwapCount(s)
    PROVE  /\ LatestMetaBlock(s, NextSwap(s)) = 1
           /\ LatestMetaBlock(NextSwap(s), s) = 0
BY SwapAssumption
   DEF SwapCount, NextSwap, ValidSwapCount, Inc, LatestMetaBlock, RolloverVal

(* The count a fresh layout starts from is a legal one. *)
LEMMA RolloverType == RolloverVal \in SwapCount /\ ValidSwapCount(RolloverVal)
BY SwapAssumption DEF RolloverVal, SwapCount, ValidSwapCount

(* The blocks of a fresh layout exist, and block 2 is not one of them. *)
LEMMA InitLayout ==
    /\ InitScratch \in DBlock
    /\ InitPhy \in [LBlock -> DBlock]
    /\ \A l \in LBlock : InitPhy[l] # InitScratch
    /\ \A k, l \in LBlock : k # l => InitPhy[k] # InitPhy[l]
BY NumBlocksAssumption DEF InitScratch, InitPhy, DBlock, LBlock

(* An erased metadata block is well typed and not valid. *)
LEMMA ErasedMetaType ==
    /\ ErasedMeta \in MetaContent
    /\ ~ValidHeader(ErasedMeta)
    /\ ErasedMeta.ver = Erased
    /\ ErasedMeta.fs_version = FALSE
    /\ ErasedMeta.swap = EraseVal
<1>1. EraseVal \in SwapCount
  BY SwapAssumption DEF SwapCount
<1>2. [l \in LBlock |-> Erased] \in [LBlock -> Nat]
  BY DEF Erased
<1> QED
  BY <1>1, <1>2, InitLayout DEF ErasedMeta, MetaContent, ValidHeader, Erased

(* What etss_init_get_active_metablock selects when both headers are read. *)
LEMMA Selection ==
    /\ SomeValid <=> ValidHeader(mblk[0]) \/ ValidHeader(mblk[1])
    /\ ActiveMetaBlock = IF ValidHeader(mblk[0]) /\ ValidHeader(mblk[1])
                           THEN LatestMetaBlock(mblk[0].swap, mblk[1].swap)
                           ELSE IF ValidHeader(mblk[0]) THEN 0 ELSE 1
BY DEF SomeValid, SomeFound, Found, ActiveMetaBlock, ActiveAmong, MetaBlock

(* The block with the last commit is the one that the selection of         *)
(* etss_init_get_active_metablock finds when it can read both headers.     *)
LEMMA CurrentIsActive ==
    ASSUME TypeOK, NEW a \in MetaBlock, Current(a)
    PROVE  /\ SomeValid
           /\ ActiveMetaBlock = a
           /\ Recovered = committed
<1>1. /\ mblk[0].swap \in SwapCount
      /\ mblk[1].swap \in SwapCount
      /\ a \in {0, 1}
      /\ Other(a) \in {0, 1}
  BY DEF TypeOK, MetaContent, MetaBlock, Other
<1>2. SomeValid
  BY <1>1, Selection DEF Current
<1>3. ActiveMetaBlock = a
  <2>1. CASE ~ValidHeader(mblk[Other(a)])
    BY <2>1, <1>1, Selection DEF Current, Other
  <2>2. CASE ValidHeader(mblk[Other(a)]) /\ a = 0
    BY <2>2, <1>1, LatestIsNext, Selection DEF Current, Other, ValidHeader
  <2>3. CASE ValidHeader(mblk[Other(a)]) /\ a = 1
    BY <2>3, <1>1, LatestIsNext, Selection DEF Current, Other, ValidHeader
  <2> QED
    BY <2>1, <2>2, <2>3, <1>1
<1> QED
  BY <1>2, <1>3 DEF Recovered, Current

(* The selection among the headers that can be read: the block with the    *)
(* last commit if its header is read, the other valid one otherwise.       *)
LEMMA SelectedAmong ==
    ASSUME TypeOK, NEW a \in MetaBlock, Current(a), NEW readable \in SUBSET MetaBlock
    PROVE  /\ a \in readable => SomeFound(readable) /\ ActiveAmong(readable) = a
           /\ a \notin readable /\ SomeFound(readable) =>
                /\ ActiveAmong(readable) = Other(a)
                /\ ValidHeader(mblk[Other(a)])
<1>1. a \in {0, 1} /\ Other(a) = 1 - a
  BY DEF MetaBlock, Other
<1>2. ActiveMetaBlock = a /\ ValidHeader(mblk[a])
  BY CurrentIsActive DEF Current
<1>3. CASE a \in readable
  <2>1. SomeFound(readable)
    BY <1>2, <1>3 DEF SomeFound, Found
  <2>2. ASSUME Found(readable, Other(a)) PROVE ActiveAmong(readable) = a
    <3>1. ValidHeader(mblk[0]) /\ ValidHeader(mblk[1]) /\ 0 \in readable /\ 1 \in readable
      BY <1>1, <1>2, <1>3, <2>2 DEF Found
    <3> QED
      BY <1>2, <3>1, Selection DEF Found, ActiveAmong
  <2>3. ASSUME ~Found(readable, Other(a)) PROVE ActiveAmong(readable) = a
    <3>1. CASE a = 0
      BY <1>1, <1>2, <1>3, <2>3, <3>1 DEF Found, ActiveAmong
    <3>2. CASE a = 1
      BY <1>1, <1>2, <1>3, <2>3, <3>2 DEF Found, ActiveAmong
    <3> QED
      BY <3>1, <3>2, <1>1
  <2> QED
    BY <2>1, <2>2, <2>3, <1>3
<1>4. CASE a \notin readable /\ SomeFound(readable)
  BY <1>1, <1>4 DEF SomeFound, Found, ActiveAmong, MetaBlock
<1> QED
  BY <1>3, <1>4

-------------------------------------------------------------------------------
(* Type correctness *)

(* The state of a device that never ran the service is well typed. *)
LEMMA InitTypeOK == Init => TypeOK
<1> SUFFICES ASSUME Init PROVE TypeOK
  OBVIOUS
<1>1. 0 \in SwapCount
  BY SwapAssumption DEF SwapCount
<1>2. \A b \in MetaBlock : mblk[b] = ErasedMeta
  BY DEF Init
<1> QED
  BY <1>1, <1>2, ErasedMetaType, InitLayout
     DEF Init, TypeOK, MetaBlock, Erased, PcLabel

(* Rewriting one metadata block keeps the type of the flash. *)
LEMMA MblkType ==
    ASSUME TypeOK, NEW b \in MetaBlock, NEW m \in MetaContent,
           mblk' = [mblk EXCEPT ![b] = m]
    PROVE  mblk' \in [MetaBlock -> MetaContent]
BY DEF TypeOK

(* The RAM state after a power failure is well typed. *)
LEMMA PowerLostType ==
    ASSUME TypeOK, PowerLost
    PROVE  /\ ctx' \in [active : MetaBlock, swap : SwapCount, scratch : DBlock]
           /\ upd' \in [lblock : LBlock \cup {0}, phy : DBlock, data : Nat]
           /\ pc' \in PcLabel
           /\ issued' \in Nat
           /\ missed' \in BOOLEAN
<1>1. 0 \in SwapCount
  BY SwapAssumption DEF SwapCount
<1> QED
  BY <1>1, InitLayout DEF TypeOK, PowerLost, MetaBlock, Erased, PcLabel

(* Erasing a block without having read the latest header gives up at most  *)
(* the last commit.                                                        *)
LEMMA KeptBound ==
    ASSUME IndInv, pc \in {"erase_meta", "boot_erase_meta", "wipe_first"}
    PROVE  Kept \in 0 .. committed
<1>1. /\ TypeOK /\ Protocol /\ committed \in Nat
      /\ ctx.active \in MetaBlock /\ Other(Other(ctx.active)) = ctx.active
  BY DEF IndInv, TypeOK, MetaBlock, Other
<1>2. CASE missed
  <2>1. Current(Other(ctx.active))
    BY <1>1, <1>2 DEF Protocol, ErasedLast
  <2>2. ValidHeader(mblk[ctx.active]) => mblk[ctx.active].ver \in 1 .. committed - 1
    BY <1>1, <2>1 DEF Current
  <2> QED
    BY <1>1, <1>2, <2>2 DEF Kept
<1>3. CASE ~missed
  BY <1>1, <1>3 DEF Kept
<1> QED
  BY <1>2, <1>3

(* Every step of the protocol keeps the types. *)
LEMMA StepTypeOK == IndInv /\ [Next]_vars => TypeOK'
<1> SUFFICES ASSUME IndInv, [Next]_vars PROVE TypeOK'
  OBVIOUS
<1> TypeOK
  BY DEF IndInv
<1> USE DEF MetaBlock
<1>a. /\ ctx.active \in MetaBlock
      /\ Other(ctx.active) \in MetaBlock
      /\ \A readable \in SUBSET MetaBlock :
           /\ ActiveAmong(readable) \in MetaBlock
           /\ Other(FirstToErase(readable)) \in MetaBlock
  BY DEF TypeOK, Other, ActiveAmong, LatestMetaBlock, FirstToErase
<1>b. /\ \A b \in MetaBlock : mblk[b] \in MetaContent
      /\ NextSwap(ctx.swap) \in SwapCount
  BY NextSwapType DEF TypeOK
<1>c. \A old, new \in Nat \cup {Garbage} : Program(old, new) \in Nat \cup {Garbage}
  BY DEF Program
<1>d. ErasedMeta \in MetaContent
  BY ErasedMetaType
<1>e. [l \in LBlock |-> Erased] \in [LBlock -> Nat]
  BY DEF Erased
<1>1. CASE Prepare
  <2>1. PICK readable \in SUBSET MetaBlock :
           IF SomeFound(readable)
             THEN /\ ctx' = [active |-> ActiveAmong(readable),
                             swap |-> mblk[ActiveAmong(readable)].swap,
                             scratch |-> mblk[ActiveAmong(readable)].scratch]
                  /\ missed' = (ActiveMetaBlock \notin readable)
                  /\ pc' = "boot_erase_meta"
             ELSE pc' = "wipe_start" /\ UNCHANGED <<ctx, missed>>
    BY <1>1 DEF Prepare
  <2>2. ctx' \in [active : MetaBlock, swap : SwapCount, scratch : DBlock]
    BY <2>1, <1>a, <1>b DEF TypeOK, MetaContent
  <2>3. missed' \in BOOLEAN
    <3>1. CASE SomeFound(readable)
      BY <2>1, <3>1
    <3>2. CASE ~SomeFound(readable)
      BY <2>1, <3>2 DEF TypeOK
    <3> QED
      BY <3>1, <3>2
  <2>4. pc' \in PcLabel
    BY <2>1 DEF PcLabel
  <2> QED
    BY <1>1, <2>2, <2>3, <2>4 DEF Prepare, TypeOK
<1>2. CASE PrepareFails
  BY <1>2 DEF PrepareFails, TypeOK, PcLabel
<1>3. CASE EraseMeta
  <2>1. Kept \in Nat
    BY <1>3, KeptBound DEF EraseMeta
  <2> QED
    BY <1>3, <1>a, <1>d, <2>1, MblkType DEF EraseMeta, TypeOK, PcLabel
<1>4. CASE EraseData
  BY <1>4 DEF EraseData, TypeOK, PcLabel, Erased
<1>5. ASSUME NEW l \in LBlock, WriteData(l) PROVE TypeOK'
  <2>1. mblk[ctx.active].phy[l] \in DBlock
    BY <1>a, <1>b DEF MetaContent
  <2>2. issued + 1 \in Nat /\ ctx.scratch \in DBlock
    BY DEF TypeOK
  <2>3. Program(dat[ctx.scratch], issued + 1) \in Nat \cup {Garbage}
    BY <1>c, <2>2 DEF TypeOK
  <2> QED
    BY <1>5, <2>1, <2>2, <2>3 DEF WriteData, TypeOK, PcLabel
<1>6. CASE WriteNoData
  BY <1>6 DEF WriteNoData, TypeOK, PcLabel, Erased
<1>7. CASE WriteMetadata
  <2> DEFINE s == Other(ctx.active)
             old == mblk[ctx.active]
             ph == [l \in LBlock |-> IF l = upd.lblock THEN upd.phy ELSE old.phy[l]]
             da == [l \in LBlock |-> IF l = upd.lblock THEN upd.data ELSE old.data[l]]
             m == [mblk[s] EXCEPT !.phy = ph, !.data = da, !.ver = Program(@, issued)]
  <2>1. ph \in [LBlock -> DBlock] /\ da \in [LBlock -> Nat]
    BY <1>a, <1>b DEF MetaContent, TypeOK
  <2>2. Program(mblk[s].ver, issued) \in Nat \cup {Garbage}
    BY <1>a, <1>b, <1>c DEF MetaContent, TypeOK
  <2>3. m \in MetaContent
    <3> HIDE DEF ph, da
    <3> QED BY <2>1, <2>2, <1>a, <1>b DEF MetaContent
  <2>4. mblk' = [mblk EXCEPT ![s] = m]
    BY <1>7 DEF WriteMetadata
  <2>5. mblk' \in [MetaBlock -> MetaContent]
    <3> HIDE DEF m
    <3> QED BY <2>3, <2>4, <1>a, MblkType
  <2> QED
    BY <1>7, <2>5 DEF WriteMetadata, TypeOK, PcLabel
<1>8. ASSUME NEW s \in MetaBlock, mblk' = ProgramHeader(s)
      PROVE  mblk' \in [MetaBlock -> MetaContent]
  BY <1>8, <1>b DEF ProgramHeader, TypeOK, MetaContent
<1>9. CASE WriteHeader
  <2>1. mblk' \in [MetaBlock -> MetaContent]
    BY <1>9, <1>8, <1>a DEF WriteHeader
  <2> QED
    BY <1>9, <2>1, <1>a, <1>b DEF WriteHeader, TypeOK, PcLabel
<1>10. CASE WipeFirst
  <2>1. Kept \in Nat
    BY <1>10, KeptBound DEF WipeFirst
  <2> QED
    BY <1>10, <1>a, <1>d, <2>1, MblkType DEF WipeFirst, TypeOK, PcLabel
<1>21. CASE WipeStart
  <2>1. PICK readable \in SUBSET MetaBlock :
          /\ ctx' = [ctx EXCEPT !.active = Other(FirstToErase(readable))]
          /\ missed' = /\ SomeValid
                       /\ ActiveMetaBlock \notin readable
                       /\ ActiveMetaBlock # Other(FirstToErase(readable))
    BY <1>21 DEF WipeStart
  <2>2. ctx' \in [active : MetaBlock, swap : SwapCount, scratch : DBlock]
    BY <2>1, <1>a DEF TypeOK
  <2>3. missed' \in BOOLEAN
    BY <2>1
  <2> QED
    BY <1>21, <2>2, <2>3 DEF WipeStart, TypeOK, PcLabel
<1>11. CASE WipeSecond
  BY <1>11, <1>a, <1>d, MblkType, RolloverType, InitLayout
     DEF WipeSecond, TypeOK, PcLabel
<1>12. CASE WipeData
  BY <1>12 DEF WipeData, TypeOK, PcLabel, Erased
<1>13. CASE WipeMetadata
  <2> DEFINE s == Other(ctx.active)
             m == [mblk[s] EXCEPT !.phy = InitPhy, !.data = [l \in LBlock |-> Erased],
                                  !.ver = Program(@, issued + 1)]
  <2>1. issued + 1 \in Nat
    BY DEF TypeOK
  <2>2. Program(mblk[s].ver, issued + 1) \in Nat \cup {Garbage}
    BY <2>1, <1>a, <1>b, <1>c DEF MetaContent
  <2>3. m \in MetaContent
    BY <2>2, <1>a, <1>b, <1>e, InitLayout DEF MetaContent
  <2>4. mblk' = [mblk EXCEPT ![s] = m]
    BY <1>13 DEF WipeMetadata
  <2>5. mblk' \in [MetaBlock -> MetaContent]
    <3> HIDE DEF m
    <3> QED BY <2>3, <2>4, <1>a, MblkType
  <2> QED
    BY <1>13, <2>1, <2>5 DEF WipeMetadata, TypeOK, PcLabel
<1>14. CASE Crash
  BY <1>14, PowerLostType DEF Crash, TypeOK
<1>15. CASE CrashInProgram
  BY <1>15, <1>a, PowerLostType DEF CrashInProgram, TypeOK, MetaContent
<1>16. CASE CrashInHeader
  <2>1. mblk' \in [MetaBlock -> MetaContent]
    BY <1>16, <1>a, <1>b DEF CrashInHeader, ProgramHeader, TypeOK, MetaContent
  <2> QED
    BY <1>16, <2>1, PowerLostType DEF CrashInHeader, TypeOK
<1>17. CASE CrashInEraseMeta
  <2>1. Kept \in Nat
    BY <1>17, KeptBound DEF CrashInEraseMeta
  <2> QED
    BY <1>17, <1>a, <2>1, PowerLostType DEF CrashInEraseMeta, TypeOK, MetaContent
<1>18. CASE CrashInEraseData
  BY <1>18, PowerLostType DEF CrashInEraseData, TypeOK
<1>19. CASE CrashInWipe
  <2>1. \A b \in MetaBlock : [mblk EXCEPT ![b].xor = FALSE] \in [MetaBlock -> MetaContent]
    BY <1>b DEF TypeOK, MetaContent
  <2>2. mblk' \in [MetaBlock -> MetaContent]
    BY <1>19, <2>1, <1>a DEF CrashInWipe
  <2>3. committed' \in Nat /\ dat' = dat
    BY <1>19, KeptBound DEF CrashInWipe, TypeOK
  <2>4. PowerLost
    BY <1>19 DEF CrashInWipe
  <2> QED
    BY <2>2, <2>3, <2>4, PowerLostType DEF TypeOK
<1>20. CASE UNCHANGED vars
  BY <1>20 DEF vars, TypeOK
<1> QED
  BY <1>1, <1>2, <1>3, <1>4, <1>5, <1>6, <1>7, <1>9, <1>10, <1>11, <1>12,
     <1>13, <1>14, <1>15, <1>16, <1>17, <1>18, <1>19, <1>20, <1>21 DEF Next

-------------------------------------------------------------------------------
(* The inductive invariant *)

(* Block a keeps the last commit in a step that leaves it and its data     *)
(* blocks alone and does not make the other block valid.                   *)
LEMMA CurrentKept ==
    ASSUME TypeOK, NEW a \in MetaBlock, Current(a),
           mblk'[a] = mblk[a],
           committed' = committed,
           \A d \in DBlock : d # mblk[a].scratch => dat'[d] = dat[d],
           ValidHeader(mblk'[Other(a)]) =>
               mblk'[Other(a)] = mblk[Other(a)] /\ dat' = dat
    PROVE  Current(a)'
<1>1. \A l \in LBlock : mblk[a].phy[l] \in DBlock
  BY DEF TypeOK, MetaContent
<1>2. DataOf(mblk[a])'
  BY <1>1 DEF Current, DataOf
<1>3. ValidHeader(mblk'[Other(a)]) /\ DataOf(mblk[Other(a)]) => DataOf(mblk[Other(a)])'
  BY DEF DataOf
<1> QED
  BY <1>2, <1>3 DEF Current

(* When the block with the last commit is erased, in whole or in part,     *)
(* because its header could not be read, the other block holds what is     *)
(* then the last commit, if it holds any.                                  *)
LEMMA CurrentMissed ==
    ASSUME TypeOK, missed, NEW a \in MetaBlock, a = ctx.active,
           Current(Other(a)),
           mblk'[a] = mblk[a], dat' = dat,
           ~ValidHeader(mblk'[Other(a)]), committed' = Kept
    PROVE  /\ ValidHeader(mblk[a]) => Current(a)'
           /\ ~ValidHeader(mblk[a]) => NothingValid'
<1>1. a \in {0, 1} /\ Other(a) \in {0, 1} /\ Other(Other(a)) = a /\ Other(a) # a
  BY DEF MetaBlock, Other
<1>2. CASE ValidHeader(mblk[a])
  <2>1. mblk[a].ver \in 1 .. committed - 1 /\ DataOf(mblk[a]) /\ committed' = mblk[a].ver
    BY <1>1, <1>2 DEF Current, Kept
  <2>2. DataOf(mblk[a])'
    BY <2>1 DEF DataOf
  <2>3. /\ mblk'[a].ver = committed' /\ committed' > 0
        /\ ValidHeader(mblk'[a])
    BY <1>2, <2>1 DEF TypeOK
  <2>4. Current(a)'
    BY <2>2, <2>3 DEF Current
  <2> QED
    BY <1>2, <2>4
<1>3. CASE ~ValidHeader(mblk[a])
  <2>1. committed' = 0 /\ \A b \in MetaBlock : ~ValidHeader(mblk'[b])
    BY <1>1, <1>3 DEF Kept, MetaBlock, Other
  <2> QED
    BY <1>3, <2>1 DEF NothingValid, SomeValid, SomeFound, Found
<1> QED
  BY <1>2, <1>3

(* Nothing becomes valid where nothing was. *)
LEMMA NothingKept ==
    ASSUME NothingValid, committed' = committed,
           \A b \in MetaBlock : ValidHeader(mblk'[b]) => ValidHeader(mblk[b])
    PROVE  NothingValid'
BY DEF NothingValid, SomeValid, SomeFound, Found

(* An erased flash satisfies the invariant. *)
LEMMA InitIndInv == Init => IndInv
<1> SUFFICES ASSUME Init PROVE IndInv
  OBVIOUS
<1>1. TypeOK
  BY InitTypeOK
<1>2. NothingValid
  BY ErasedMetaType DEF Init, NothingValid, SomeValid, SomeFound, Found
<1> QED
  BY <1>1, <1>2 DEF Init, IndInv, Protocol, Safe

(* The steps of a start and of the two erases. *)
LEMMA StartSteps ==
    ASSUME IndInv, Prepare \/ PrepareFails \/ EraseMeta \/ EraseData
    PROVE  Protocol'
<1> USE DEF MetaBlock
<1>a. TypeOK /\ Protocol
  BY DEF IndInv
<1>1. CASE Prepare
  <2>1. PICK readable \in SUBSET MetaBlock :
           IF SomeFound(readable)
             THEN /\ ctx' = [active |-> ActiveAmong(readable),
                             swap |-> mblk[ActiveAmong(readable)].swap,
                             scratch |-> mblk[ActiveAmong(readable)].scratch]
                  /\ missed' = (ActiveMetaBlock \notin readable)
                  /\ pc' = "boot_erase_meta"
             ELSE pc' = "wipe_start" /\ UNCHANGED <<ctx, missed>>
    BY <1>1 DEF Prepare
  <2>2. Safe /\ ~missed
    BY <1>1, <1>a DEF Prepare, Protocol
  <2>3. /\ NothingValid => NothingValid'
        /\ \A a \in MetaBlock : Current(a) => Current(a)'
    <3>1. ASSUME NEW a \in MetaBlock, Current(a) PROVE Current(a)'
      BY <1>1, <3>1, <1>a, CurrentKept DEF Prepare
    <3> QED
      BY <1>1, <3>1, NothingKept DEF Prepare
  <2>4. CASE SomeFound(readable)
    <3>1. PICK a \in MetaBlock : Current(a)
      BY <2>2, <2>4 DEF Safe, NothingValid, SomeValid, SomeFound, Found
    <3>2. ActiveMetaBlock = a
      BY <3>1, <1>a, CurrentIsActive
    <3>3. Current(a)' /\ mblk' = mblk
      BY <1>1, <2>3, <3>1 DEF Prepare
    <3>4. /\ ctx'.active = ActiveAmong(readable)
          /\ ctx'.swap = mblk'[ctx'.active].swap
          /\ ctx'.scratch = mblk'[ctx'.active].scratch
          /\ pc' = "boot_erase_meta"
          /\ missed' = (a \notin readable)
      BY <2>1, <2>4, <3>2, <3>3
    <3>5. CASE a \in readable
      <4>1. ctx'.active = a /\ ~missed' /\ ValidHeader(mblk'[a])
        BY <3>1, <3>3, <3>4, <3>5, <1>a, SelectedAmong DEF Current
      <4>2. Current(IF missed THEN Other(ctx.active) ELSE ctx.active)'
        BY <4>1, <3>3
      <4> QED
        BY <3>4, <4>1, <4>2 DEF Protocol
    <3>6. CASE a \notin readable
      <4>1. ctx'.active = Other(a) /\ missed' /\ ValidHeader(mblk'[Other(a)])
        BY <2>4, <3>1, <3>3, <3>4, <3>6, <1>a, SelectedAmong
      <4>2. Other(ctx'.active) = a
        BY <4>1 DEF Other
      <4>3. Current(IF missed THEN Other(ctx.active) ELSE ctx.active)'
        BY <4>1, <4>2, <3>3
      <4> QED
        BY <3>4, <4>1, <4>3 DEF Protocol
    <3> QED
      BY <3>5, <3>6
  <2>5. CASE ~SomeFound(readable)
    <3>1. pc' = "wipe_start" /\ ~missed'
      BY <2>1, <2>2, <2>5
    <3>2. Safe'
      BY <2>2, <2>3 DEF Safe
    <3> QED
      BY <3>1, <3>2 DEF Protocol
  <2> QED
    BY <2>4, <2>5
<1>2. CASE PrepareFails
  <2>1. Safe
    BY <1>2, <1>a DEF PrepareFails, Protocol, Loaded, TypeOK, Safe, Other
  <2>2. ASSUME NEW a \in MetaBlock, Current(a) PROVE Current(a)'
    BY <1>2, <2>2, <1>a, CurrentKept DEF PrepareFails
  <2>3. NothingValid => NothingValid'
    BY <1>2, NothingKept DEF PrepareFails
  <2>4. pc' = "wipe_start" /\ ~missed'
    BY <1>2 DEF PrepareFails
  <2>5. Safe'
    BY <2>1, <2>2, <2>3 DEF Safe
  <2> QED
    BY <2>4, <2>5 DEF Protocol
<1>3. CASE EraseMeta
  <2>1. PICK a \in MetaBlock : a = ctx.active
    BY <1>a DEF TypeOK
  <2>2. /\ ctx.swap = mblk[a].swap
        /\ ctx.scratch = mblk[a].scratch
        /\ IF missed THEN Current(Other(a)) /\ ValidHeader(mblk[a]) ELSE Current(a)
    BY <1>3, <1>a, <2>1 DEF EraseMeta, Protocol, Loaded
  <2>3. /\ mblk'[a] = mblk[a]
        /\ mblk'[Other(a)] = ErasedMeta
        /\ ctx' = ctx /\ dat' = dat /\ committed' = Kept /\ ~missed'
    BY <1>3, <1>a, <2>1 DEF EraseMeta, TypeOK, Other
  <2>4. Current(a)'
    <3>1. CASE missed
      BY <1>a, <2>1, <2>2, <2>3, <3>1, ErasedMetaType, CurrentMissed
    <3>2. CASE ~missed
      <4>1. committed' = committed
        BY <2>3, <3>2 DEF Kept
      <4> QED
        BY <1>a, <2>2, <2>3, <3>2, <4>1, ErasedMetaType, CurrentKept
    <3> QED
      BY <3>1, <3>2
  <2>5. Loaded'
    BY <2>1, <2>2, <2>3, <2>4 DEF Loaded
  <2>6. pc' \in {"erase_data", "boot_erase_data"}
    BY <1>3 DEF EraseMeta
  <2> QED
    BY <2>1, <2>2, <2>3, <2>5, <2>6 DEF Protocol
<1>4. CASE EraseData
  <2>1. PICK a \in MetaBlock : a = ctx.active
    BY <1>a DEF TypeOK
  <2>2. /\ Current(a)
        /\ ctx.swap = mblk[a].swap
        /\ ctx.scratch = mblk[a].scratch
        /\ mblk[Other(a)] = ErasedMeta
        /\ ~missed
    BY <1>4, <1>a, <2>1 DEF EraseData, Protocol, Loaded
  <2>3. /\ \A d \in DBlock : d # mblk[a].scratch => dat'[d] = dat[d]
        /\ dat'[ctx.scratch] = Erased
    BY <1>4, <1>a, <2>2 DEF EraseData, TypeOK
  <2>4. Current(a)'
    BY <1>4, <1>a, <2>2, <2>3, ErasedMetaType, CurrentKept DEF EraseData
  <2>5. Loaded'
    BY <1>4, <2>1, <2>2, <2>4 DEF EraseData, Loaded
  <2> QED
    BY <1>4, <2>1, <2>2, <2>3, <2>5 DEF EraseData, Protocol
<1> QED
  BY <1>1, <1>2, <1>3, <1>4

(* The steps of an update, up to and with the commit of its header. *)
LEMMA UpdateSteps ==
    ASSUME IndInv,
           (\E l \in LBlock : WriteData(l)) \/ WriteNoData \/ WriteMetadata
    PROVE  Protocol'
<1> USE DEF MetaBlock
<1>a. TypeOK /\ Protocol /\ committed <= issued
  BY DEF IndInv
<1>b. PICK a \in MetaBlock : a = ctx.active
  BY <1>a DEF TypeOK
<1>c. issued \in Nat /\ committed \in Nat
  BY <1>a DEF TypeOK
<1>d. ~missed /\ ~missed'
  BY <1>a DEF Protocol, WriteData, WriteNoData, WriteMetadata
<1>1. ASSUME NEW l \in LBlock, WriteData(l) PROVE Protocol'
  <2>1. /\ Current(a)
        /\ ctx.swap = mblk[a].swap
        /\ ctx.scratch = mblk[a].scratch
        /\ mblk[Other(a)] = ErasedMeta
        /\ dat[ctx.scratch] = Erased
    BY <1>1, <1>a, <1>b DEF WriteData, Protocol, Loaded
  <2>2. /\ \A d \in DBlock : d # mblk[a].scratch => dat'[d] = dat[d]
        /\ dat'[ctx.scratch] = issued + 1
    BY <1>1, <1>a, <2>1 DEF WriteData, TypeOK, Program
  <2>3. Current(a)'
    BY <1>1, <1>a, <2>1, <2>2, ErasedMetaType, CurrentKept DEF WriteData
  <2>4. /\ ctx'.active = a
        /\ ctx'.swap = ctx.swap
        /\ ctx'.scratch = mblk[a].phy[l]
    BY <1>1, <1>a, <1>b DEF WriteData, TypeOK
  <2>5. Loaded'
    <3>1. mblk' = mblk
      BY <1>1 DEF WriteData
    <3> QED
      BY <3>1, <2>1, <2>3, <2>4 DEF Loaded
  <2>6. l # 0
    BY DEF LBlock
  <2>7. Rewritten'
    BY <1>1, <2>1, <2>2, <2>4, <2>6 DEF WriteData, Rewritten
  <2>8. pc' = "metadata" /\ issued' > committed' /\ mblk' = mblk
    BY <1>1, <1>a, <1>c DEF WriteData
  <2> QED
    BY <1>d, <2>1, <2>4, <2>5, <2>7, <2>8 DEF Protocol
<1>2. CASE WriteNoData
  <2>1. /\ Current(a)
        /\ ctx.swap = mblk[a].swap
        /\ ctx.scratch = mblk[a].scratch
        /\ mblk[Other(a)] = ErasedMeta
    BY <1>2, <1>a, <1>b DEF WriteNoData, Protocol, Loaded
  <2>2. Current(a)'
    BY <1>2, <1>a, <2>1, CurrentKept DEF WriteNoData
  <2>3. Loaded' /\ Rewritten'
    BY <1>2, <1>b, <2>1, <2>2 DEF WriteNoData, Loaded, Rewritten
  <2>4. pc' = "metadata" /\ issued' > committed' /\ mblk' = mblk /\ ctx' = ctx
    BY <1>2, <1>a, <1>c DEF WriteNoData
  <2> QED
    BY <1>b, <1>d, <2>1, <2>3, <2>4 DEF Protocol
<1>3. CASE WriteMetadata
  <2> DEFINE s == Other(a)
  <2>1. /\ Current(a)
        /\ ctx.swap = mblk[a].swap
        /\ Rewritten
        /\ issued > committed
        /\ mblk[s] = ErasedMeta
    BY <1>3, <1>a, <1>b DEF WriteMetadata, Protocol, Loaded
  <2>2. /\ mblk'[a] = mblk[a]
        /\ ctx' = ctx /\ upd' = upd /\ dat' = dat
        /\ issued' = issued /\ committed' = committed
        /\ pc' = "header"
    BY <1>3, <1>a, <1>b DEF WriteMetadata, TypeOK, Other
  <2> DEFINE m == [mblk[s] EXCEPT
            !.phy = [l \in LBlock |-> IF l = upd.lblock THEN upd.phy
                                                        ELSE mblk[a].phy[l]],
            !.data = [l \in LBlock |-> IF l = upd.lblock THEN upd.data
                                                         ELSE mblk[a].data[l]],
            !.ver = Program(mblk[s].ver, issued)]
  <2>3. mblk'[s] = m
    <3>1. mblk' = [mblk EXCEPT ![s] = m]
      BY <1>3, <1>b DEF WriteMetadata
    <3> HIDE DEF m
    <3> QED
      BY <3>1, <1>a DEF TypeOK, Other
  <2>4. mblk[s] \in MetaContent
    BY <1>a DEF TypeOK, Other
  <2>5. /\ mblk'[s].fs_version = FALSE
        /\ mblk'[s].swap = EraseVal
        /\ mblk'[s].ver = issued
        /\ mblk'[s].phy = [l \in LBlock |-> IF l = upd.lblock THEN upd.phy
                                                           ELSE mblk[a].phy[l]]
        /\ mblk'[s].data = [l \in LBlock |-> IF l = upd.lblock THEN upd.data
                                                         ELSE mblk[a].data[l]]
    <3>1. /\ mblk[s].fs_version = FALSE
          /\ mblk[s].swap = EraseVal
          /\ mblk[s].ver = Erased
      BY <2>1, ErasedMetaType
    <3> QED
      BY <2>3, <2>4, <3>1 DEF MetaContent, Program
  <2>6. Current(a)'
    BY <1>a, <2>1, <2>2, <2>5, CurrentKept DEF ValidHeader
  <2>7. Loaded' /\ Rewritten'
    BY <1>b, <2>1, <2>2, <2>6 DEF Loaded, Rewritten
  <2>8. ScratchMetadata'
    BY <1>b, <2>1, <2>2, <2>5 DEF ScratchMetadata
  <2> QED
    BY <1>d, <2>1, <2>2, <2>7, <2>8 DEF Protocol
<1> QED
  BY <1>1, <1>2, <1>3

(* The commit of an update: the new metadata names the new data, the old   *)
(* metadata stays valid but one swap count behind.                         *)
LEMMA CommitStep ==
    ASSUME IndInv, WriteHeader, pc = "header"
    PROVE  Protocol'
<1> USE DEF MetaBlock
<1>a. TypeOK /\ Protocol /\ issued \in Nat /\ committed \in Nat
  BY DEF IndInv, TypeOK
<1>b. PICK a \in MetaBlock : a = ctx.active
  BY <1>a DEF TypeOK
<1> DEFINE s == Other(a)
           old == mblk[a]
           new == mblk'[s]
<1>1. /\ Current(a)
      /\ ctx.swap = old.swap
      /\ Rewritten
      /\ issued > committed
      /\ ScratchMetadata
      /\ ~missed
  BY <1>a, <1>b DEF Protocol, Loaded
<1>2. /\ s \in MetaBlock /\ s # a /\ Other(s) = a
      /\ old \in MetaContent /\ mblk[s] \in MetaContent
  BY <1>a DEF TypeOK, Other
<1>3. /\ mblk'[a] = old
      /\ mblk'[s] = [mblk[s] EXCEPT !.fs_version = TRUE, !.xor = TRUE,
                                    !.swap = NextSwap(ctx.swap),
                                    !.scratch = ctx.scratch]
      /\ dat' = dat
      /\ committed' = issued
      /\ pc' = "erase_meta"
      /\ missed' = missed
  BY <1>a, <1>b, <1>2 DEF WriteHeader, ProgramHeader, TypeOK
<1>4. ctx'.active = s /\ ctx'.swap = NextSwap(ctx.swap) /\ ctx'.scratch = ctx.scratch
  BY <1>a, <1>b DEF WriteHeader, TypeOK
<1>5. /\ new.fs_version = TRUE /\ new.xor = TRUE
      /\ new.swap = NextSwap(old.swap)
      /\ new.scratch = ctx.scratch
      /\ new.phy = mblk[s].phy /\ new.data = mblk[s].data
      /\ new.ver = issued
  <2>1. mblk[s].ver = issued
    BY <1>1, <1>b DEF ScratchMetadata
  <2> QED
    BY <1>1, <1>2, <1>3, <2>1 DEF MetaContent
<1>6. \A l \in LBlock :
         /\ new.phy[l] = IF l = upd.lblock THEN upd.phy ELSE old.phy[l]
         /\ new.data[l] = IF l = upd.lblock THEN upd.data ELSE old.data[l]
  BY <1>1, <1>b, <1>5 DEF ScratchMetadata
<1>7. ValidHeader(new)
  <2>1. ValidSwapCount(NextSwap(old.swap))
    BY <1>2, NextSwapType DEF MetaContent
  <2> QED
    BY <2>1, <1>5 DEF ValidHeader
<1>8. DataOf(mblk[s])'
  <2>1. DataOf(old)
    BY <1>1 DEF Current
  <2>2. CASE upd.lblock = 0
    <3>1. \A l \in LBlock : l # upd.lblock
      BY <2>2 DEF LBlock
    <3>2. new.scratch = old.scratch
      BY <1>1, <1>5, <1>b, <2>2 DEF Rewritten
    <3> QED
      BY <2>1, <3>1, <3>2, <1>6, <1>3 DEF DataOf
  <2>3. CASE upd.lblock # 0
    <3>1. /\ upd.lblock \in LBlock
          /\ new.scratch = old.phy[upd.lblock]
          /\ upd.phy = old.scratch
          /\ dat[upd.phy] = upd.data
      BY <1>a, <1>1, <1>5, <1>b, <2>3 DEF Rewritten, TypeOK
    <3> QED
      BY <2>1, <3>1, <1>6, <1>3 DEF DataOf
  <2> QED
    BY <2>2, <2>3
<1>9. Current(s)'
  <2>1. mblk'[a].ver \in 1 .. committed' - 1
    BY <1>a, <1>1, <1>3 DEF Current
  <2>2. DataOf(mblk[a])'
    BY <1>1, <1>3 DEF Current, DataOf
  <2> QED
    BY <1>a, <1>1, <1>2, <1>3, <1>5, <1>7, <1>8, <2>1, <2>2 DEF Current
<1>10. Loaded' /\ ctx'.scratch = mblk'[ctx'.active].scratch
  BY <1>1, <1>4, <1>5, <1>9 DEF Loaded
<1> QED
  BY <1>1, <1>3, <1>10 DEF Protocol

(* The steps of etss_flash_fs_mblock_reset_metablock. *)
LEMMA WipeSteps ==
    ASSUME IndInv,
           \/ WipeStart \/ WipeFirst \/ WipeSecond \/ WipeData \/ WipeMetadata
           \/ WriteHeader /\ pc = "wipe_header"
    PROVE  Protocol'
<1> USE DEF MetaBlock
<1>a. TypeOK /\ Protocol /\ issued \in Nat /\ committed \in Nat /\ committed <= issued
  BY DEF IndInv, TypeOK
<1>b. CASE WipeStart
  <2>1. PICK readable \in SUBSET MetaBlock :
          /\ ctx' = [ctx EXCEPT !.active = Other(FirstToErase(readable))]
          /\ missed' = /\ SomeValid
                       /\ ActiveMetaBlock \notin readable
                       /\ ActiveMetaBlock # Other(FirstToErase(readable))
    BY <1>b DEF WipeStart
  <2>2. /\ Safe /\ mblk' = mblk /\ dat' = dat /\ committed' = committed
        /\ pc' = "wipe_first"
    BY <1>b, <1>a DEF WipeStart, Protocol
  <2>3. ctx'.active = Other(FirstToErase(readable))
    BY <2>1, <1>a DEF TypeOK
  <2>4. CASE NothingValid
    <3>1. NothingValid' /\ ~missed'
      BY <2>1, <2>2, <2>4, NothingKept DEF NothingValid
    <3> QED
      BY <2>2, <3>1 DEF Protocol, ErasedLast
  <2>5. CASE ~NothingValid
    <3>1. PICK a \in MetaBlock : Current(a)
      BY <2>2, <2>5 DEF Safe
    <3>2. Current(a)'
      BY <1>a, <2>2, <3>1, CurrentKept
    <3>3. SomeValid /\ ActiveMetaBlock = a
      BY <1>a, <3>1, CurrentIsActive
    <3>4. a \in readable => ctx'.active = a
      BY <1>a, <2>3, <3>1, SelectedAmong DEF FirstToErase, Other
    <3>5. ctx'.active \in MetaBlock /\ (ctx'.active # a => Other(ctx'.active) = a)
      BY <2>3 DEF FirstToErase, ActiveAmong, LatestMetaBlock, Other
    <3>6. missed' <=> ctx'.active # a
      BY <2>1, <2>3, <3>3, <3>4
    <3>7. ErasedLast'
      <4>1. CASE missed'
        <5>1. Other(ctx'.active) = a
          BY <3>5, <3>6, <4>1
        <5>2. Current(Other(ctx.active))'
          BY <3>2, <5>1
        <5> QED
          BY <4>1, <5>2 DEF ErasedLast
      <4>2. CASE ~missed'
        <5>1. ctx'.active = a
          BY <3>6, <4>2
        <5>2. Current(ctx.active)'
          BY <3>2, <5>1
        <5> QED
          BY <4>2, <5>2 DEF ErasedLast
      <4> QED
        BY <4>1, <4>2
    <3> QED
      BY <2>2, <3>7 DEF Protocol
  <2> QED
    BY <2>4, <2>5
<1>1. CASE WipeFirst
  <2>1. PICK a \in MetaBlock : a = ctx.active
    BY <1>a DEF TypeOK
  <2>2. IF missed THEN Current(Other(a)) ELSE NothingValid \/ Current(a)
    BY <1>1, <1>a, <2>1 DEF WipeFirst, Protocol, ErasedLast
  <2>3. /\ mblk'[a] = mblk[a] /\ mblk'[Other(a)] = ErasedMeta
        /\ ctx' = ctx /\ dat' = dat /\ committed' = Kept /\ ~missed'
        /\ pc' = "wipe_second"
    BY <1>1, <1>a, <2>1 DEF WipeFirst, TypeOK, Other
  <2>4. NothingValid' \/ Current(a)'
    <3>1. CASE missed
      BY <1>a, <2>1, <2>2, <2>3, <3>1, ErasedMetaType, CurrentMissed
    <3>2. CASE ~missed /\ Current(a)
      <4>1. committed' = committed
        BY <2>3, <3>2 DEF Kept
      <4> QED
        BY <1>a, <2>3, <3>2, <4>1, ErasedMetaType, CurrentKept
    <3>3. CASE ~missed /\ NothingValid
      <4>1. committed' = committed
        BY <2>3, <3>3 DEF Kept
      <4>2. \A b \in MetaBlock : ValidHeader(mblk'[b]) => ValidHeader(mblk[b])
        BY <2>3, ErasedMetaType DEF Other
      <4> QED
        BY <3>3, <4>1, <4>2, NothingKept
    <3> QED
      BY <2>2, <3>1, <3>2, <3>3
  <2>5. NothingValid' \/ Current(ctx.active)'
    BY <2>1, <2>3, <2>4
  <2> QED
    BY <2>1, <2>3, <2>5 DEF Protocol
<1>2. CASE WipeSecond
  <2>1. mblk[Other(ctx.active)] = ErasedMeta /\ ctx.active \in {0, 1} /\ ~missed
    BY <1>2, <1>a DEF WipeSecond, Protocol, TypeOK
  <2>2. mblk'[0] = ErasedMeta /\ mblk'[1] = ErasedMeta
    BY <1>2, <1>a, <2>1 DEF WipeSecond, TypeOK, Other
  <2> QED
    BY <1>2, <2>1, <2>2 DEF WipeSecond, Protocol, Formatting
<1>3. CASE WipeData
  BY <1>3, <1>a DEF WipeData, Protocol, Formatting, DedicatedErased
<1>4. CASE WipeMetadata
  <2> DEFINE m == [mblk[1] EXCEPT !.phy = InitPhy, !.data = [l \in LBlock |-> Erased],
                                  !.ver = Program(mblk[1].ver, issued + 1)]
  <2>1. /\ Formatting /\ mblk[1] = ErasedMeta /\ DedicatedErased
        /\ Other(ctx.active) = 1 /\ ~missed
    BY <1>4, <1>a DEF WipeMetadata, Protocol, Formatting, Other
  <2>2. mblk' = [mblk EXCEPT ![1] = m]
    BY <1>4, <2>1 DEF WipeMetadata
  <2>3. mblk'[0] = mblk[0] /\ mblk'[1] = m
    <3> HIDE DEF m
    <3> QED BY <2>2, <1>a DEF TypeOK
  <2>4. mblk[1] \in MetaContent
    BY <1>a DEF TypeOK
  <2>5. /\ m.fs_version = FALSE
        /\ m.swap = EraseVal
        /\ m.phy = InitPhy
        /\ m.data = [l \in LBlock |-> Erased]
        /\ m.ver = issued + 1
    BY <2>1, <2>4, ErasedMetaType DEF MetaContent, Program
  <2>6. issued + 1 > 0
    BY <1>a
  <2> HIDE DEF m
  <2> QED
    BY <1>4, <2>1, <2>3, <2>5, <2>6
       DEF WipeMetadata, Protocol, Formatting, DedicatedErased
<1>5. CASE WriteHeader /\ pc = "wipe_header"
  <2>1. /\ Formatting /\ DedicatedErased
        /\ mblk[1].phy = InitPhy
        /\ mblk[1].data = [l \in LBlock |-> Erased]
        /\ mblk[1].ver = issued
        /\ issued > 0
        /\ Other(ctx.active) = 1
        /\ ~missed
    BY <1>5, <1>a DEF Protocol, Formatting, Other
  <2>2. /\ mblk'[0] = ErasedMeta
        /\ mblk'[1] = [mblk[1] EXCEPT !.fs_version = TRUE, !.xor = TRUE,
                                      !.swap = NextSwap(ctx.swap),
                                      !.scratch = ctx.scratch]
        /\ dat' = dat
        /\ committed' = issued
        /\ pc' = "prepare"
    <3>1. mblk' = ProgramHeader(1)
      BY <1>5, <2>1 DEF WriteHeader
    <3>2. mblk[0] = ErasedMeta
      BY <2>1 DEF Formatting
    <3>3. dat' = dat /\ committed' = issued /\ pc' = "prepare"
      BY <1>5 DEF WriteHeader
    <3> QED
      BY <3>1, <3>2, <3>3, <1>a DEF ProgramHeader, TypeOK
  <2>3. /\ mblk'[1].fs_version = TRUE /\ mblk'[1].xor = TRUE
        /\ mblk'[1].swap = NextSwap(RolloverVal)
        /\ mblk'[1].scratch = InitScratch
        /\ mblk'[1].phy = InitPhy
        /\ mblk'[1].data = [l \in LBlock |-> Erased]
        /\ mblk'[1].ver = issued
    BY <2>1, <2>2, <1>a DEF Formatting, TypeOK, MetaContent
  <2>4. ValidHeader(mblk'[1])
    BY <2>3, RolloverType, NextSwapType DEF ValidHeader
  <2>5. DataOf(mblk[1])'
    BY <2>1, <2>2, <2>3, InitLayout DEF DataOf, DedicatedErased
  <2>6. Current(1)'
    BY <2>1, <2>2, <2>3, <2>4, <2>5, ErasedMetaType DEF Current, Other
  <2>7. Safe' /\ ~missed'
    BY <1>5, <2>1, <2>6 DEF Safe, WriteHeader
  <2> QED
    BY <2>2, <2>7 DEF Protocol
<1> QED
  BY <1>b, <1>1, <1>2, <1>3, <1>4, <1>5

(* Whenever the power may fail, either nothing was ever committed or one   *)
(* block holds the last commit.                                            *)
LEMMA AlwaysSafe ==
    ASSUME IndInv
    PROVE  Safe
<1> USE DEF MetaBlock
<1>a. TypeOK /\ Protocol
  BY DEF IndInv
<1>1. CASE pc \in {"wipe_data", "wipe_metadata"}
  BY <1>1, <1>a, ErasedMetaType DEF Protocol, Formatting, NothingValid, SomeValid, SomeFound,
         Found, Safe
<1>2. CASE pc = "wipe_header"
  <2>1. ~ValidHeader(mblk[0]) /\ ~ValidHeader(mblk[1]) /\ committed = 0
    BY <1>2, <1>a, ErasedMetaType DEF Protocol, Formatting, ValidHeader
  <2> QED
    BY <2>1 DEF NothingValid, SomeValid, SomeFound, Found, Safe
<1>3. CASE pc \notin {"wipe_data", "wipe_metadata", "wipe_header"}
  BY <1>3, <1>a DEF Protocol, Loaded, TypeOK, PcLabel, Safe, ErasedLast, Other
<1> QED
  BY <1>1, <1>2, <1>3

(* A power failure before, in or after any flash operation. *)
LEMMA CrashSteps ==
    ASSUME IndInv,
           \/ Crash \/ CrashInProgram \/ CrashInHeader
           \/ CrashInEraseMeta \/ CrashInEraseData \/ CrashInWipe
    PROVE  Protocol'
<1> USE DEF MetaBlock
<1>a. TypeOK /\ Protocol /\ ctx.active \in MetaBlock /\ Other(ctx.active) \in MetaBlock
  BY DEF IndInv, TypeOK, Other
<1>b. NothingValid \/ \E a \in MetaBlock : Current(a)
  BY AlwaysSafe DEF Safe
<1>c. SUFFICES NothingValid' \/ \E a \in MetaBlock : Current(a)'
  BY DEF Crash, CrashInProgram, CrashInHeader, CrashInEraseMeta,
         CrashInEraseData, CrashInWipe, PowerLost, Protocol, Safe
<1>d. ASSUME NEW a \in MetaBlock, a = ctx.active, Current(a),
             mblk'[a] = mblk[a], committed' = committed,
             \A d \in DBlock : d # mblk[a].scratch => dat'[d] = dat[d],
             ~ValidHeader(mblk'[Other(a)])
      PROVE  Current(a)'
  BY <1>a, <1>d, CurrentKept
<1>1. CASE Crash
  <2>1. NothingValid => NothingValid'
    BY <1>1, NothingKept DEF Crash
  <2>2. ASSUME NEW a \in MetaBlock, Current(a) PROVE Current(a)'
    BY <1>1, <1>a, <2>2, CurrentKept DEF Crash
  <2> QED
    BY <1>b, <2>1, <2>2
<1>2. CASE CrashInProgram /\ pc = "ready"
  <2>1. PICK a \in MetaBlock : a = ctx.active
    BY <1>a
  <2>2. Current(a) /\ ctx.scratch = mblk[a].scratch /\ mblk[Other(a)] = ErasedMeta
    BY <1>2, <1>a, <2>1 DEF Protocol, Loaded
  <2>3. \A d \in DBlock : d # mblk[a].scratch => dat'[d] = dat[d]
    BY <1>2, <1>a, <2>2 DEF CrashInProgram, TypeOK
  <2> QED
    BY <1>2, <1>d, <2>1, <2>2, <2>3, ErasedMetaType DEF CrashInProgram
<1>3. CASE CrashInProgram /\ pc = "metadata"
  <2>1. PICK a \in MetaBlock : a = ctx.active
    BY <1>a
  <2>2. Current(a) /\ mblk[Other(a)] = ErasedMeta
    BY <1>3, <1>a, <2>1 DEF Protocol, Loaded
  <2>3. /\ mblk'[a] = mblk[a]
        /\ mblk'[Other(a)] = [mblk[Other(a)] EXCEPT !.ver = Garbage]
        /\ dat' = dat /\ committed' = committed
    BY <1>3, <1>a, <2>1 DEF CrashInProgram, TypeOK, Other
  <2>4. ~ValidHeader(mblk'[Other(a)])
    BY <2>2, <2>3, ErasedMetaType DEF ValidHeader, MetaContent
  <2> QED
    BY <1>d, <2>1, <2>2, <2>3, <2>4
<1>4. CASE CrashInProgram /\ pc = "wipe_metadata"
  <2>1. /\ mblk[0] = ErasedMeta /\ mblk[1] = ErasedMeta
        /\ Other(ctx.active) = 1 /\ committed = 0
    BY <1>4, <1>a DEF Protocol, Formatting, Other
  <2>2. /\ mblk'[0] = ErasedMeta
        /\ mblk'[1] = [ErasedMeta EXCEPT !.ver = Garbage]
        /\ committed' = 0
    BY <1>4, <1>a, <2>1 DEF CrashInProgram, TypeOK
  <2>3. ~ValidHeader(mblk'[0]) /\ ~ValidHeader(mblk'[1])
    BY <2>2, ErasedMetaType DEF ValidHeader, MetaContent
  <2> QED
    BY <2>2, <2>3 DEF NothingValid, SomeValid, SomeFound, Found
<1>5. CASE CrashInHeader /\ pc = "header"
  <2>1. PICK a \in MetaBlock : a = ctx.active
    BY <1>a
  <2> DEFINE s == Other(a)
  <2>2. Current(a)
    BY <1>5, <1>a, <2>1 DEF Protocol, Loaded
  <2>3. /\ mblk'[a] = mblk[a]
        /\ mblk'[s].swap = mblk[s].swap
        /\ dat' = dat /\ committed' = committed
    BY <1>5, <1>a, <2>1 DEF CrashInHeader, ProgramHeader, TypeOK, Other, MetaContent
  <2>4. ~ValidSwapCount(mblk[s].swap)
    BY <1>5, <1>a, <2>1 DEF Protocol, ScratchMetadata, ValidSwapCount
  <2> QED
    BY <1>d, <2>1, <2>2, <2>3, <2>4 DEF ValidHeader
<1>6. CASE CrashInHeader /\ pc = "wipe_header"
  <2>1. /\ mblk[0] = ErasedMeta /\ Other(ctx.active) = 1 /\ committed = 0
        /\ ~ValidSwapCount(mblk[1].swap)
    BY <1>6, <1>a DEF Protocol, Formatting, Other, ValidSwapCount
  <2>2. /\ mblk'[0] = ErasedMeta /\ mblk'[1].swap = mblk[1].swap /\ committed' = 0
    BY <1>6, <1>a, <2>1 DEF CrashInHeader, ProgramHeader, TypeOK, MetaContent
  <2>3. ~ValidHeader(mblk'[0]) /\ ~ValidHeader(mblk'[1])
    BY <2>1, <2>2, ErasedMetaType DEF ValidHeader
  <2> QED
    BY <2>2, <2>3 DEF NothingValid, SomeValid, SomeFound, Found
<1>e. ASSUME NEW a \in MetaBlock, a = ctx.active,
             IF missed THEN Current(Other(a)) ELSE NothingValid \/ Current(a),
             mblk'[a] = mblk[a], committed' = Kept, dat' = dat,
             ~ValidHeader(mblk'[Other(a)])
      PROVE  NothingValid' \/ Current(a)'
  <2>1. CASE missed
    BY <1>a, <1>e, <2>1, CurrentMissed
  <2>2. CASE ~missed /\ Current(a)
    <3>1. committed' = committed
      BY <1>e, <2>2 DEF Kept
    <3> QED
      BY <1>d, <1>e, <2>2, <3>1
  <2>3. CASE ~missed /\ NothingValid
    <3>1. committed' = committed
      BY <1>e, <2>3 DEF Kept
    <3>2. \A b \in MetaBlock : ValidHeader(mblk'[b]) => ValidHeader(mblk[b])
      BY <1>e DEF Other
    <3> QED
      BY <2>3, <3>1, <3>2, NothingKept
  <2> QED
    BY <1>e, <2>1, <2>2, <2>3
<1>7. CASE CrashInEraseMeta
  <2>1. PICK a \in MetaBlock : a = ctx.active
    BY <1>a
  <2>2. IF missed THEN Current(Other(a)) ELSE NothingValid \/ Current(a)
    BY <1>7, <1>a, <2>1 DEF CrashInEraseMeta, Protocol, Loaded
  <2>3. /\ mblk'[a] = mblk[a]
        /\ mblk'[Other(a)].xor = FALSE
        /\ dat' = dat /\ committed' = Kept
    BY <1>7, <1>a, <2>1 DEF CrashInEraseMeta, TypeOK, Other, MetaContent
  <2> QED
    BY <1>e, <2>1, <2>2, <2>3 DEF ValidHeader
<1>8. CASE CrashInEraseData
  <2>1. PICK a \in MetaBlock : a = ctx.active
    BY <1>a
  <2>2. Current(a) /\ ctx.scratch = mblk[a].scratch /\ mblk[Other(a)] = ErasedMeta
    BY <1>8, <1>a, <2>1 DEF CrashInEraseData, Protocol, Loaded
  <2>3. \A d \in DBlock : d # mblk[a].scratch => dat'[d] = dat[d]
    BY <1>8, <1>a, <2>2 DEF CrashInEraseData, TypeOK
  <2> QED
    BY <1>8, <1>d, <2>1, <2>2, <2>3, ErasedMetaType DEF CrashInEraseData
<1>9. CASE CrashInWipe /\ pc = "wipe_first"
  <2>1. PICK a \in MetaBlock : a = ctx.active
    BY <1>a
  <2>2. IF missed THEN Current(Other(a)) ELSE NothingValid \/ Current(a)
    BY <1>9, <1>a, <2>1 DEF Protocol, ErasedLast
  <2>3. /\ mblk'[a] = mblk[a]
        /\ mblk'[Other(a)].xor = FALSE
        /\ dat' = dat /\ committed' = Kept
    BY <1>9, <1>a, <2>1 DEF CrashInWipe, TypeOK, Other, MetaContent
  <2> QED
    BY <1>e, <2>1, <2>2, <2>3 DEF ValidHeader
<1>10. CASE CrashInWipe /\ pc = "wipe_second"
  <2>1. mblk[Other(ctx.active)] = ErasedMeta
    BY <1>10, <1>a DEF Protocol
  <2>2. /\ mblk'[ctx.active].xor = FALSE
        /\ mblk'[Other(ctx.active)] = ErasedMeta
        /\ committed' = 0
    BY <1>10, <1>a, <2>1 DEF CrashInWipe, TypeOK, MetaContent, Other
  <2>3. \A b \in MetaBlock : b = ctx.active \/ b = Other(ctx.active)
    BY <1>a DEF Other
  <2>4. \A b \in MetaBlock : ~ValidHeader(mblk'[b])
    BY <2>2, <2>3, ErasedMetaType DEF ValidHeader
  <2> QED
    BY <2>2, <2>4 DEF NothingValid, SomeValid, SomeFound, Found
<1> QED
  BY <1>1, <1>2, <1>3, <1>4, <1>5, <1>6, <1>7, <1>8, <1>9, <1>10
     DEF CrashInProgram, CrashInHeader, CrashInWipe

(* Every step of the protocol preserves the inductive invariant. *)
LEMMA StepIndInv == IndInv /\ [Next]_vars => IndInv'
<1> SUFFICES ASSUME IndInv, [Next]_vars PROVE IndInv'
  OBVIOUS
<1>1. TypeOK'
  BY StepTypeOK DEF IndInv
<1>2. committed' <= issued'
  <2>1. committed \in Nat /\ issued \in Nat /\ committed <= issued
    BY DEF IndInv, TypeOK
  <2>2. /\ committed' \in {committed, issued, 0} \cup 0 .. committed
        /\ issued' \in {issued, issued + 1}
    BY KeptBound
       DEF Next, vars, Prepare, PrepareFails, EraseMeta, EraseData, WriteData,
           WriteNoData, WriteMetadata, WriteHeader, WipeStart, WipeFirst, WipeSecond,
           WipeData, WipeMetadata, Crash, CrashInProgram, CrashInHeader,
           CrashInEraseMeta, CrashInEraseData, CrashInWipe, PowerLost
  <2> QED
    BY <2>1, <2>2
<1>3. Protocol'
  <2>1. CASE UNCHANGED vars
    <3>0. /\ mblk' = mblk /\ dat' = dat /\ ctx' = ctx /\ upd' = upd /\ pc' = pc
          /\ issued' = issued /\ committed' = committed /\ missed' = missed
      BY <2>1 DEF vars
    <3>1. \A a : Current(a)' <=> Current(a)
      BY <3>0 DEF Current, DataOf
    <3>2. NothingValid' <=> NothingValid
      BY <3>0 DEF NothingValid, SomeValid, SomeFound, Found
    <3>3. (Safe' <=> Safe) /\ (Loaded' <=> Loaded) /\ (ErasedLast' <=> ErasedLast)
      BY <3>0, <3>1, <3>2 DEF Safe, Loaded, ErasedLast
    <3>4. /\ Rewritten' <=> Rewritten
          /\ ScratchMetadata' <=> ScratchMetadata
          /\ Formatting' <=> Formatting
          /\ DedicatedErased' <=> DedicatedErased
      BY <3>0 DEF Rewritten, ScratchMetadata, Formatting, DedicatedErased
    <3> QED
      BY <3>0, <3>1, <3>2, <3>3, <3>4 DEF IndInv, Protocol
  <2>2. CASE WriteHeader
    BY <2>2, CommitStep, WipeSteps DEF WriteHeader
  <2>3. CASE Next /\ ~WriteHeader
    BY <2>3, StartSteps, UpdateSteps, WipeSteps, CrashSteps DEF Next
  <2> QED
    BY <2>1, <2>2, <2>3
<1> QED
  BY <1>1, <1>2, <1>3 DEF IndInv

(* The inductive invariant holds in every reachable state. *)
THEOREM IndInvCorrect == Spec => []IndInv
BY InitIndInv, StepIndInv, PTL DEF Spec

(* Every reachable state of the protocol is well typed. *)
THEOREM TypeCorrect == Spec => []TypeOK
<1>1. IndInv => TypeOK
  BY DEF IndInv
<1> QED
  BY <1>1, IndInvCorrect, PTL

-------------------------------------------------------------------------------
(* The properties *)

(* The invariant implies what a restart finds. *)
LEMMA IndInvRecovers == IndInv => RecoversLastCommit /\ CommittedDataIntact
<1> SUFFICES ASSUME IndInv PROVE RecoversLastCommit /\ CommittedDataIntact
  OBVIOUS
<1>1. TypeOK
  BY DEF IndInv
<1>2. CASE NothingValid
  BY <1>2 DEF NothingValid, RecoversLastCommit, Recovered, CommittedDataIntact
<1>3. CASE \E a \in MetaBlock : Current(a)
  <2>1. PICK a \in MetaBlock : Current(a)
    BY <1>3
  <2>2. SomeValid /\ ActiveMetaBlock = a /\ Recovered = committed
    BY <1>1, <2>1, CurrentIsActive
  <2> QED
    BY <2>1, <2>2 DEF RecoversLastCommit, CommittedDataIntact, Current
<1> QED
  BY <1>2, <1>3, AlwaysSafe DEF Safe

(* The invariant implies that an idle file system is ready for an update. *)
LEMMA IndInvReady == IndInv => ReadyIsClean
<1> SUFFICES ASSUME IndInv, pc = "ready" PROVE ReadyIsClean
  BY DEF ReadyIsClean
<1>1. /\ TypeOK
      /\ Current(ctx.active)
      /\ ctx.swap = mblk[ctx.active].swap
      /\ ctx.scratch = mblk[ctx.active].scratch
      /\ mblk[Other(ctx.active)] = ErasedMeta
      /\ dat[ctx.scratch] = Erased
      /\ ctx.active \in MetaBlock
  BY DEF IndInv, Protocol, Loaded, TypeOK
<1>2. SomeValid /\ ActiveMetaBlock = ctx.active
  BY <1>1, CurrentIsActive
<1> QED
  BY <1>1, <1>2 DEF ReadyIsClean

(* A restart at any moment finds the last committed metadata: the commit   *)
(* protocol of etss_flash_fs_mblock_meta_update_finalize and the selection *)
(* of etss_init_get_active_metablock agree, for every number of updates,   *)
(* across every wrap of the swap count and after any number of crashes.    *)
THEOREM RecoveryCorrect == Spec => []RecoversLastCommit
BY IndInvCorrect, IndInvRecovers, PTL

(* The data blocks named by the metadata a restart would load always hold  *)
(* the data they were committed with: no update, erase or wipe touches     *)
(* them before the next commit.                                            *)
THEOREM DataCorrect == Spec => []CommittedDataIntact
BY IndInvCorrect, IndInvRecovers, PTL

(* Whenever the file system is idle, RAM agrees with the flash and both    *)
(* spare blocks are erased.                                                *)
THEOREM ReadyCorrect == Spec => []ReadyIsClean
BY IndInvCorrect, IndInvReady, PTL

(* A step changes the version that a restart would find by a commit, in a  *)
(* wipe, or because the latest header could not be read.                   *)
LEMMA StepNoRollback ==
    ASSUME IndInv, RecoversLastCommit, RecoversLastCommit', [Next]_vars
    PROVE  \/ Recovered' = Recovered
           \/ Recovered' = issued /\ Recovered < issued
           \/ Recovered' = 0 /\ pc \in {"wipe_first", "wipe_second"}
           \/ missed /\ Recovered' = mblk[ctx.active].ver
<1>1. Recovered = committed /\ Recovered' = committed'
  BY DEF RecoversLastCommit
<1>2. CASE WriteHeader
  <2>1. committed' = issued
    BY <1>2 DEF WriteHeader
  <2>2. committed < issued
    BY <1>2 DEF WriteHeader, IndInv, Protocol, Formatting, TypeOK
  <2> QED
    BY <1>1, <2>1, <2>2
<1>3. CASE EraseMeta \/ WipeFirst \/ CrashInEraseMeta \/ CrashInWipe
  <2>1. CASE committed' = Kept
    <3>1. missed => ValidHeader(mblk[ctx.active]) \/ pc = "wipe_first"
      BY DEF IndInv, Protocol
    <3> QED
      BY <1>1, <2>1, <3>1 DEF Kept
  <2>2. CASE committed' # Kept
    BY <1>1, <1>3, <2>2 DEF EraseMeta, WipeFirst, CrashInEraseMeta, CrashInWipe
  <2> QED
    BY <2>1, <2>2
<1>4. CASE WipeSecond
  BY <1>1, <1>4 DEF WipeSecond
<1>5. CASE ~(WriteHeader \/ EraseMeta \/ WipeFirst \/ CrashInEraseMeta \/ CrashInWipe
             \/ WipeSecond)
  <2>1. committed' = committed
    BY <1>5 DEF Next, vars, Prepare, PrepareFails, EraseData, WriteData, WriteNoData,
           WriteMetadata, WipeStart, WipeData, WipeMetadata, Crash, CrashInProgram,
           CrashInHeader, CrashInEraseData
  <2> QED
    BY <1>1, <2>1
<1> QED
  BY <1>2, <1>3, <1>4, <1>5

(* What a restart would find moves forward by a commit or is dropped by a  *)
(* wipe: it goes back to an older version only where the latest of two     *)
(* valid headers could not be read, and then to the older of the two.      *)
THEOREM NoRollbackCorrect == Spec => NoRollback
<1>1. IndInv /\ RecoversLastCommit /\ RecoversLastCommit' /\ [Next]_vars =>
        [\/ Recovered' = Recovered
         \/ Recovered' = issued /\ Recovered < issued
         \/ Recovered' = 0 /\ pc \in {"wipe_first", "wipe_second"}
         \/ missed /\ Recovered' = mblk[ctx.active].ver]_vars
  BY StepNoRollback
<1> QED
  BY <1>1, IndInvCorrect, RecoveryCorrect, PTL DEF Spec, NoRollback
===============================================================================
