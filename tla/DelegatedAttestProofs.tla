----------------------- MODULE DelegatedAttestProofs -----------------------
(***************************************************************************)
(* Proofs about the measured boot partition and about the delegated        *)
(* attestation partition beside it, for any number of slots, clients,      *)
(* signers, boot measurements and calls.                                   *)
(*                                                                         *)
(* Measured boot: everything rests on one fact: whatever step is taken, a  *)
(* slot is left alone or is changed by one outcome of                      *)
(* measured_boot_extend_measurement (SlotStep).                            *)
(*                                                                         *)
(* Delegated attestation: the invariant follows one call for a key: what   *)
(* it has read so far is still a prefix of what the slots hold, and it     *)
(* knows why it left a slot out.                                           *)
(***************************************************************************)
EXTENDS DelegatedAttest, SequenceTheorems, FiniteSetTheorems, TLAPS

-----------------------------------------------------------------------------
(* Measured boot *)

(* What measured_boot_extend_measurement is called with. *)
Extension ==
    {e \in Entry : e.kind = "measurement"} \cup ExtendCall

(* The fields of an extension, wherever it comes from, have their types. *)
LEMMA ExtensionType ==
    ASSUME NEW e \in Extension
    PROVE  /\ e.signer_id \in Signer /\ e.value \in Value
           /\ e.version_size \in 0 .. VersionMax /\ e.sw_type_size \in 0 .. SwTypeMax
           /\ e.lock \in BOOLEAN
BY CallAssumption DEF Extension, Entry, Message, ExtendCall, ReadCall, OtherCall

LEMMA MetadataType ==
    ASSUME NEW sl \in SlotType, NEW e \in Extension
    PROVE  WithMetadata(sl, e) \in SlotType /\ WithMetadata(sl, e).value = sl.value
<1>1. /\ e.signer_id \in Signer
      /\ e.version_size \in 0 .. VersionMax /\ e.sw_type_size \in 0 .. SwTypeMax
  BY ExtensionType
<1>2. 0 \in 0 .. VersionMax /\ 0 \in 0 .. SwTypeMax
  BY SignerAssumption
<1>3. CASE sl.is_populated
  <2>1. WithMetadata(sl, e) = [sl EXCEPT !.version_size = 0, !.sw_type_size = 0]
    BY <1>3 DEF WithMetadata
  <2> QED
    BY <1>2, <2>1 DEF SlotType
<1>4. CASE ~sl.is_populated
  <2>1. WithMetadata(sl, e)
          = [sl EXCEPT !.signer_id = e.signer_id, !.version_size = e.version_size,
                       !.sw_type_size = e.sw_type_size, !.is_populated = TRUE]
    BY <1>4 DEF WithMetadata
  <2> QED
    BY <1>1, <2>1 DEF SlotType
<1> QED
  BY <1>3, <1>4

(* What an outcome of the extension does to a slot: the type is kept, a    *)
(* locked slot is not touched, and the value is kept or gets one more item.*)
LEMMA OutcomeSlot ==
    ASSUME NEW sl \in SlotType, NEW e \in Extension, NEW o \in Outcomes(sl, e)
    PROVE  /\ o.st \in Status
           /\ o.sl \in SlotType
           /\ sl.is_locked => o.sl = sl
           /\ o.sl.value = sl.value
                \/ o.sl.value = Append(sl.value, [val |-> e.value, by |-> e.signer_id])
<1>1. /\ e.signer_id \in Signer /\ e.value \in Value
      /\ e.version_size \in 0 .. VersionMax /\ e.sw_type_size \in 0 .. SwTypeMax
      /\ e.lock \in BOOLEAN
  BY ExtensionType
<1>2. [val |-> e.value, by |-> e.signer_id] \in Measured
  BY <1>1 DEF Measured
<1>3. WithMetadata(sl, e) \in SlotType /\ WithMetadata(sl, e).value = sl.value
  BY MetadataType
<1>4. Append(sl.value, [val |-> e.value, by |-> e.signer_id]) \in Seq(Measured)
  BY <1>2 DEF SlotType
<1>5. /\ WithMeasurement(sl, e) \in SlotType
      /\ WithMeasurement(sl, e).value
           = Append(sl.value, [val |-> e.value, by |-> e.signer_id])
  BY <1>1, <1>3, <1>4 DEF WithMeasurement, SlotType
<1>6. CASE o = Extended(sl, e)
  BY <1>5, <1>6 DEF Extended, Status
<1>7. CASE o = HashFailed(sl, e) /\ Extended(sl, e).st = "ok"
  <2>1. ~sl.is_locked
    BY <1>7 DEF Extended
  <2> QED
    BY <2>1, <1>3, <1>7 DEF HashFailed, Status
<1> QED
  BY <1>6, <1>7 DEF Outcomes

(* A message of the given type is a call with the fields of that type. *)
LEMMA MessageFields ==
    ASSUME NEW m \in Message \cup {NoMsg, Taken}
    PROVE  /\ m.type = "extend" =>
                m \in Extension /\ m.index \in 0 .. 255 /\ m.checked \in Status
           /\ m.type = "read" => m.index \in 0 .. 255 /\ m.checked \in Status
<1>1. m.type = "extend" => m \in ExtendCall
  BY DEF NoMsg, Taken, Message, ExtendCall, ReadCall, OtherCall
<1>2. m.type = "read" => m \in ReadCall
  BY DEF NoMsg, Taken, Message, ExtendCall, ReadCall, OtherCall
<1>3. m \in ExtendCall =>
        m \in Extension /\ m.index \in 0 .. 255 /\ m.checked \in Status
  BY DEF ExtendCall, Extension, Status
<1>4. m \in ReadCall => m.index \in 0 .. 255 /\ m.checked \in Status
  BY DEF ReadCall, Status
<1> QED
  BY <1>1, <1>2, <1>3, <1>4

(* The check of the index leaves only the indices of slots. *)
LEMMA IndexChecked ==
    ASSUME NEW i \in 0 .. 255
    PROVE  i \in Slot <=> ~(i >= NumSlots)
BY SlotAssumption DEF Slot

(* The partition among clients that may send any message at any time: the  *)
(* step of Spec and of every specification that composes the partition     *)
(* with clients of its own.                                                *)
OpenNext ==
    \/ Collect \/ CollectNothing
    \/ \E c \in Client : Handle(c)
    \/ \E c \in Client, m \in Message : Send(c, m)

OpenSpec == Init /\ [][OpenNext]_vars

LEMMA SpecIsOpen == Spec => OpenSpec
<1>1. [Next]_vars => [OpenNext]_vars
  BY CallAssumption DEF Next, OpenNext
<1> QED
  BY <1>1, PTL DEF Spec, OpenSpec

(* Every step leaves a slot alone, or changes it by an outcome of an       *)
(* extension of that slot.                                                 *)
SlotMove(s) ==
    \/ slot'[s] = slot[s]
    \/ \E e \in Extension : \E o \in Outcomes(slot[s], e) : slot'[s] = o.sl

LEMMA SlotStep ==
    ASSUME TypeOK, [OpenNext]_vars
    PROVE  \A s \in Slot : SlotMove(s)
<1>1. CASE UNCHANGED slot
  BY <1>1 DEF SlotMove
<1>2. CASE Collect
  <2>1. CASE UNCHANGED slot
    BY <2>1 DEF SlotMove
  <2>2. CASE WellFormed(shared[tlv_curr])
    <3> DEFINE e == shared[tlv_curr]
    <3>1. e \in Entry
      BY <1>2 DEF Collect, TypeOK
    <3>2. e \in Extension /\ e.index \in Slot
      BY <3>1, <2>2 DEF Extension, WellFormed, Entry
    <3>3. PICK o \in Outcomes(slot[e.index], e) : slot' = [slot EXCEPT ![e.index] = o.sl]
      BY <1>2, <2>2 DEF Collect
    <3> QED
      BY <3>2, <3>3 DEF SlotMove, TypeOK
  <2> QED
    BY <1>2, <2>1, <2>2 DEF Collect
<1>3. ASSUME NEW c \in Client, HandleExtend(c)
      PROVE  \A s \in Slot : SlotMove(s)
  <2> DEFINE m == msg[c]
  <2>1. m \in Message \cup {NoMsg, Taken}
    BY DEF TypeOK
  <2>2. m \in Extension /\ m.index \in 0 .. 255
    BY <1>3, <2>1, MessageFields DEF HandleExtend
  <2>3. CASE UNCHANGED slot
    BY <2>3 DEF SlotMove
  <2>4. CASE m.index \in Slot /\ ~UNCHANGED slot
    <3>1. PICK o \in Outcomes(slot[m.index], m) : slot' = [slot EXCEPT ![m.index] = o.sl]
      BY <1>3, <2>2, <2>4, IndexChecked DEF HandleExtend
    <3> QED
      BY <2>2, <2>4, <3>1 DEF SlotMove, TypeOK
  <2>5. CASE m.index \notin Slot
    <3>1. m.index >= NumSlots
      BY <2>2, <2>5, IndexChecked
    <3> QED
      BY <1>3, <2>3, <3>1 DEF HandleExtend
  <2> QED
    BY <2>3, <2>4, <2>5
<1> QED
  BY <1>1, <1>2, <1>3
  DEF OpenNext, CollectNothing, Send, Handle, HandleRead, HandleOther, vars

-----------------------------------------------------------------------------
(* The type invariant *)

LEMMA TypeInit == Init => TypeOK
<1> SUFFICES ASSUME Init PROVE TypeOK
  OBVIOUS
<1>1. EmptySlot \in SlotType
  BY SignerAssumption DEF EmptySlot, SlotType
<1>2. slot \in [Slot -> SlotType]
  BY <1>1 DEF Init
<1>3. shared \in Seq(Entry) /\ tlv_curr \in 1 .. Len(shared) + 1
  BY BootAssumption DEF Init
<1> QED
  BY <1>2, <1>3 DEF Init, TypeOK, Answer, Status

LEMMA TypeStep == TypeOK /\ [OpenNext]_vars => TypeOK'
<1> SUFFICES ASSUME TypeOK, [OpenNext]_vars PROVE TypeOK'
  OBVIOUS
<1>1. slot' \in [Slot -> SlotType]
  <2>1. ASSUME NEW s \in Slot PROVE slot'[s] \in SlotType
    BY SlotStep, OutcomeSlot DEF SlotMove, TypeOK
  <2>2. \E f : slot' = [s \in Slot |-> f[s]]
    <3>1. slot' = slot \/ \E i, x : slot' = [slot EXCEPT ![i] = x]
      BY DEF OpenNext, Collect, CollectNothing, Send, Handle, HandleExtend, HandleRead,
             HandleOther, vars
    <3> QED
      BY <3>1 DEF TypeOK
  <2> QED
    BY <2>1, <2>2
<1>2. shared' = shared
  BY DEF OpenNext, Collect, CollectNothing, Send, Handle, HandleExtend, HandleRead,
         HandleOther, vars
<1>3. /\ tlv_curr' \in 1 .. Len(shared) + 1
      /\ pc' \in {"collect", "serve", "panic"}
  <2>1. CASE Collect
    <3>1. tlv_curr' = tlv_curr \/ tlv_curr' = tlv_curr + 1
      BY <2>1 DEF Collect
    <3>2. tlv_curr <= Len(shared) /\ Len(shared) \in Nat
      BY <2>1 DEF Collect, TypeOK
    <3>3. tlv_curr \in 1 .. Len(shared) + 1
      BY DEF TypeOK
    <3>4. pc' \in {"collect", "serve", "panic"}
      BY <2>1 DEF Collect
    <3> QED
      BY <3>1, <3>2, <3>3, <3>4
  <2>2. CASE ~Collect
    BY <2>2 DEF TypeOK, OpenNext, CollectNothing, Send, Handle, HandleExtend,
                HandleRead, HandleOther, vars
  <2> QED
    BY <2>1, <2>2
<1>4. msg' \in [Client -> Message \cup {NoMsg, Taken}]
  BY DEF TypeOK, OpenNext, Collect, CollectNothing, Send, Handle, HandleExtend,
         HandleRead, HandleOther, Reply, vars
<1>5. answer' \in [Client -> Answer]
  <2>1. ASSUME NEW c \in Client, NEW a \in Answer, Reply(c, a)
        PROVE  answer' \in [Client -> Answer]
    BY <2>1 DEF Reply, TypeOK
  <2>2. ASSUME NEW c \in Client, HandleRead(c)
        PROVE  answer' \in [Client -> Answer]
    <3>1. msg[c].index \in 0 .. 255 /\ msg[c].checked \in Status
      BY <2>2, MessageFields DEF HandleRead, TypeOK
    <3>2. msg[c].index \in Slot => slot[msg[c].index] \in SlotType
      BY DEF TypeOK
    <3>3. \A st \in Status : [status |-> st] \in Answer
      BY DEF Answer
    <3>4. {"invalid_argument", "does_not_exist"} \subseteq Status
      BY DEF Status
    <3>5. ASSUME NEW i \in Slot, NEW sl \in SlotType
          PROVE  [status |-> "ok", index |-> i, value |-> sl.value,
                  signer_id |-> sl.signer_id, version_size |-> sl.version_size,
                  sw_type_size |-> sl.sw_type_size, is_locked |-> sl.is_locked]
                 \in Answer
      BY DEF Answer, SlotType
    <3>6. ReadOf(msg[c]) \in Answer
      BY <3>1, <3>2, <3>3, <3>4, <3>5, IndexChecked DEF ReadOf
    <3> QED
      BY <2>1, <2>2, <3>6 DEF HandleRead
  <2>3. ASSUME NEW c \in Client, HandleExtend(c)
        PROVE  answer' \in [Client -> Answer]
    <3>1. /\ msg[c] \in Extension
          /\ msg[c].index \in 0 .. 255 /\ msg[c].checked \in Status
      BY <2>3, MessageFields DEF HandleExtend, TypeOK
    <3>2. [status |-> msg[c].checked] \in Answer
          /\ [status |-> "invalid_argument"] \in Answer
      BY <3>1 DEF Answer, Status
    <3>3. ASSUME msg[c].index \in Slot, NEW o \in Outcomes(slot[msg[c].index], msg[c])
          PROVE  [status |-> o.st] \in Answer
      <4>1. slot[msg[c].index] \in SlotType
        BY <3>3 DEF TypeOK
      <4> QED
        BY <4>1, <3>1, OutcomeSlot DEF Answer
    <3> QED
      BY <2>1, <2>3, <3>1, <3>2, <3>3, IndexChecked DEF HandleExtend
  <2> QED
    BY <2>2, <2>3
    DEF TypeOK, OpenNext, Collect, CollectNothing, Send, Handle, HandleOther, vars
<1> QED
  BY <1>1, <1>2, <1>3, <1>4, <1>5 DEF TypeOK

LEMMA OpenType == OpenSpec => []TypeOK
BY TypeInit, TypeStep, PTL DEF OpenSpec

(* Every reachable state of the partition is well typed: slots hold        *)
(* measurements of known signers, replies have the form of a reply.        *)
THEOREM TypeCorrect == Spec => []TypeOK
BY OpenType, SpecIsOpen, PTL

-----------------------------------------------------------------------------
(* Locked slots and measurements already taken *)

(* Appending keeps what was a prefix a prefix. *)
LEMMA PrefixAppend ==
    ASSUME NEW S, NEW s \in Seq(S), NEW t \in Seq(S), NEW x \in S, IsPrefix(s, t)
    PROVE  IsPrefix(s, Append(t, x))
<1>1. /\ Len(s) \in Nat /\ Len(t) \in Nat /\ Len(s) <= Len(t)
      /\ Len(Append(t, x)) = Len(t) + 1
  BY DEF IsPrefix
<1>2. SubSeq(Append(t, x), 1, Len(s)) = SubSeq(t, 1, Len(s))
  BY <1>1
<1> QED
  BY <1>1, <1>2 DEF IsPrefix

LEMMA PrefixSelf ==
    ASSUME NEW S, NEW s \in Seq(S)
    PROVE  IsPrefix(s, s)
BY DEF IsPrefix

(* One step of a slot, in the terms of the properties. *)
LEMMA SlotGrows ==
    ASSUME TypeOK, [OpenNext]_vars, NEW s \in Slot
    PROVE  /\ slot[s].is_locked => slot'[s] = slot[s]
           /\ \A v \in Seq(Measured) :
                IsPrefix(v, slot[s].value) => IsPrefix(v, slot'[s].value)
<1>1. slot[s] \in SlotType
  BY DEF TypeOK
<1>2. CASE slot'[s] = slot[s]
  BY <1>2
<1>3. ASSUME NEW e \in Extension, NEW o \in Outcomes(slot[s], e), slot'[s] = o.sl
      PROVE  /\ slot[s].is_locked => slot'[s] = slot[s]
             /\ \A v \in Seq(Measured) :
                  IsPrefix(v, slot[s].value) => IsPrefix(v, slot'[s].value)
  <2>1. /\ slot[s].is_locked => o.sl = slot[s]
        /\ \/ o.sl.value = slot[s].value
           \/ o.sl.value = Append(slot[s].value,
                                  [val |-> e.value, by |-> e.signer_id])
    BY <1>1, OutcomeSlot
  <2>2. [val |-> e.value, by |-> e.signer_id] \in Measured
    BY ExtensionType DEF Measured
  <2>3. slot[s].value \in Seq(Measured)
    BY <1>1 DEF SlotType
  <2> QED
    BY <1>3, <2>1, <2>2, <2>3, PrefixAppend
<1> QED
  BY <1>2, <1>3, SlotStep DEF SlotMove

LEMMA OpenLockedIsFinal == OpenSpec => LockedIsFinal
<1>1. TypeOK /\ [OpenNext]_vars =>
        [\A s \in Slot :
           /\ slot[s].is_locked => slot'[s] = slot[s]
           /\ IsPrefix(slot[s].value, slot'[s].value)]_vars
  <2> SUFFICES ASSUME TypeOK, [OpenNext]_vars, NEW s \in Slot
               PROVE  /\ slot[s].is_locked => slot'[s] = slot[s]
                      /\ IsPrefix(slot[s].value, slot'[s].value)
    OBVIOUS
  <2>1. slot[s].value \in Seq(Measured)
    BY DEF TypeOK, SlotType
  <2> QED
    BY <2>1, SlotGrows, PrefixSelf
<1> QED
  BY <1>1, OpenType, PTL DEF OpenSpec, LockedIsFinal

(* No call and no boot measurement ever changes a locked slot, or rewrites *)
(* a measurement: it is only extended.                                     *)
THEOREM LockedIsFinalCorrect == Spec => LockedIsFinal
BY OpenLockedIsFinal, SpecIsOpen, PTL

-----------------------------------------------------------------------------
(* What clients were told *)

LEMMA ReadsInit == Init => ReadsStayTrue
BY DEF Init, ReadsStayTrue

LEMMA ReadsStep == TypeOK /\ ReadsStayTrue /\ [OpenNext]_vars => ReadsStayTrue'
<1> SUFFICES ASSUME TypeOK, ReadsStayTrue, [OpenNext]_vars, NEW c \in Client,
                    "value" \in DOMAIN answer'[c]
             PROVE  LET now == slot'[answer'[c].index]
                    IN  /\ IsPrefix(answer'[c].value, now.value)
                        /\ answer'[c].is_locked =>
                             now.is_locked /\ answer'[c].value = now.value
  BY DEF ReadsStayTrue
<1>1. CASE answer'[c] = answer[c]
  <2> DEFINE i == answer[c].index
  <2>1. /\ "value" \in DOMAIN answer[c]
        /\ IsPrefix(answer[c].value, slot[i].value)
        /\ answer[c].is_locked => slot[i].is_locked /\ answer[c].value = slot[i].value
    BY <1>1 DEF ReadsStayTrue
  <2>2. i \in Slot /\ answer[c].value \in Seq(Measured)
    BY <2>1 DEF TypeOK, Answer
  <2>3. /\ IsPrefix(answer[c].value, slot'[i].value)
        /\ slot[i].is_locked => slot'[i] = slot[i]
    BY <2>1, <2>2, SlotGrows
  <2> QED
    BY <1>1, <2>1, <2>3
<1>2. CASE HandleRead(c)
  <2> DEFINE m == msg[c]
             i == m.index
  <2>1. answer'[c] = ReadOf(m) /\ slot' = slot
    BY <1>2 DEF HandleRead, Reply, TypeOK
  <2>2. i \in 0 .. 255
    BY <1>2, MessageFields DEF HandleRead, TypeOK
  <2>3. "value" \in DOMAIN ReadOf(m)
    BY <2>1
  <2>4. /\ ~(i >= NumSlots)
        /\ ReadOf(m) = [status |-> "ok", index |-> i, value |-> slot[i].value,
                        signer_id |-> slot[i].signer_id,
                        version_size |-> slot[i].version_size,
                        sw_type_size |-> slot[i].sw_type_size,
                        is_locked |-> slot[i].is_locked]
    BY <2>3 DEF ReadOf
  <2>5. slot[i].value \in Seq(Measured)
    BY <2>2, <2>4, IndexChecked DEF TypeOK, SlotType
  <2> QED
    BY <2>1, <2>4, <2>5, PrefixSelf
<1>3. ASSUME NEW d \in Client, HandleExtend(d) \/ (HandleRead(d) /\ d # c)
      PROVE  answer'[c] = answer[c]
  <2>1. CASE d # c
    BY <1>3, <2>1 DEF HandleExtend, HandleRead, Reply, TypeOK
  <2>2. CASE d = c
    <3>1. \E st : answer'[c] = [status |-> st]
      BY <1>3, <2>2 DEF HandleExtend, Reply, TypeOK
    <3>2. \A st : DOMAIN [status |-> st] = {"status"}
      OBVIOUS
    <3> QED
      BY <3>1, <3>2
  <2> QED
    BY <2>1, <2>2
<1>4. CASE UNCHANGED answer
  BY <1>1, <1>4
<1> QED
  BY <1>1, <1>2, <1>3, <1>4
  DEF OpenNext, Collect, CollectNothing, Send, Handle, HandleOther, vars

LEMMA OpenReadsStayTrue == OpenSpec => []ReadsStayTrue
BY ReadsInit, ReadsStep, OpenType, PTL DEF OpenSpec

(* A reply stays true after it is given: calls of other clients only extend *)
(* the measurement that was read, and do not touch it if it was locked.     *)
THEOREM ReadsStayTrueCorrect == Spec => []ReadsStayTrue
BY OpenReadsStayTrue, SpecIsOpen, PTL

-----------------------------------------------------------------------------
(* Owners *)

(* All signer ids have one length, as hashes of one algorithm do. *)
OneLength == \A i, j \in Signer : Len(i) = Len(j)

(* An empty slot has no owner and no value; the owner of another is a      *)
(* signer, and all its values are the owner's.                             *)
Owned(sl) ==
    /\ ~sl.is_populated => sl.value = << >> /\ sl.signer_id = << >>
    /\ sl.is_populated => sl.signer_id \in Signer
    /\ \A j \in 1 .. Len(sl.value) : sl.value[j].by = sl.signer_id

(* Ids of one length that the comparison does not tell apart are equal. *)
LEMMA SameSigner ==
    ASSUME OneLength, NEW stored \in Signer, NEW id \in Signer,
           ~SignerDiffers(stored, id)
    PROVE  id = stored
<1>1. Len(stored) = Len(id) /\ stored \in Seq(Nat) /\ id \in Seq(Nat)
      /\ Len(id) \in 1 .. SignerMax /\ SignerMax \in Nat
  BY SignerAssumption DEF OneLength
<1>2. ASSUME NEW j \in 1 .. Len(stored) PROVE stored[j] = id[j]
  <2>1. j \in 1 .. SignerMax /\ j <= Len(id)
    BY <1>1
  <2>2. Padded(id)[j] = id[j]
    BY <2>1 DEF Padded
  <2> QED
    BY <2>2 DEF SignerDiffers
<1> QED
  BY <1>1, <1>2, SeqEqual

LEMMA OutcomeOwned ==
    ASSUME OneLength, NEW sl \in SlotType, Owned(sl), NEW e \in Extension,
           NEW o \in Outcomes(sl, e)
    PROVE  Owned(o.sl)
<1>1. e.signer_id \in Signer /\ e.value \in Value
  BY ExtensionType
<1>2. CASE o.sl = sl
  BY <1>2
<1>3. CASE o.sl # sl
  <2> DEFINE x == [val |-> e.value, by |-> e.signer_id]
             w == WithMetadata(sl, e)
  <2>1. ~SignerDiffers(sl.signer_id, e.signer_id)
    BY <1>3 DEF Outcomes, Extended, AccessProhibited
  <2>2. sl.is_populated => e.signer_id = sl.signer_id
    BY <1>1, <2>1, SameSigner DEF Owned
  <2>3. /\ w.is_populated /\ w.signer_id = e.signer_id /\ w.value = sl.value
    BY <2>2 DEF WithMetadata, SlotType
  <2>4. Owned(w)
    BY <1>1, <2>2, <2>3 DEF Owned, SlotType
  <2>5. CASE o.sl = w
    BY <2>4, <2>5
  <2>6. CASE o.sl = WithMeasurement(sl, e)
    <3>1. /\ o.sl.is_populated = w.is_populated /\ o.sl.signer_id = w.signer_id
          /\ o.sl.value = Append(w.value, x)
      BY <2>6 DEF WithMeasurement, WithMetadata, SlotType
    <3>2. sl.value \in Seq(Measured) /\ x \in Measured
      BY <1>1 DEF SlotType, Measured
    <3>3. /\ Len(o.sl.value) = Len(sl.value) + 1 /\ Len(sl.value) \in Nat
          /\ \A j \in 1 .. Len(sl.value) : o.sl.value[j] = sl.value[j]
          /\ o.sl.value[Len(sl.value) + 1] = x
      BY <2>3, <3>1, <3>2, AppendProperties
    <3>4. ASSUME NEW j \in 1 .. Len(o.sl.value) PROVE o.sl.value[j].by = e.signer_id
      <4>1. j \in 1 .. Len(sl.value) \/ j = Len(sl.value) + 1
        BY <3>3
      <4>2. CASE j \in 1 .. Len(sl.value)
        BY <2>3, <2>4, <3>3, <4>2 DEF Owned
      <4>3. CASE j = Len(sl.value) + 1
        BY <3>3, <4>3
      <4> QED
        BY <4>1, <4>2, <4>3
    <3> QED
      BY <1>1, <2>3, <3>1, <3>4 DEF Owned
  <2> QED
    BY <1>3, <2>5, <2>6 DEF Outcomes, Extended, HashFailed
<1> QED
  BY <1>2, <1>3

AllOwned == \A s \in Slot : Owned(slot[s])

LEMMA OwnedInit == Init => AllOwned
BY DEF Init, AllOwned, Owned, EmptySlot

LEMMA OwnedStep == OneLength /\ TypeOK /\ AllOwned /\ [OpenNext]_vars => AllOwned'
<1> SUFFICES ASSUME OneLength, TypeOK, AllOwned, [OpenNext]_vars, NEW s \in Slot
             PROVE  Owned(slot'[s])
  BY DEF AllOwned
<1>1. slot[s] \in SlotType /\ Owned(slot[s])
  BY DEF TypeOK, AllOwned
<1> QED
  BY <1>1, SlotStep, OutcomeOwned DEF SlotMove

LEMMA OpenOwnerOnly ==
    ASSUME OneLength
    PROVE  OpenSpec => []OwnerOnly
<1>1. AllOwned => OwnerOnly
  BY DEF AllOwned, Owned, OwnerOnly
<1>2. TypeOK /\ AllOwned /\ [OpenNext]_vars => AllOwned'
  BY OwnedStep
<1> QED
  BY <1>1, <1>2, OwnedInit, OpenType, PTL DEF OpenSpec

(* When signer ids have one length, a measurement holds values of one      *)
(* signer only: the owner that the slot names.                             *)
THEOREM OwnerOnlyCorrect ==
    ASSUME OneLength
    PROVE  Spec => []OwnerOnly
<1>1. OpenSpec => []OwnerOnly
  BY OpenOwnerOnly
<1> QED
  BY <1>1, SpecIsOpen, PTL

-----------------------------------------------------------------------------
(* The measurements of the boot stages *)

LEMMA BootCountStep ==
    ASSUME TypeOK, NEW s, NEW n \in Nat
    PROVE  /\ BootCount(s, 0) = 0 /\ BootCount(s, n) \in Nat
           /\ WellFormed(shared[n + 1]) =>
                BootCount(s, n + 1) = IF shared[n + 1].index = s THEN BootCount(s, n) + 1
                                      ELSE BootCount(s, n)
<1> DEFINE A(m) == {j \in 1 .. m : WellFormed(shared[j]) /\ shared[j].index = s}
<1>1. ASSUME NEW m \in Nat PROVE IsFiniteSet(A(m)) /\ Cardinality(A(m)) \in Nat
  <2>1. IsFiniteSet(1 .. m)
    BY FS_Interval
  <2>2. IsFiniteSet(A(m))
    BY <2>1, FS_Subset
  <2> QED
    BY <2>2, FS_CardinalityType
<1>2. A(0) = {}
  OBVIOUS
<1>3. BootCount(s, 0) = 0
  BY <1>2, FS_EmptySet DEF BootCount
<1>4. CASE WellFormed(shared[n + 1]) /\ shared[n + 1].index = s
  <2>1. A(n + 1) = A(n) \cup {n + 1} /\ n + 1 \notin A(n)
    BY <1>4
  <2> HIDE DEF A
  <2>2. Cardinality(A(n + 1)) = Cardinality(A(n)) + 1
    BY <1>1, <2>1, FS_AddElement
  <2> QED
    BY <1>1, <1>3, <1>4, <2>2 DEF BootCount, A
<1>5. CASE WellFormed(shared[n + 1]) /\ shared[n + 1].index # s
  <2>1. A(n + 1) = A(n)
    BY <1>5
  <2> QED
    BY <1>1, <1>3, <1>5, <2>1 DEF BootCount
<1> QED
  BY <1>1, <1>3, <1>4, <1>5 DEF BootCount

(* The k-th boot measurement is in its place. *)
InPlace(k) ==
    LET e == shared[k]
        place == BootCount(e.index, k)
    IN  /\ WellFormed(e) /\ place \in 1 .. Len(slot[e.index].value)
        /\ slot[e.index].value[place] = [val |-> e.value, by |-> e.signer_id]

(* While they are collected, the slots hold them and nothing else. *)
BootInv ==
    /\ pc = "collect" =>
         /\ \A k \in 1 .. tlv_curr - 1 : InPlace(k)
         /\ \A s \in Slot : Len(slot[s].value) = BootCount(s, tlv_curr - 1)
    /\ pc = "serve" => shared # << >> /\ \A k \in 1 .. Len(shared) : InPlace(k)

(* What is in its place stays there when the measurement grows. *)
LEMMA StaysInPlace ==
    ASSUME TypeOK, [OpenNext]_vars, shared' = shared, NEW k \in 1 .. Len(shared), InPlace(k)
    PROVE  InPlace(k)'
<1> DEFINE e == shared[k]
           v == slot[e.index].value
           w == slot'[e.index].value
<1>1. e \in Entry
  BY DEF TypeOK
<1>2. e.index \in Slot
  BY <1>1 DEF InPlace, WellFormed, Entry
<1>3. v \in Seq(Measured) /\ w \in Seq(Measured)
  BY <1>2, TypeStep DEF TypeOK, SlotType
<1>4. IsPrefix(v, w)
  BY <1>2, <1>3, PrefixSelf, SlotGrows
<1>5. Len(v) <= Len(w) /\ \A i \in 1 .. Len(v) : w[i] = v[i]
  <2> HIDE DEF v, w
  <2>1. Len(v) <= Len(w) /\ SubSeq(w, 1, Len(v)) = SubSeq(v, 1, Len(v))
    BY <1>4 DEF IsPrefix
  <2> QED
    BY <1>3, <2>1
<1>6. \A s, n : BootCount(s, n)' = BootCount(s, n)
  BY DEF BootCount
<1>7. Len(v) \in Nat /\ Len(w) \in Nat
  BY <1>3
<1> QED
  BY <1>5, <1>6, <1>7 DEF InPlace

LEMMA BootInit == Init => BootInv
<1> SUFFICES ASSUME Init PROVE BootInv
  OBVIOUS
<1>1. TypeOK
  BY TypeInit
<1>2. \A s \in Slot : Len(slot[s].value) = 0
  BY DEF Init, EmptySlot
<1>3. \A s \in Slot : BootCount(s, 0) = 0
  BY <1>1, BootCountStep
<1> QED
  BY <1>2, <1>3 DEF Init, BootInv

LEMMA BootStep == TypeOK /\ BootInv /\ [OpenNext]_vars => BootInv'
<1> SUFFICES ASSUME TypeOK, BootInv, [OpenNext]_vars PROVE BootInv'
  OBVIOUS
<1>1. shared' = shared
  BY DEF OpenNext, Collect, CollectNothing, Send, Handle, HandleExtend, HandleRead,
         HandleOther, vars
<1>2. \A k \in 1 .. Len(shared) : InPlace(k) => InPlace(k)'
  BY <1>1, StaysInPlace
<1>3. CASE pc = "serve"
  <2>1. pc' = "serve"
    BY <1>3 DEF OpenNext, Collect, CollectNothing, Send, Handle, HandleExtend, HandleRead,
                HandleOther, vars
  <2> QED
    BY <1>1, <1>2, <1>3, <2>1 DEF BootInv
<1>4. CASE pc = "panic"
  <2>1. pc' = "panic"
    BY <1>4 DEF OpenNext, Collect, CollectNothing, Send, Handle, HandleExtend, HandleRead,
                HandleOther, vars
  <2> QED
    BY <2>1 DEF BootInv
<1>5. CASE pc = "collect" /\ ~Collect
  <2>1. pc' = "panic" \/ UNCHANGED <<pc, tlv_curr, slot>>
    BY <1>5 DEF OpenNext, CollectNothing, Send, Handle, HandleExtend, HandleRead,
                HandleOther, vars
  <2>2. \A s, n : BootCount(s, n)' = BootCount(s, n)
    BY <1>1 DEF BootCount
  <2>3. tlv_curr \in 1 .. Len(shared) + 1 /\ Len(shared) \in Nat
    BY DEF TypeOK
  <2>4. \A k \in 1 .. tlv_curr - 1 : k \in 1 .. Len(shared)
    BY <2>3
  <2> QED
    BY <1>2, <1>5, <2>1, <2>2, <2>4 DEF BootInv
<1>6. CASE pc = "collect" /\ Collect
  <2>1. PICK t \in 1 .. Len(shared) : t = tlv_curr
    BY <1>6 DEF Collect, TypeOK
  <2> DEFINE e == shared[t]
  <2>2. Len(shared) \in Nat /\ e \in Entry
    BY <2>1 DEF TypeOK
  <2>3. CASE pc' = "panic"
    BY <2>3 DEF BootInv
  <2>4. CASE pc' # "panic"
    <3>1. WellFormed(e)
      BY <1>6, <2>1, <2>4 DEF Collect
    <3>2. PICK o \in Outcomes(slot[e.index], e) :
            /\ slot' = [slot EXCEPT ![e.index] = o.sl] /\ tlv_curr' = t + 1
            /\ o.st = "ok" /\ pc' = IF t = Len(shared) THEN "serve" ELSE "collect"
      BY <1>6, <2>1, <2>4, <3>1 DEF Collect
    <3>3. e.index \in Slot /\ e \in Extension
      BY <2>2, <3>1 DEF WellFormed, Entry, Extension
    <3> DEFINE i == e.index
               v == slot[i].value
               w == slot'[i].value
               x == [val |-> e.value, by |-> e.signer_id]
    <3>4. slot[i] \in SlotType /\ v \in Seq(Measured) /\ Len(v) \in Nat
      BY <3>3 DEF TypeOK, SlotType
    <3>5. x \in Measured
      BY <3>3, ExtensionType DEF Measured
    <3>6. o.sl.value = Append(v, x)
      <4>1. o = Extended(slot[i], e) \/ o = HashFailed(slot[i], e)
        BY <3>2 DEF Outcomes
      <4>2. o.sl = WithMeasurement(slot[i], e)
        BY <3>2, <4>1 DEF Extended, HashFailed
      <4>3. WithMetadata(slot[i], e) \in SlotType /\ WithMetadata(slot[i], e).value = v
        BY <3>3, <3>4, MetadataType
      <4> QED
        BY <4>2, <4>3 DEF WithMeasurement, SlotType
    <3>7. w = Append(v, x) /\ \A s \in Slot : s # i => slot'[s] = slot[s]
      BY <3>2, <3>3, <3>6 DEF TypeOK
    <3>8. Len(w) = Len(v) + 1 /\ w[Len(v) + 1] = x
      <4> HIDE DEF v, w, x
      <4> QED
        BY <3>4, <3>5, <3>7, AppendProperties
    <3>9. \A s \in Slot :
            BootCount(s, t) = IF i = s THEN BootCount(s, t - 1) + 1 ELSE BootCount(s, t - 1)
      <4> DEFINE n == t - 1
      <4>1. n \in Nat /\ n + 1 = t
        BY <2>1
      <4> HIDE DEF n
      <4>2. WellFormed(shared[n + 1])
        BY <3>1, <4>1
      <4>3. ASSUME NEW s \in Slot
            PROVE  BootCount(s, n + 1) = IF shared[n + 1].index = s THEN BootCount(s, n) + 1
                                         ELSE BootCount(s, n)
        BY <4>1, <4>2, BootCountStep
      <4> QED
        BY <4>1, <4>3 DEF n
    <3>10. \A s \in Slot : Len(slot'[s].value) = BootCount(s, t)
      BY <1>6, <2>1, <3>3, <3>7, <3>8, <3>9 DEF BootInv
    <3>11. \A s, n : BootCount(s, n)' = BootCount(s, n)
      BY <1>1 DEF BootCount
    <3>12. BootCount(i, t) \in 1 .. Len(w) /\ w[BootCount(i, t)] = x
      BY <3>3, <3>4, <3>8, <3>10
    <3>13. InPlace(t)'
      BY <1>1, <3>1, <3>11, <3>12 DEF InPlace
    <3>14. ASSUME NEW k \in 1 .. t PROVE InPlace(k)'
      <4>1. k \in 1 .. t - 1 \/ k = t
        BY <2>1
      <4>2. CASE k \in 1 .. t - 1
        <5>1. InPlace(k) /\ k \in 1 .. Len(shared)
          BY <1>6, <2>1, <2>2, <4>2 DEF BootInv
        <5> QED
          BY <1>2, <5>1
      <4> QED
        BY <3>13, <4>1, <4>2
    <3>15. CASE t = Len(shared)
      <4>1. pc' = "serve" /\ shared' # << >>
        BY <1>1, <2>1, <3>2, <3>15
      <4> QED
        BY <1>1, <3>14, <3>15, <4>1 DEF BootInv
    <3>16. CASE t # Len(shared)
      <4>1. pc' = "collect" /\ tlv_curr' - 1 = t
        BY <2>1, <3>2, <3>16
      <4>2. (\A s \in Slot : Len(slot[s].value) = BootCount(s, tlv_curr - 1))'
        BY <3>10, <3>11, <4>1
      <4> QED
        BY <3>14, <4>1, <4>2 DEF BootInv
    <3> QED
      BY <3>15, <3>16
  <2> QED
    BY <2>3, <2>4
<1> QED
  BY <1>3, <1>4, <1>5, <1>6 DEF TypeOK

LEMMA OpenBootFirst == OpenSpec => []BootMeasurementsFirst
<1>1. TypeOK /\ BootInv => BootMeasurementsFirst
  <2> SUFFICES ASSUME BootInv, pc = "serve", NEW k \in 1 .. Len(shared)
               PROVE  /\ shared # << >>
                      /\ LET e == shared[k]
                             place == BootCount(e.index, k)
                         IN  /\ WellFormed(e) /\ place <= Len(slot[e.index].value)
                             /\ slot[e.index].value[place]
                                  = [val |-> e.value, by |-> e.signer_id]
    BY DEF BootMeasurementsFirst, BootInv
  <2>1. InPlace(k) /\ shared # << >>
    BY DEF BootInv
  <2>2. PICK p : p = BootCount(shared[k].index, k)
    OBVIOUS
  <2>3. /\ WellFormed(shared[k]) /\ p \in 1 .. Len(slot[shared[k].index].value)
        /\ slot[shared[k].index].value[p]
             = [val |-> shared[k].value, by |-> shared[k].signer_id]
    BY <2>1, <2>2 DEF InPlace
  <2>4. p <= Len(slot[shared[k].index].value)
    BY <2>3
  <2> QED
    BY <2>1, <2>2, <2>3, <2>4
<1> QED
  BY <1>1, BootInit, BootStep, OpenType, PTL DEF OpenSpec

(* The service only runs once every boot measurement is in its place, and  *)
(* no later call, whoever sends it, displaces one.                         *)
THEOREM BootMeasurementsFirstCorrect == Spec => []BootMeasurementsFirst
BY OpenBootFirst, SpecIsOpen, PTL

-----------------------------------------------------------------------------
(* Delegated attestation *)

AnyRequest == KeyRequest \cup TokenRequest \cup OtherCall

(* The two partitions among clients that may send either of them any       *)
(* message at any time.                                                    *)
OpenAttestNext ==
    \/ AttestStep
    \/ \E r \in AnyRequest : Serve(r)
    \/ /\ MeasuredBootStep \/ \E c \in Client \ {Attest}, m \in Message : Send(c, m)
       /\ UNCHANGED attestVars

OpenAttestSpec == Init /\ AttestInit /\ [][OpenAttestNext]_allVars

LEMMA AttestIsOpen == AttestSpec => OpenAttestSpec
<1>1. [AttestNext]_allVars => [OpenAttestNext]_allVars
  BY CallAssumption, RequestAssumption
  DEF AttestNext, OpenAttestNext, OtherClients, AnyRequest
<1> QED
  BY <1>1, PTL DEF AttestSpec, OpenAttestSpec

-----------------------------------------------------------------------------
(* The invariant *)

Lengths == [version_size : 0 .. VersionMax, sw_type_size : 0 .. SwTypeMax]

(* The slots that existed at some moment, with their lengths. *)
Seen == UNION {[D -> Lengths] : D \in SUBSET Slot}

Rec == [index : Slot, signer_id : Signer \cup {<< >>}, version_size : 0 .. VersionMax,
        sw_type_size : 0 .. SwTypeMax, value : Seq(Measured)]
Room == [signer_id : 0 .. SignerMax, version : 0 .. VersionMax,
         sw_type : 0 .. SwTypeMax, value : {0, 1}]

(* A call for a key that passed the checks, at a slot or past the last. *)
Working(at, index) ==
    [at : at, req : {r \in KeyRequest : KeyChecks(r) = "ok"}, index : index,
     room : Room, state : Seq(Rec), existed : Seen]

AttType ==
    \/ att \in {Idle, [at |-> "panic"]}
    \/ att \in Working({"ask", "wait"}, Slot)
    \/ att \in Working({"derive"}, {NumSlots})

IsWorking == att.at \in {"ask", "wait", "derive"}

(* A record is what its slot, of the slots m, held: the slot continues it, *)
(* under the same signer.                                                  *)
RecOk(x, m) ==
    /\ m[x.index].is_populated
    /\ IsPrefix(x.value, m[x.index].value)
    /\ x.signer_id = m[x.index].signer_id

(* A boot state read from the slots below n, in their order. *)
StateOk(st, n, m) ==
    /\ st \in Seq(Rec)
    /\ \A j \in 1 .. Len(st) : st[j].index < n /\ RecOk(st[j], m)
    /\ \A j, k \in 1 .. Len(st) : j < k => st[j].index < st[k].index

(* Of the slots below n that existed, each one that is left out is too     *)
(* long for buffers of the size of the last record before it.              *)
MissedOk(st, seen, n, m) ==
    \A s \in DOMAIN seen :
      s < n /\ s \notin Indices(st) =>
        \E j \in 1 .. Len(st) :
          LastBefore(st, j, s) /\ TooSmall(RoomAfter(st[j]), m[s], seen[s])

(* The sizes of the buffers are those of the last record. *)
RoomOk(st, room) ==
    room = IF st = << >> THEN FullRoom ELSE RoomAfter(st[Len(st)])

(* The lengths of a slot that existed have stayed, or shrunk. *)
NoLonger(sl, had) ==
    /\ sl.is_populated
    /\ sl.version_size <= had.version_size /\ sl.sw_type_size <= had.sw_type_size

CallInv ==
    IsWorking =>
      /\ StateOk(att.state, att.index, slot)
      /\ \A s \in DOMAIN att.existed : NoLonger(slot[s], att.existed[s])
      /\ MissedOk(att.state, att.existed, att.index, slot)
      /\ RoomOk(att.state, att.room)

ReadMsg(a) ==
    [type |-> "read", checked |-> "ok", index |-> a.index,
     signer_id_size |-> a.room.signer_id, version_size |-> a.room.version,
     sw_type_size |-> a.room.sw_type, value_size |-> a.room.value]

FoundAnswer ==
    [status : {"ok"}, index : Slot, value : Seq(Measured),
     signer_id : Signer \cup {<< >>}, version_size : 0 .. VersionMax,
     sw_type_size : 0 .. SwTypeMax, is_locked : BOOLEAN]

(* What the call w may get as the reply to its read: the slot, or nothing  *)
(* because the slot did not exist or the buffers are short.                *)
ReplyOk(a, w, m) ==
    /\ a.status = "ok" => a \in FoundAnswer /\ a.index = w.index /\ RecOk(a, m)
    /\ a.status # "ok" /\ w.index \in DOMAIN w.existed =>
         TooSmall(w.room, m[w.index], w.existed[w.index])

ReplyInv ==
    /\ att.at # "wait" => msg[Attest] = NoMsg
    /\ att.at = "wait" =>
         \/ msg[Attest] = ReadMsg(att)
         \/ (msg[Attest] = NoMsg /\ ReplyOk(answer[Attest], att, slot))

GivenType ==
    given = [key |-> given.key, algo |-> given.algo, missed |-> given.missed,
             unreported |-> given.unreported]

KeyInv(k, missed) ==
    /\ IsKey(k)
    /\ StateOk(k.state, NumSlots, slot)
    /\ missed \in Seen
    /\ \A s \in DOMAIN missed : slot[s].is_populated /\ s \notin Indices(k.state)
    /\ MissedOk(k.state, missed, NumSlots, slot)

GivenInv == GivenType /\ (given.key = None \/ KeyInv(given.key, given.missed))

AttestInv == AttType /\ CallInv /\ ReplyInv /\ GivenInv

-----------------------------------------------------------------------------
(* Steps of measured boot *)

LEMMA SlotIndex == \A i \in Slot : i \in Int /\ i \in 0 .. 255 /\ ~(i >= NumSlots)
BY SlotAssumption DEF Slot

LEMMA RecTypes ==
    ASSUME NEW st \in Seq(Rec)
    PROVE  /\ Len(st) \in Nat
           /\ \A j \in 1 .. Len(st) : st[j] \in Rec /\ st[j].index \in Slot
<1>1. \A j \in 1 .. Len(st) : st[j] \in Rec
  OBVIOUS
<1>2. \A x \in Rec : x.index \in Slot
  BY DEF Rec
<1> QED
  BY <1>1, <1>2

LEMMA ReadMsgType ==
    ASSUME NEW a \in Working({"ask", "wait"}, Slot)
    PROVE  ReadMsg(a) \in ReadCall /\ ReadMsg(a) \in Message
<1>1. a.index \in Slot /\ a.room \in Room
  BY DEF Working
<1>2. a.index \in 0 .. 255
  BY <1>1, SlotIndex
<1> QED
  BY <1>1, <1>2 DEF ReadMsg, ReadCall, Message, Room

(* To measured boot the attestation partition is a client like any other. *)
LEMMA StepIsOpen == AttType /\ [OpenAttestNext]_allVars => [OpenNext]_vars
<1> SUFFICES ASSUME AttType, OpenAttestNext, ~UNCHANGED vars PROVE OpenNext
  BY DEF allVars
<1>1. CASE ReadSlot
  <2>1. att \in Working({"ask", "wait"}, Slot)
    BY <1>1 DEF ReadSlot, AttType, Idle, Working
  <2>2. Send(Attest, ReadMsg(att))
    BY <1>1 DEF ReadSlot, ReadMsg
  <2> QED
    BY <2>1, <2>2, ReadMsgType, AttestAssumption DEF OpenNext
<1>2. CASE CollectState \/ Derive \/ \E r \in AnyRequest : Serve(r)
  BY <1>2 DEF CollectState, Derive, Serve, GetKey, GetToken, Unknown
<1>3. CASE MeasuredBootStep \/ \E c \in Client \ {Attest}, m \in Message : Send(c, m)
  BY <1>3 DEF MeasuredBootStep, OpenNext
<1> QED
  BY <1>1, <1>2, <1>3 DEF OpenAttestNext, AttestStep

(* What a step does to the slots, as far as a reader can tell. *)
Grows(m, n) ==
    \A s \in Slot :
      /\ m[s].is_populated =>
           /\ n[s].is_populated /\ n[s].signer_id = m[s].signer_id
           /\ n[s].version_size <= m[s].version_size
           /\ n[s].sw_type_size <= m[s].sw_type_size
      /\ m[s].value # << >> => n[s].value # << >>
      /\ \A v \in Seq(Measured) : IsPrefix(v, m[s].value) => IsPrefix(v, n[s].value)

LEMMA SlotsGrow ==
    ASSUME TypeOK, [OpenNext]_vars
    PROVE  Grows(slot, slot')
<1> SUFFICES ASSUME NEW s \in Slot
             PROVE  /\ slot[s].is_populated =>
                         /\ slot'[s].is_populated /\ slot'[s].signer_id = slot[s].signer_id
                         /\ slot'[s].version_size <= slot[s].version_size
                         /\ slot'[s].sw_type_size <= slot[s].sw_type_size
                    /\ slot[s].value # << >> => slot'[s].value # << >>
  BY SlotGrows DEF Grows
<1>1. slot[s] \in SlotType
  BY DEF TypeOK
<1>2. /\ slot[s].version_size \in Nat /\ slot[s].sw_type_size \in Nat
      /\ slot[s].value \in Seq(Measured)
  BY <1>1, SignerAssumption DEF SlotType
<1>3. CASE slot'[s] = slot[s]
  BY <1>2, <1>3
<1>4. ASSUME NEW e \in Extension, NEW o \in Outcomes(slot[s], e)
      PROVE  /\ slot[s].is_populated =>
                  /\ o.sl.is_populated /\ o.sl.signer_id = slot[s].signer_id
                  /\ o.sl.version_size <= slot[s].version_size
                  /\ o.sl.sw_type_size <= slot[s].sw_type_size
             /\ slot[s].value # << >> => o.sl.value # << >>
  <2> DEFINE w == WithMetadata(slot[s], e)
  <2>1. /\ slot[s].is_populated =>
             /\ w.is_populated /\ w.signer_id = slot[s].signer_id
             /\ w.version_size <= slot[s].version_size
             /\ w.sw_type_size <= slot[s].sw_type_size
        /\ w.value = slot[s].value
    BY <1>1, <1>2 DEF WithMetadata, SlotType
  <2>2. w \in SlotType
    BY <1>1, MetadataType
  <2>3. /\ slot[s].is_populated =>
             /\ WithMeasurement(slot[s], e).is_populated
             /\ WithMeasurement(slot[s], e).signer_id = slot[s].signer_id
             /\ WithMeasurement(slot[s], e).version_size <= slot[s].version_size
             /\ WithMeasurement(slot[s], e).sw_type_size <= slot[s].sw_type_size
    <3> HIDE DEF w
    <3> QED
      BY <2>1, <2>2 DEF WithMeasurement, SlotType, w
  <2>4. slot[s].value # << >> => o.sl.value # << >>
    <3>1. \/ o.sl.value = slot[s].value
          \/ o.sl.value = Append(slot[s].value, [val |-> e.value, by |-> e.signer_id])
      BY <1>1, OutcomeSlot
    <3>2. [val |-> e.value, by |-> e.signer_id] \in Measured
      BY ExtensionType DEF Measured
    <3>3. Append(slot[s].value, [val |-> e.value, by |-> e.signer_id]) # << >>
      BY <1>2, <3>2, AppendProperties
    <3> QED
      BY <3>1, <3>3
  <2> QED
    BY <1>2, <2>1, <2>3, <2>4 DEF Outcomes, Extended, HashFailed
<1> QED
  BY <1>3, <1>4, SlotStep DEF SlotMove

LEMMA StateKept ==
    ASSUME NEW m, NEW n, Grows(m, n), NEW st, NEW i, StateOk(st, i, m)
    PROVE  StateOk(st, i, n)
<1> SUFFICES ASSUME NEW j \in 1 .. Len(st) PROVE RecOk(st[j], n)
  BY DEF StateOk
<1>1. st[j] \in Rec /\ RecOk(st[j], m)
  BY DEF StateOk
<1> QED
  BY <1>1 DEF RecOk, Grows, Rec

LEMMA SeenType ==
    ASSUME NEW seen \in Seen
    PROVE  /\ DOMAIN seen \in SUBSET Slot
           /\ \A s \in DOMAIN seen : /\ seen[s].version_size \in 0 .. VersionMax
                                     /\ seen[s].sw_type_size \in 0 .. SwTypeMax
<1>1. PICK D \in SUBSET Slot : seen \in [D -> Lengths]
  BY DEF Seen
<1>2. \A x \in Lengths : /\ x.version_size \in 0 .. VersionMax
                         /\ x.sw_type_size \in 0 .. SwTypeMax
  BY DEF Lengths
<1> QED
  BY <1>1, <1>2

(* Buffers that are too small for a slot stay too small as it grows. *)
LEMMA TooSmallKept ==
    ASSUME NEW m, NEW n, Grows(m, n), NEW s \in Slot, m[s].is_populated,
           NEW room, NEW had, TooSmall(room, m[s], had), room.value \in {0, 1}
    PROVE  TooSmall(room, n[s], had)
<1>1. n[s].signer_id = m[s].signer_id /\ (m[s].value # << >> => n[s].value # << >>)
  BY DEF Grows
<1>2. room.value < HashSize(m[s].value) => room.value < HashSize(n[s].value)
  BY <1>1 DEF HashSize
<1> QED
  BY <1>1, <1>2 DEF TooSmall

LEMMA MissedKept ==
    ASSUME NEW m, NEW n, Grows(m, n), NEW st, NEW seen \in Seen, NEW i,
           \A s \in DOMAIN seen : m[s].is_populated, MissedOk(st, seen, i, m)
    PROVE  MissedOk(st, seen, i, n)
<1> SUFFICES ASSUME NEW s \in DOMAIN seen, s < i, s \notin Indices(st)
             PROVE  \E j \in 1 .. Len(st) :
                      LastBefore(st, j, s) /\ TooSmall(RoomAfter(st[j]), n[s], seen[s])
  BY DEF MissedOk
<1>1. PICK j \in 1 .. Len(st) :
        LastBefore(st, j, s) /\ TooSmall(RoomAfter(st[j]), m[s], seen[s])
  BY DEF MissedOk
<1>2. s \in Slot
  BY SeenType
<1>3. RoomAfter(st[j]).value \in {0, 1}
  BY DEF RoomAfter, HashSize
<1> QED
  BY <1>1, <1>2, <1>3, TooSmallKept

-----------------------------------------------------------------------------
(* The reply to a read *)

LEMMA ReadReply ==
    ASSUME TypeOK, NEW a \in Working({"ask", "wait"}, Slot),
           \A s \in DOMAIN a.existed : NoLonger(slot[s], a.existed[s])
    PROVE  ReplyOk(ReadOf(ReadMsg(a)), a, slot)
<1> DEFINE r == ReadOf(ReadMsg(a))
           sl == slot[a.index]
           short == \/ a.room.version < sl.version_size
                    \/ a.room.sw_type < sl.sw_type_size
                    \/ a.room.signer_id < Len(sl.signer_id)
                    \/ a.room.value < HashSize(sl.value)
           found == [status |-> "ok", index |-> a.index, value |-> sl.value,
                     signer_id |-> sl.signer_id, version_size |-> sl.version_size,
                     sw_type_size |-> sl.sw_type_size, is_locked |-> sl.is_locked]
<1>1. /\ a.index \in Slot /\ ~(a.index >= NumSlots)
      /\ a.room \in Room /\ a.existed \in Seen
  BY SlotIndex DEF Working
<1>2. sl \in SlotType
  BY <1>1 DEF TypeOK
<1>3. r = IF ~sl.is_populated THEN [status |-> "does_not_exist"]
          ELSE IF short THEN [status |-> "invalid_argument"] ELSE found
  BY <1>1 DEF ReadOf, ReadMsg
<1> HIDE DEF short
<1>4. CASE ~sl.is_populated
  BY <1>3, <1>4 DEF ReplyOk, NoLonger
<1>5. CASE sl.is_populated /\ short
  <2>1. ASSUME a.index \in DOMAIN a.existed
        PROVE  TooSmall(a.room, sl, a.existed[a.index])
    <3> DEFINE had == a.existed[a.index]
    <3>1. /\ had.version_size \in 0 .. VersionMax /\ had.sw_type_size \in 0 .. SwTypeMax
      BY <1>1, <2>1, SeenType
    <3>2. sl.version_size <= had.version_size /\ sl.sw_type_size <= had.sw_type_size
      BY <2>1 DEF NoLonger
    <3>3. sl.version_size \in 0 .. VersionMax /\ sl.sw_type_size \in 0 .. SwTypeMax
      BY <1>2 DEF SlotType
    <3>4. a.room.version \in 0 .. VersionMax /\ a.room.sw_type \in 0 .. SwTypeMax
      BY <1>1 DEF Room
    <3> HIDE DEF had, sl
    <3>5. a.room.version < sl.version_size => a.room.version < had.version_size
      BY <3>1, <3>2, <3>3, <3>4, SignerAssumption
    <3>6. a.room.sw_type < sl.sw_type_size => a.room.sw_type < had.sw_type_size
      BY <3>1, <3>2, <3>3, <3>4, SignerAssumption
    <3> QED
      BY <1>5, <3>5, <3>6 DEF TooSmall, short, had
  <2> QED
    BY <1>3, <1>5, <2>1 DEF ReplyOk
<1>6. CASE sl.is_populated /\ ~short
  <2>1. r = found
    BY <1>3, <1>6
  <2>2. r \in FoundAnswer
    BY <1>1, <1>2, <2>1 DEF FoundAnswer, SlotType
  <2>3. IsPrefix(sl.value, sl.value)
    BY <1>2, PrefixSelf DEF SlotType
  <2> QED
    BY <1>6, <2>1, <2>2, <2>3 DEF ReplyOk, RecOk
<1> QED
  BY <1>4, <1>5, <1>6

(* The slots may grow between the reply and the moment it is looked at. *)
LEMMA ReplyKept ==
    ASSUME NEW m, NEW n, Grows(m, n), NEW a, NEW w \in Working({"ask", "wait"}, Slot),
           \A s \in DOMAIN w.existed : m[s].is_populated, ReplyOk(a, w, m)
    PROVE  ReplyOk(a, w, n)
<1>1. ASSUME a \in FoundAnswer, RecOk(a, m) PROVE RecOk(a, n)
  BY <1>1 DEF RecOk, Grows, FoundAnswer
<1>2. ASSUME w.index \in DOMAIN w.existed,
             TooSmall(w.room, m[w.index], w.existed[w.index])
      PROVE  TooSmall(w.room, n[w.index], w.existed[w.index])
  <2>1. w.index \in Slot /\ w.room.value \in {0, 1}
    BY DEF Working, Room
  <2> QED
    BY <1>2, <2>1, TooSmallKept
<1> QED
  BY <1>1, <1>2 DEF ReplyOk

(* The record of a slot: the boot state grows by it, and the sizes of the  *)
(* buffers become those of its fields.                                     *)
LEMMA RecordAdded ==
    ASSUME NEW m, NEW i \in Slot, NEW st, StateOk(st, i, m), NEW a \in FoundAnswer,
           a.index = i, RecOk(a, m), NEW seen \in Seen, MissedOk(st, seen, i, m)
    PROVE  /\ Append(st, Record(a)) \in Seq(Rec)
           /\ StateOk(Append(st, Record(a)), i + 1, m)
           /\ MissedOk(Append(st, Record(a)), seen, i + 1, m)
           /\ RoomAfter(a) \in Room
           /\ RoomOk(Append(st, Record(a)), RoomAfter(a))
<1> DEFINE x == Record(a)
           new == Append(st, x)
<1>1. x \in Rec /\ x.index = i /\ RecOk(x, m)
  BY DEF Record, Rec, RecOk, FoundAnswer
<1>2. st \in Seq(Rec) /\ Len(st) \in Nat
  BY DEF StateOk
<1>3. /\ new \in Seq(Rec) /\ Len(new) = Len(st) + 1 /\ new[Len(st) + 1] = x
      /\ \A j \in 1 .. Len(st) : new[j] = st[j]
  <2> HIDE DEF x
  <2> QED
    BY <1>1, <1>2, AppendProperties
<1>4. \A j \in 1 .. Len(new) : j \in 1 .. Len(st) \/ j = Len(st) + 1
  BY <1>2, <1>3
<1>5. \A s \in Slot : s \in Int
  BY DEF Slot
<1>6. \A j \in 1 .. Len(st) : st[j].index \in Slot
  BY <1>2, RecTypes
<1> HIDE DEF x, new
<1>7. StateOk(new, i + 1, m)
  <2>1. ASSUME NEW j \in 1 .. Len(new) PROVE new[j].index < i + 1 /\ RecOk(new[j], m)
    <3>1. CASE j \in 1 .. Len(st)
      BY <1>3, <1>5, <1>6, <3>1 DEF StateOk
    <3> QED
      BY <1>1, <1>3, <1>4, <1>5, <3>1
  <2>2. ASSUME NEW j \in 1 .. Len(new), NEW k \in 1 .. Len(new), j < k
        PROVE  new[j].index < new[k].index
    <3>1. j \in 1 .. Len(st)
      BY <1>2, <1>3, <2>2
    <3>2. CASE k \in 1 .. Len(st)
      BY <1>3, <2>2, <3>1, <3>2 DEF StateOk
    <3>3. CASE k = Len(st) + 1
      BY <1>1, <1>3, <3>1, <3>3 DEF StateOk
    <3> QED
      BY <1>4, <3>2, <3>3
  <2> QED
    BY <1>3, <2>1, <2>2 DEF StateOk
<1>8. MissedOk(new, seen, i + 1, m)
  <2> SUFFICES ASSUME NEW s \in DOMAIN seen, s < i + 1, s \notin Indices(new)
               PROVE  \E j \in 1 .. Len(new) :
                        /\ LastBefore(new, j, s)
                        /\ TooSmall(RoomAfter(new[j]), m[s], seen[s])
    BY DEF MissedOk
  <2>1. s # i
    BY <1>1, <1>2, <1>3 DEF Indices
  <2>2. s \in Slot /\ s < i
    BY <1>5, <2>1, SeenType
  <2>3. s \notin Indices(st)
    BY <1>2, <1>3 DEF Indices
  <2>4. PICK j \in 1 .. Len(st) :
          LastBefore(st, j, s) /\ TooSmall(RoomAfter(st[j]), m[s], seen[s])
    BY <2>2, <2>3 DEF MissedOk
  <2>5. ~(new[Len(st) + 1].index < s)
    BY <1>1, <1>3, <1>5, <2>2
  <2>6. LastBefore(new, j, s)
    BY <1>3, <1>4, <2>4, <2>5 DEF LastBefore
  <2> QED
    BY <1>2, <1>3, <2>4, <2>6
<1>9. /\ a.signer_id \in Signer \cup {<< >>} /\ a.version_size \in 0 .. VersionMax
      /\ a.sw_type_size \in 0 .. SwTypeMax /\ Len(a.signer_id) \in 0 .. SignerMax
  BY SignerAssumption DEF FoundAnswer
<1>10. RoomAfter(a) \in Room
  BY <1>9 DEF RoomAfter, Room, HashSize
<1>11. RoomOk(new, RoomAfter(a))
  <2>1. RoomAfter(x) = RoomAfter(a)
    BY DEF RoomAfter, x, Record
  <2>2. new # << >> /\ new[Len(new)] = x
    BY <1>2, <1>3
  <2> QED
    BY <2>1, <2>2 DEF RoomOk
<1> QED
  BY <1>3, <1>7, <1>8, <1>10, <1>11 DEF new, x

(* A slot that could not be read: if it existed, the buffers were short,   *)
(* and the last record is to blame.                                        *)
LEMMA SlotPassed ==
    ASSUME NEW m, NEW i \in Slot, NEW st, StateOk(st, i, m), NEW seen \in Seen,
           MissedOk(st, seen, i, m), NEW room, RoomOk(st, room),
           m[i] \in SlotType,
           i \in DOMAIN seen => TooSmall(room, m[i], seen[i])
    PROVE  StateOk(st, i + 1, m) /\ MissedOk(st, seen, i + 1, m)
<1>1. \A s \in Slot : s \in Int
  BY DEF Slot
<1>2. st \in Seq(Rec) /\ Len(st) \in Nat
  BY DEF StateOk
<1>3. \A j \in 1 .. Len(st) : st[j].index \in Slot
  BY <1>2, RecTypes
<1>4. StateOk(st, i + 1, m)
  BY <1>1, <1>3 DEF StateOk
<1>5. ASSUME i \in DOMAIN seen
      PROVE  \E j \in 1 .. Len(st) :
               LastBefore(st, j, i) /\ TooSmall(RoomAfter(st[j]), m[i], seen[i])
  <2>1. ~TooSmall(FullRoom, m[i], seen[i])
    <3>1. /\ seen[i].version_size \in 0 .. VersionMax
          /\ seen[i].sw_type_size \in 0 .. SwTypeMax
      BY <1>5, SeenType
    <3>2. Len(m[i].signer_id) \in 0 .. SignerMax
      BY SignerAssumption DEF SlotType
    <3>3. HashSize(m[i].value) \in {0, 1}
      BY DEF HashSize
    <3> QED
      BY <3>1, <3>2, <3>3, SignerAssumption DEF TooSmall, FullRoom
  <2>2. st # << >> /\ room = RoomAfter(st[Len(st)])
    BY <1>5, <2>1 DEF RoomOk
  <2>3. Len(st) \in 1 .. Len(st)
    BY <1>2, <2>2
  <2>4. LastBefore(st, Len(st), i)
    BY <1>2, <2>3 DEF LastBefore, StateOk
  <2> QED
    BY <1>5, <2>2, <2>3, <2>4
<1>6. ASSUME NEW s \in DOMAIN seen, s < i + 1, s \notin Indices(st)
      PROVE  \E j \in 1 .. Len(st) :
               LastBefore(st, j, s) /\ TooSmall(RoomAfter(st[j]), m[s], seen[s])
  <2>1. CASE s < i
    BY <1>6, <2>1 DEF MissedOk
  <2>2. s \in Slot
    BY SeenType
  <2> QED
    BY <1>1, <1>5, <1>6, <2>1, <2>2
<1> QED
  BY <1>4, <1>6 DEF MissedOk

-----------------------------------------------------------------------------
(* The invariant is inductive *)

LEMMA AttestInvInit == Init /\ AttestInit => AttestInv
<1> SUFFICES ASSUME Init, AttestInit PROVE AttestInv
  OBVIOUS
<1>1. AttType /\ CallInv
  BY DEF AttestInit, AttType, CallInv, IsWorking, Idle
<1>2. ReplyInv
  BY AttestAssumption DEF Init, AttestInit, ReplyInv, Idle
<1>3. GivenInv
  BY DEF AttestInit, GivenInv, GivenType, NoKey
<1> QED
  BY <1>1, <1>2, <1>3 DEF AttestInv

(* A call at work is typed, whichever slot it is at. *)
LEMMA WorkingType ==
    ASSUME AttType, IsWorking
    PROVE  /\ att.req \in KeyRequest /\ KeyChecks(att.req) = "ok"
           /\ att.state \in Seq(Rec) /\ att.existed \in Seen /\ att.room \in Room
           /\ att.at \in {"ask", "wait"} =>
                att \in Working({"ask", "wait"}, Slot) /\ att.index \in Slot
           /\ att.at = "derive" => att.index = NumSlots
<1>1. att \notin {Idle, [at |-> "panic"]}
  BY DEF IsWorking, Idle
<1>2. CASE att \in Working({"ask", "wait"}, Slot)
  BY <1>2 DEF Working
<1>3. CASE att \in Working({"derive"}, {NumSlots})
  BY <1>3 DEF Working
<1> QED
  BY <1>1, <1>2, <1>3 DEF AttType

(* The slots may grow, or stay, while the attestation partition does not   *)
(* move: what it has read and what it handed out remain true.              *)
LEMMA SlotsMayGrow ==
    ASSUME TypeOK, TypeOK', AttType, CallInv, GivenInv, Grows(slot, slot'),
           UNCHANGED attestVars
    PROVE  AttType' /\ CallInv' /\ GivenInv'
<1>1. AttType'
  BY DEF AttType, attestVars
<1>2. CallInv'
  <2> SUFFICES ASSUME IsWorking
               PROVE  /\ StateOk(att.state, att.index, slot')
                      /\ \A s \in DOMAIN att.existed : NoLonger(slot'[s], att.existed[s])
                      /\ MissedOk(att.state, att.existed, att.index, slot')
                      /\ RoomOk(att.state, att.room)
    BY DEF CallInv, IsWorking, attestVars
  <2>1. StateOk(att.state, att.index, slot')
    BY StateKept DEF CallInv
  <2>2. att.existed \in Seen
    BY WorkingType
  <2>3. ASSUME NEW s \in DOMAIN att.existed
        PROVE  NoLonger(slot'[s], att.existed[s])
    <3> DEFINE had == att.existed[s]
    <3>1. s \in Slot /\ had.version_size \in Nat /\ had.sw_type_size \in Nat
      BY <2>2, SeenType, SignerAssumption
    <3>2. /\ slot[s].is_populated
          /\ slot[s].version_size <= had.version_size
          /\ slot[s].sw_type_size <= had.sw_type_size
      BY DEF CallInv, NoLonger
    <3>3. /\ slot'[s].is_populated
          /\ slot'[s].version_size <= slot[s].version_size
          /\ slot'[s].sw_type_size <= slot[s].sw_type_size
      BY <3>1, <3>2 DEF Grows
    <3>4. /\ slot[s].version_size \in Nat /\ slot[s].sw_type_size \in Nat
          /\ slot'[s].version_size \in Nat /\ slot'[s].sw_type_size \in Nat
      BY <3>1, SignerAssumption DEF TypeOK, SlotType
    <3> HIDE DEF had
    <3> QED
      BY <3>1, <3>2, <3>3, <3>4 DEF NoLonger, had
  <2>4. MissedOk(att.state, att.existed, att.index, slot')
    BY <2>2, MissedKept DEF CallInv, NoLonger
  <2> QED
    BY <2>1, <2>3, <2>4 DEF CallInv
<1>3. GivenInv'
  <2>1. CASE given.key = None
    BY <2>1 DEF GivenInv, GivenType, attestVars
  <2>2. CASE given.key # None
    <3>1. StateOk(given.key.state, NumSlots, slot')
      BY <2>2, StateKept DEF GivenInv, KeyInv
    <3>2. MissedOk(given.key.state, given.missed, NumSlots, slot')
      BY <2>2, MissedKept DEF GivenInv, KeyInv
    <3>3. \A s \in DOMAIN given.missed : slot'[s].is_populated
      BY <2>2, SeenType DEF GivenInv, KeyInv, Grows
    <3> QED
      BY <2>2, <3>1, <3>2, <3>3 DEF GivenInv, GivenType, KeyInv, attestVars
  <2> QED
    BY <2>1, <2>2
<1> QED
  BY <1>1, <1>2, <1>3

(* Measured boot and its other clients only touch the call and the reply   *)
(* of the attestation partition when its read is answered.                 *)
LEMMA ReplyStep ==
    ASSUME TypeOK, AttType, CallInv, ReplyInv, Grows(slot, slot'), UNCHANGED attestVars,
           \/ UNCHANGED vars
           \/ MeasuredBootStep
           \/ \E c \in Client \ {Attest}, m \in Message : Send(c, m)
    PROVE  ReplyInv'
<1> USE AttestAssumption
<1>1. CASE msg'[Attest] = msg[Attest] /\ answer'[Attest] = answer[Attest]
  <2>1. att.at # "wait" => msg'[Attest] = NoMsg
    BY <1>1 DEF ReplyInv
  <2>2. ASSUME att.at = "wait", msg[Attest] # ReadMsg(att)
        PROVE  msg'[Attest] = NoMsg /\ ReplyOk(answer'[Attest], att, slot')
    <3>1. /\ att \in Working({"ask", "wait"}, Slot)
          /\ \A s \in DOMAIN att.existed : slot[s].is_populated
      BY <2>2, WorkingType DEF CallInv, IsWorking, NoLonger
    <3> QED
      BY <1>1, <2>2, <3>1, ReplyKept DEF ReplyInv
  <2> QED
    BY <1>1, <2>1, <2>2 DEF ReplyInv, attestVars
<1>2. CASE Handle(Attest)
  <2>1. msg[Attest].type # "none"
    BY <1>2 DEF Handle, HandleExtend, HandleRead, HandleOther
  <2>2. att.at = "wait" /\ msg[Attest] = ReadMsg(att)
    BY <2>1 DEF ReplyInv, NoMsg
  <2>3. HandleRead(Attest)
    BY <1>2, <2>2 DEF Handle, HandleExtend, HandleOther, ReadMsg
  <2>4. msg'[Attest] = NoMsg /\ answer'[Attest] = ReadOf(ReadMsg(att)) /\ slot' = slot
    BY <2>2, <2>3 DEF HandleRead, Reply, TypeOK
  <2>5. /\ att \in Working({"ask", "wait"}, Slot)
        /\ \A s \in DOMAIN att.existed : NoLonger(slot[s], att.existed[s])
    BY <2>2, WorkingType DEF CallInv, IsWorking
  <2>6. ReplyOk(ReadOf(ReadMsg(att)), att, slot)
    BY <2>5, ReadReply
  <2> QED
    BY <2>2, <2>4, <2>6 DEF ReplyInv, attestVars
<1>3. ASSUME NEW c \in Client, c # Attest, Handle(c)
      PROVE  msg'[Attest] = msg[Attest] /\ answer'[Attest] = answer[Attest]
  BY <1>3 DEF Handle, HandleExtend, HandleRead, HandleOther, Reply, TypeOK
<1>4. ASSUME NEW c \in Client \ {Attest}, NEW m \in Message, Send(c, m)
      PROVE  msg'[Attest] = msg[Attest] /\ answer'[Attest] = answer[Attest]
  BY <1>4 DEF Send, TypeOK
<1>5. CASE UNCHANGED vars \/ Collect \/ CollectNothing
  BY <1>1, <1>5 DEF Collect, CollectNothing, vars
<1> QED
  BY <1>1, <1>2, <1>3, <1>4, <1>5 DEF MeasuredBootStep

(* A call that is not at work needs nothing but that no read is pending. *)
LEMMA CallOver ==
    ASSUME ReplyInv, att.at # "wait" \/ msg[Attest] = NoMsg, UNCHANGED msg,
           att' \in {Idle, [at |-> "panic"]}
    PROVE  AttType' /\ CallInv' /\ ReplyInv'
<1>1. AttType'
  BY DEF AttType
<1>2. att'.at \in {"idle", "panic"} /\ msg'[Attest] = NoMsg
  BY DEF ReplyInv, Idle
<1> QED
  BY <1>1, <1>2 DEF CallInv, IsWorking, ReplyInv

LEMMA GivenKept ==
    ASSUME GivenInv, UNCHANGED <<given, slot>>
    PROVE  GivenInv'
BY DEF GivenInv, GivenType, KeyInv

LEMMA GetKeyStep ==
    ASSUME TypeOK, AttestInv, NEW r \in AnyRequest, GetKey(r)
    PROVE  AttestInv'
<1>1. UNCHANGED <<slot, msg, given>> /\ att = Idle /\ r.type = "key"
  BY DEF GetKey, vars
<1>2. GivenInv'
  BY <1>1, GivenKept DEF AttestInv
<1>3. msg[Attest] = NoMsg
  BY <1>1 DEF AttestInv, ReplyInv, Idle
<1>4. CASE KeyChecks(r) # "ok"
  BY <1>1, <1>2, <1>3, <1>4, CallOver DEF GetKey, Finish, AttestInv
<1>5. CASE KeyChecks(r) = "ok"
  <2>1. r \in KeyRequest
    BY <1>1 DEF AnyRequest, KeyRequest, TokenRequest, OtherCall
  <2>2. att' = [at |-> "ask", req |-> r, index |-> 0, room |-> FullRoom,
                state |-> << >>, existed |-> Existing]
    BY <1>5 DEF GetKey
  <2>3. FullRoom \in Room
    BY SignerAssumption DEF FullRoom, Room
  <2>4. 0 \in Slot /\ << >> \in Seq(Rec) /\ Existing \in Seen
    <3> DEFINE D == {i \in Slot : slot[i].is_populated}
    <3>1. \A s \in D : [version_size |-> slot[s].version_size,
                        sw_type_size |-> slot[s].sw_type_size] \in Lengths
      BY DEF TypeOK, SlotType, Lengths
    <3>2. Existing \in [D -> Lengths] /\ D \in SUBSET Slot
      BY <3>1 DEF Existing
    <3> HIDE DEF D
    <3> QED
      BY <3>2, SlotAssumption DEF Slot, Seen
  <2>5. AttType'
    <3>1. att' \in Working({"ask", "wait"}, Slot)
      BY <1>5, <2>1, <2>2, <2>3, <2>4 DEF Working
    <3> QED
      BY <3>1 DEF AttType
  <2>6. /\ att'.at = "ask" /\ att'.state = << >> /\ att'.index = 0
        /\ att'.room = FullRoom /\ att'.existed = Existing
    BY <2>2
  <2>7. StateOk(<< >>, 0, slot')
    BY <2>4 DEF StateOk
  <2>8. MissedOk(<< >>, Existing, 0, slot')
    <3>1. \A s \in DOMAIN Existing : ~(s < 0)
      BY DEF Existing, Slot
    <3> QED
      BY <3>1 DEF MissedOk
  <2>9. \A s \in DOMAIN Existing : NoLonger(slot[s], Existing[s])
    <3> SUFFICES ASSUME NEW s \in Slot, slot[s].is_populated
                 PROVE  NoLonger(slot[s], [version_size |-> slot[s].version_size,
                                           sw_type_size |-> slot[s].sw_type_size])
      BY DEF Existing
    <3>1. slot[s].version_size \in Nat /\ slot[s].sw_type_size \in Nat
      BY SignerAssumption DEF TypeOK, SlotType
    <3> QED
      BY <3>1 DEF NoLonger
  <2>10. CallInv'
    BY <1>1, <2>6, <2>7, <2>8, <2>9 DEF CallInv, RoomOk
  <2>11. ReplyInv'
    BY <1>1, <1>3, <2>6 DEF ReplyInv
  <2> QED
    BY <1>2, <2>5, <2>10, <2>11 DEF AttestInv
<1> QED
  BY <1>4, <1>5

LEMMA ReadSlotStep ==
    ASSUME TypeOK, AttestInv, ReadSlot
    PROVE  AttestInv'
<1>1. UNCHANGED <<slot, given>> /\ att.at = "ask"
  BY DEF ReadSlot, Send
<1>2. msg'[Attest] = ReadMsg(att)
  BY AttestAssumption DEF ReadSlot, Send, ReadMsg, TypeOK
<1>3. att \in Working({"ask", "wait"}, Slot)
  BY <1>1, WorkingType DEF AttestInv, IsWorking
<1>4. att' = [att EXCEPT !.at = "wait"]
  BY DEF ReadSlot
<1>5. /\ att' \in Working({"ask", "wait"}, Slot)
      /\ att'.at = "wait" /\ att'.index = att.index /\ att'.room = att.room
      /\ att'.state = att.state /\ att'.existed = att.existed
  BY <1>3, <1>4 DEF Working
<1>6. AttType'
  BY <1>5 DEF AttType
<1>7. CallInv'
  BY <1>1, <1>5 DEF AttestInv, CallInv, IsWorking
<1>8. ReplyInv'
  BY <1>2, <1>5 DEF ReplyInv, ReadMsg
<1> QED
  BY <1>1, <1>6, <1>7, <1>8, GivenKept DEF AttestInv

LEMMA SlotNext ==
    \A i \in Slot : /\ i = NumSlots - 1 => i + 1 = NumSlots
                    /\ i # NumSlots - 1 => i + 1 \in Slot
BY SlotAssumption DEF Slot

LEMMA CollectStateStep ==
    ASSUME TypeOK, AttestInv, CollectState
    PROVE  AttestInv'
<1> DEFINE a == answer[Attest]
           i == att.index
<1>1. UNCHANGED <<slot, msg, given>> /\ att.at = "wait" /\ msg[Attest] = NoMsg
  BY DEF CollectState, vars
<1>2. GivenInv'
  BY <1>1, GivenKept DEF AttestInv
<1>3. CASE \E o : Finish(o)
  <2>1. att' = Idle
    BY <1>3 DEF Finish
  <2> QED
    BY <1>1, <1>2, <2>1, CallOver DEF AttestInv
<1>4. CASE TakeAnswer(a)
  <2>1. /\ att \in Working({"ask", "wait"}, Slot) /\ i \in Slot /\ att.room \in Room
        /\ att.state \in Seq(Rec) /\ att.existed \in Seen
    BY <1>1, WorkingType DEF AttestInv, IsWorking
  <2>2. /\ StateOk(att.state, i, slot) /\ MissedOk(att.state, att.existed, i, slot)
        /\ RoomOk(att.state, att.room)
        /\ \A s \in DOMAIN att.existed : NoLonger(slot[s], att.existed[s])
    BY <1>1 DEF AttestInv, CallInv, IsWorking
  <2>3. ReplyOk(a, att, slot)
    BY <1>1 DEF AttestInv, ReplyInv, ReadMsg, NoMsg
  <2>4. /\ Advance.index = i + 1
        /\ \/ Advance.at = "derive" /\ Advance.index = NumSlots
           \/ Advance.at = "ask" /\ Advance.index \in Slot
    BY <2>1, SlotNext DEF Advance
  <2>5. PICK st \in Seq(Rec), room \in Room :
          /\ att' = [att EXCEPT !.state = st, !.room = room,
                                !.at = Advance.at, !.index = Advance.index]
          /\ StateOk(st, i + 1, slot) /\ MissedOk(st, att.existed, i + 1, slot)
          /\ RoomOk(st, room)
    <3>1. CASE a.status = "ok"
      <4>1. a \in FoundAnswer /\ a.index = i /\ RecOk(a, slot)
        BY <2>3, <3>1 DEF ReplyOk
      <4>2. att' = [att EXCEPT !.state = Append(att.state, Record(a)),
                               !.room = RoomAfter(a),
                               !.at = Advance.at, !.index = Advance.index]
        BY <1>4, <3>1 DEF TakeAnswer
      <4> HIDE DEF a, i
      <4>3. /\ Append(att.state, Record(a)) \in Seq(Rec)
            /\ StateOk(Append(att.state, Record(a)), i + 1, slot)
            /\ MissedOk(Append(att.state, Record(a)), att.existed, i + 1, slot)
            /\ RoomAfter(a) \in Room
            /\ RoomOk(Append(att.state, Record(a)), RoomAfter(a))
        BY <2>1, <2>2, <4>1, RecordAdded
      <4> QED
        BY <4>2, <4>3
    <3>2. CASE a.status # "ok"
      <4>1. /\ i \in DOMAIN att.existed => TooSmall(att.room, slot[i], att.existed[i])
            /\ slot[i] \in SlotType
        BY <2>1, <2>3, <3>2 DEF ReplyOk, TypeOK
      <4>2. att' = [att EXCEPT !.at = Advance.at, !.index = Advance.index]
        BY <1>4, <3>2 DEF TakeAnswer
      <4>3. att' = [att EXCEPT !.state = att.state, !.room = att.room,
                               !.at = Advance.at, !.index = Advance.index]
        BY <2>1, <4>2 DEF Working
      <4> HIDE DEF a, i
      <4> QED
        BY <2>1, <2>2, <4>1, <4>3, SlotPassed
    <3> QED
      BY <3>1, <3>2
  <2>6. /\ att' \in Working({Advance.at}, {Advance.index})
        /\ att'.state = st /\ att'.room = room /\ att'.existed = att.existed
        /\ att'.index = Advance.index /\ att'.at = Advance.at
    <3>1. att' = [att EXCEPT !.state = st, !.room = room, !.at = Advance.at,
                             !.index = Advance.index]
      BY <2>5
    <3>2. att \in Working({"ask", "wait"}, Slot)
      BY <2>1
    <3> QED
      BY <3>1, <3>2 DEF Working
  <2>7. AttType'
    BY <2>4, <2>6 DEF AttType, Working
  <2>8. CallInv'
    BY <1>1, <2>2, <2>4, <2>5, <2>6 DEF CallInv
  <2>9. ReplyInv'
    BY <1>1, <2>4, <2>6 DEF ReplyInv
  <2> QED
    BY <1>2, <2>7, <2>8, <2>9 DEF AttestInv
<1> QED
  BY <1>3, <1>4 DEF CollectState

LEMMA DeriveStep ==
    ASSUME AttestInv, Derive
    PROVE  AttestInv'
<1>1. UNCHANGED <<slot, msg>> /\ att.at = "derive"
  BY DEF Derive, vars
<1>2. att' = Idle
  BY DEF Derive, Finish, KeyHandedOut, KeyLost, KeyKept, KeyUnreported
<1>3. AttType' /\ CallInv' /\ ReplyInv'
  BY <1>1, <1>2, CallOver DEF AttestInv
<1>4. CASE UNCHANGED given
  BY <1>1, <1>3, <1>4, GivenKept DEF AttestInv
<1>5. CASE \E x : given' = [given EXCEPT !.unreported = x]
  <2>1. given'.key = given.key /\ given'.missed = given.missed
    BY <1>5 DEF AttestInv, GivenInv, GivenType
  <2>2. GivenType'
    BY <1>5 DEF AttestInv, GivenInv, GivenType
  <2> QED
    BY <1>1, <1>3, <2>1, <2>2 DEF AttestInv, GivenInv, KeyInv
<1>6. CASE att.state # << >> /\ KeyHandedOut
  <2>1. /\ att.index = NumSlots /\ att.existed \in Seen
        /\ att.req \in KeyRequest /\ KeyChecks(att.req) = "ok"
    BY <1>1, WorkingType DEF AttestInv, IsWorking
  <2>2. /\ StateOk(att.state, NumSlots, slot)
        /\ MissedOk(att.state, att.existed, NumSlots, slot)
        /\ \A s \in DOMAIN att.existed : slot[s].is_populated
    BY <1>1, <2>1 DEF AttestInv, CallInv, IsWorking, NoLonger
  <2>3. given' = [key |-> KeyOf(att), algo |-> att.req.algo, missed |-> Missed,
                  unreported |-> None]
    BY <1>6 DEF KeyHandedOut
  <2>4. att.req.bits \in {256, 384, 521}
    BY <2>1 DEF KeyChecks
  <2>5. given'.key.state = att.state /\ given'.missed = Missed /\ IsKey(given'.key)
    BY <1>6, <2>3, <2>4 DEF KeyOf, IsKey
  <2>6. /\ Missed \in Seen
        /\ \A s \in DOMAIN Missed : slot[s].is_populated /\ s \notin Indices(att.state)
        /\ MissedOk(att.state, Missed, NumSlots, slot)
    <3>1. PICK D \in SUBSET Slot : att.existed \in [D -> Lengths]
      BY <2>1 DEF Seen
    <3>2. Missed \in [D \ Indices(att.state) -> Lengths]
      BY <3>1 DEF Missed
    <3>3. \A s \in DOMAIN Missed : s \in DOMAIN att.existed /\ Missed[s] = att.existed[s]
                                  /\ s \notin Indices(att.state)
      BY DEF Missed
    <3> QED
      BY <2>2, <3>2, <3>3 DEF Seen, MissedOk
  <2>7. GivenInv'
    BY <1>1, <2>2, <2>3, <2>5, <2>6 DEF GivenInv, GivenType, KeyInv, IsKey
  <2> QED
    BY <1>3, <2>7 DEF AttestInv
<1> QED
  BY <1>4, <1>5, <1>6 DEF Derive, KeyLost, KeyKept, KeyUnreported

LEMMA AttestInvStep ==
    TypeOK /\ AttestInv /\ [OpenAttestNext]_allVars => AttestInv'
<1> SUFFICES ASSUME TypeOK, AttestInv, [OpenAttestNext]_allVars PROVE AttestInv'
  OBVIOUS
<1>1. Grows(slot, slot') /\ TypeOK'
  BY StepIsOpen, SlotsGrow, TypeStep DEF AttestInv
<1>2. CASE \/ UNCHANGED allVars
           \/ /\ MeasuredBootStep \/ \E c \in Client \ {Attest}, m \in Message : Send(c, m)
              /\ UNCHANGED attestVars
  <2>1. UNCHANGED attestVars
    BY <1>2 DEF allVars
  <2>2. AttType' /\ CallInv' /\ GivenInv'
    BY <1>1, <2>1, SlotsMayGrow DEF AttestInv
  <2>3. ReplyInv'
    BY <1>1, <1>2, <2>1, ReplyStep DEF AttestInv, allVars
  <2> QED
    BY <2>2, <2>3 DEF AttestInv
<1>3. CASE AttestStep
  BY <1>3, ReadSlotStep, CollectStateStep, DeriveStep DEF AttestStep
<1>4. ASSUME NEW r \in AnyRequest, GetToken(r) \/ Unknown(r)
      PROVE  AttestInv'
  <2>1. /\ att = Idle /\ UNCHANGED <<slot, msg, given>>
        /\ att' \in {Idle, [at |-> "panic"]}
    BY <1>4 DEF GetToken, Unknown, Finish, vars
  <2>2. att.at # "wait"
    BY <2>1 DEF Idle
  <2> QED
    BY <2>1, <2>2, CallOver, GivenKept DEF AttestInv
<1> QED
  BY <1>2, <1>3, <1>4, GetKeyStep DEF OpenAttestNext, Serve

-----------------------------------------------------------------------------
(* Theorems *)

LEMMA OpenAttestInv == OpenAttestSpec => [](TypeOK /\ AttestInv)
<1>1. Init /\ AttestInit => TypeOK /\ AttestInv
  BY TypeInit, AttestInvInit
<1>2. TypeOK /\ AttestInv /\ [OpenAttestNext]_allVars => (TypeOK /\ AttestInv)'
  BY StepIsOpen, TypeStep, AttestInvStep DEF AttestInv
<1> QED
  BY <1>1, <1>2, PTL DEF OpenAttestSpec

(* The invariant of a call for a key, for any clients of both partitions. *)
THEOREM AttestInvCorrect == AttestSpec => [](TypeOK /\ AttestInv)
BY OpenAttestInv, AttestIsOpen, PTL

(* To measured boot, the composition is the partition among its clients:   *)
(* every step is one of its own, or the call of a client.                  *)
THEOREM AttestImplementsMeasuredBoot == AttestSpec => OpenSpec
<1>1. AttestInv /\ [OpenAttestNext]_allVars => [OpenNext]_vars
  BY StepIsOpen DEF AttestInv
<1> QED
  BY <1>1, OpenAttestInv, AttestIsOpen, PTL DEF OpenAttestSpec, OpenSpec

(* What is proved of measured boot alone therefore holds beside the        *)
(* attestation partition: locked slots are final, what a reader was told   *)
(* stays true, and the boot measurements come first.                       *)
THEOREM MeasuredBootInComposition ==
    AttestSpec => LockedIsFinal /\ []ReadsStayTrue /\ []BootMeasurementsFirst
BY AttestImplementsMeasuredBoot, OpenLockedIsFinal, OpenReadsStayTrue, OpenBootFirst, PTL

(* A key that was handed out was derived from measurements that the slots  *)
(* held, in the order of the slots, however they were extended meanwhile.  *)
THEOREM KeyFromMeasurementsCorrect == AttestSpec => []KeyFromMeasurements
<1>1. AttestInv => KeyFromMeasurements
  BY DEF AttestInv, GivenInv, KeyInv, KeyFromMeasurements, StateOk, RecOk
<1> QED
  BY <1>1, AttestInvCorrect, PTL

(* A measurement that existed is only left out of the boot state if one of *)
(* its four lengths exceeds that of the last record before it.             *)
THEOREM MissedOnlyAfterShorterCorrect == AttestSpec => []MissedOnlyAfterShorter
<1>1. AttestInv => MissedOnlyAfterShorter
  <2> SUFFICES ASSUME AttestInv, given.key # None, NEW s \in DOMAIN given.missed
               PROVE  \E j \in 1 .. Len(given.key.state) :
                        /\ LastBefore(given.key.state, j, s)
                        /\ TooSmall(RoomAfter(given.key.state[j]), slot[s],
                                    given.missed[s])
    BY DEF MissedOnlyAfterShorter
  <2>1. /\ MissedOk(given.key.state, given.missed, NumSlots, slot)
        /\ given.missed \in Seen /\ s \notin Indices(given.key.state)
    BY DEF AttestInv, GivenInv, KeyInv
  <2>2. s < NumSlots
    BY <2>1, SeenType, SlotAssumption DEF Slot
  <2> QED
    BY <2>1, <2>2 DEF MissedOk
<1> QED
  BY <1>1, AttestInvCorrect, PTL

(* Which key there may be: the one handed out last, or one that a failing  *)
(* call has made since; and the algorithm that is remembered is that of    *)
(* the key handed out.                                                     *)
DakInv ==
    /\ dak # None => dak \in {given.key, given.unreported}
    /\ dak_pub_hash_algo = given.algo
    /\ dak_requested => given.algo \in Algo

TokenInv == TokenBoundToKey /\ DakInv

LEMMA TokenStep ==
    AttestInv /\ TokenInv /\ [OpenAttestNext]_allVars => TokenInv'
<1> SUFFICES ASSUME AttestInv, TokenInv, [OpenAttestNext]_allVars PROVE TokenInv'
  OBVIOUS
<1> DEFINE same == UNCHANGED <<dak, dak_requested, dak_pub_hash_algo, given>>
<1>1. CASE same /\ UNCHANGED outcome
  BY <1>1 DEF TokenInv, TokenBoundToKey, DakInv
<1>2. CASE "token_for" \notin DOMAIN outcome' /\ DakInv'
  BY <1>2 DEF TokenInv, TokenBoundToKey
<1>3. \A o : "token_for" \notin DOMAIN [status |-> o]
  OBVIOUS
<1>4. CASE same /\ "token_for" \notin DOMAIN outcome'
  BY <1>2, <1>4 DEF TokenInv, DakInv
<1> HIDE DEF same
<1>5. CASE AttestStep
  <2>1. CASE ReadSlot
    BY <1>1, <2>1 DEF ReadSlot, same
  <2>2. CASE CollectState
    BY <1>1, <1>3, <1>4, <2>2 DEF CollectState, TakeAnswer, Finish, same
  <2>3. CASE KeyHandedOut /\ att.at = "derive"
    <3>1. att.req.algo \in Algo
      BY <2>3, WorkingType DEF AttestInv, IsWorking, KeyChecks
    <3>2. DakInv'
      BY <2>3, <3>1 DEF KeyHandedOut, DakInv
    <3>3. "token_for" \notin DOMAIN outcome'
      BY <2>3 DEF KeyHandedOut, Finish
    <3> QED
      BY <1>2, <3>2, <3>3
  <2>4. CASE KeyLost \/ KeyUnreported
    <3>1. /\ GivenType /\ given' = [given EXCEPT !.unreported = dak']
          /\ UNCHANGED <<dak_requested, dak_pub_hash_algo>>
      BY <2>4 DEF KeyLost, KeyUnreported, AttestInv, GivenInv
    <3>2. given'.unreported = dak' /\ given'.algo = given.algo
      BY <3>1 DEF GivenType
    <3>3. "token_for" \notin DOMAIN outcome'
      BY <1>3, <2>4 DEF KeyLost, KeyUnreported, Finish
    <3> QED
      BY <1>2, <3>1, <3>2, <3>3 DEF TokenInv, DakInv
  <2>5. CASE KeyKept \/ (Finish([status |-> "invalid_argument"]) /\ same)
    BY <1>3, <1>4, <2>5 DEF KeyKept, Finish, same
  <2> QED
    BY <1>5, <2>1, <2>2, <2>3, <2>4, <2>5 DEF AttestStep, Derive, same
<1>6. ASSUME NEW r \in AnyRequest, GetKey(r) \/ Unknown(r)
      PROVE  TokenInv'
  BY <1>3, <1>4, <1>6 DEF GetKey, Unknown, Finish, same
<1>7. ASSUME NEW r \in AnyRequest, GetToken(r)
      PROVE  TokenInv'
  <2>1. same
    BY <1>7 DEF GetToken, same
  <2>2. CASE \E st : outcome' = [status |-> st]
    BY <1>3, <1>4, <2>1, <2>2
  <2>3. CASE TokenChecks(r) = "ok"
             /\ outcome' = [status |-> "ok", token_for |-> Hashed(r), len |-> r.len]
    <3>1. VerifyHash(r) = "ok" /\ dak_requested
      BY <2>3 DEF TokenChecks
    <3>2. /\ r.len = HashLength[dak_pub_hash_algo]
          /\ dak # None /\ Hashed(r) = dak
      BY <3>1 DEF VerifyHash
    <3>3. DakInv
      BY DEF TokenInv
    <3> QED
      BY <2>1, <2>3, <3>1, <3>2, <3>3 DEF TokenInv, TokenBoundToKey, DakInv, same
  <2> QED
    BY <1>7, <2>2, <2>3 DEF GetToken, Finish
<1> QED
  BY <1>1, <1>5, <1>6, <1>7 DEF OpenAttestNext, Serve, attestVars, allVars, same

(* A token is only made for the current key, which is the one handed out   *)
(* last or one that a failing call has made since, under the algorithm of  *)
(* the last call that succeeded.                                           *)
THEOREM TokenBoundToKeyCorrect == AttestSpec => []TokenBoundToKey
<1>1. AttestInit => TokenInv
  BY DEF AttestInit, TokenInv, TokenBoundToKey, DakInv, NoKey
<1>2. TokenInv => TokenBoundToKey
  BY DEF TokenInv
<1> QED
  BY <1>1, <1>2, TokenStep, AttestIsOpen, OpenAttestInv, PTL DEF OpenAttestSpec
=============================================================================
